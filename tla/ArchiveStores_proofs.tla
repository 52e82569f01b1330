------------------------ MODULE ArchiveStores_proofs ------------------------
(***************************************************************************)
(* What the row of a document says beside its own columns is true: a draft*)
(* has its snapshot, a formal document with chunks has its vectors; and a *)
(* suggestion never replaces a person's values.  Theorems that use the    *)
(* invariant LifeInv of ArchiveLifecycle_proofs.                          *)
(***************************************************************************)
EXTENDS ArchiveLifecycle_proofs

Early == {"UPLOADED", "PARSE_FAILED"}
\* Handlers that write a status past parsing without looking at the snapshot.
SourcedPc == {"editing", "suggesting", "suggest_failed"}

\* The snapshot row is never taken away while the document is there, so a
\* handler that has once seen a draft or a snapshot may rely on it later.
SourceInv ==
    /\ DraftsHaveSnapshot
    /\ \A w \in Worker : task[w].pc \in SourcedPc /\ doc.present => doc.snapshot

SourceKept(w) ==
    /\ doc'.present => doc.present /\ (doc.snapshot => doc'.snapshot)
    /\ DraftsHaveSnapshot'
    /\ task'[w].pc \in SourcedPc /\ doc'.present => doc'.snapshot
    /\ \A v \in Worker \ {w} : task'[v] = task[v]

LEMMA SourceStep ==
    ASSUME SourceInv, NEW w \in Worker, SourceKept(w)
    PROVE  SourceInv'
<1>1. ASSUME NEW v \in Worker, task'[v].pc \in SourcedPc, doc'.present
      PROVE  doc'.snapshot
  <2>1. CASE v = w
    BY <1>1, <2>1 DEF SourceKept
  <2>2. CASE v # w
    BY <1>1, <2>2 DEF SourceKept, SourceInv
  <2> QED
    BY <2>1, <2>2
<1> QED
  BY <1>1 DEF SourceInv, SourceKept

\* A step that leaves the row and the fields alone.
LEMMA SourceQuiet ==
    ASSUME SourceInv, NEW w \in Worker, UNCHANGED <<doc, fields>>,
           \A v \in Worker \ {w} : task'[v] = task[v],
           task'[w].pc \in SourcedPc /\ doc.present => doc.snapshot
    PROVE  SourceKept(w)
BY DEF SourceInv, SourceKept, DraftsHaveSnapshot

\* A step that writes the row of a document whose snapshot is known.
LEMMA SourceWritten ==
    ASSUME SourceInv, NEW w \in Worker,
           doc'.present => doc.present /\ doc'.snapshot,
           \A v \in Worker \ {w} : task'[v] = task[v]
    PROVE  SourceKept(w)
BY DEF SourceKept, DraftsHaveSnapshot

LEMMA SourceParse ==
    ASSUME TypeOK, SourceInv, NEW w \in Worker, BeginParse(w) \/ ParseStep(w)
    PROVE  SourceKept(w)
<1> USE DEF TypeOK, rows, SourcedPc, BusyPc, ParsePc
<1>1. CASE BeginParse(w)
  <2> DEFINE r == [Idle EXCEPT !.pc = "parsing", !.st = doc.status]
  <2>1. r \in Task /\ r.pc = "parsing"
    BY IdleType DEF Idle, Task, ArchiveDocument
  <2>2. Become(w, r) /\ UNCHANGED <<doc, fields>>
    BY <1>1 DEF BeginParse
  <2> HIDE DEF r
  <2>3. task'[w].pc = "parsing" /\ \A v \in Worker \ {w} : task'[v] = task[v]
    BY <2>1, <2>2, BecomeType
  <2> QED
    BY <2>2, <2>3, SourceQuiet
<1>2. CASE ParseFile(w) \/ WriteSnapshotFile(w) \/ RollBackSnapshot(w)
  <2>1. \A v \in Worker \ {w} : task'[v] = task[v]
    BY <1>2, GotoType DEF ParseFile, WriteSnapshotFile, RollBackSnapshot
  <2>2. task'[w].pc \in ParsePc
    BY <1>2 DEF ParseFile, WriteSnapshotFile, RollBackSnapshot, Goto, Task
  <2> QED
    BY <1>2, <2>1, <2>2, SourceQuiet
       DEF ParseFile, WriteSnapshotFile, RollBackSnapshot
<1>3. CASE ParseFails(w)
  <2>1. task'[w].pc = "idle" /\ \A v \in Worker \ {w} : task'[v] = task[v]
    BY <1>3, FinishType DEF ParseFails, Idle
  <2>2. /\ doc'.present = doc.present /\ doc'.snapshot = doc.snapshot
        /\ doc'.present => doc'.status \in {doc.status, "PARSE_FAILED"}
    BY <1>3 DEF ParseFails, StatusAfterParseFailure, ArchiveDocument
  <2>3. fields' = fields
    BY <1>3 DEF ParseFails
  <2> QED
    BY <2>1, <2>2, <2>3 DEF SourceInv, SourceKept, DraftsHaveSnapshot
<1>4. CASE CommitSnapshot(w)
  <2>1. \A v \in Worker \ {w} : task'[v] = task[v]
    BY <1>4, FinishType DEF CommitSnapshot
  <2>2. doc'.present => doc.present /\ doc'.snapshot
    BY <1>4 DEF CommitSnapshot, ArchiveDocument
  <2> QED
    BY <2>1, <2>2, SourceWritten
<1>5. CASE UnlinkSnapshotFile(w)
  <2>1. task'[w].pc = "idle" /\ \A v \in Worker \ {w} : task'[v] = task[v]
    BY <1>5, FinishType DEF UnlinkSnapshotFile, Idle
  <2> QED
    BY <1>5, <2>1, SourceQuiet DEF UnlinkSnapshotFile
<1> QED
  BY <1>1, <1>2, <1>3, <1>4, <1>5 DEF ParseStep

LEMMA SourceDraft ==
    ASSUME TypeOK, SourceInv, NEW w \in Worker,
           DraftRequest(w) \/ LeaveDraft(w) \/ DraftStep(w)
    PROVE  SourceKept(w)
<1> USE DEF TypeOK, rows, ReadsOnly, RowAndFieldsOnly, SourcedPc, BusyPc, SuggestPc
<1>0. ASSUME OpenFreshDraft, doc.present => doc.snapshot,
             \A v \in Worker \ {w} : task'[v] = task[v]
      PROVE  SourceKept(w)
  <2>1. doc'.present => doc.present /\ doc'.snapshot
    BY <1>0 DEF OpenFreshDraft, FreshDocument, ArchiveDocument
  <2> QED
    BY <1>0, <2>1, SourceWritten
<1>1. CASE ReadDraftRow(w)
  <2> DEFINE r == [Idle EXCEPT !.pc = "reading", !.ver = doc.version]
  <2>1. r \in Task /\ r.pc = "reading"
    BY IdleType DEF Idle, Task, ArchiveDocument
  <2>2. Become(w, r) /\ UNCHANGED <<doc, fields>>
    BY <1>1 DEF ReadDraftRow
  <2> HIDE DEF r
  <2>3. task'[w].pc = "reading" /\ \A v \in Worker \ {w} : task'[v] = task[v]
    BY <2>1, <2>2, BecomeType
  <2> QED
    BY <2>2, <2>3, SourceQuiet
<1>2. CASE ReadDraftFields(w)
  <2>0. task[w] \in Task /\ fields.rev \in Nat
    BY DEF FieldValues
  <2> DEFINE r == [task[w] EXCEPT !.pc = "drafted", !.rev = fields.rev]
  <2>1. r \in Task /\ r.pc = "drafted"
    BY <2>0 DEF Task
  <2>2. (Become(w, r) \/ Finish(w)) /\ UNCHANGED <<doc, fields>>
    BY <1>2 DEF ReadDraftFields
  <2> HIDE DEF r
  <2>3. /\ task'[w].pc \in {"drafted", "idle"}
        /\ \A v \in Worker \ {w} : task'[v] = task[v]
    BY <2>1, <2>2, BecomeType, FinishType DEF Idle
  <2> QED
    BY <2>2, <2>3, SourceQuiet
<1>3. CASE LeaveDraft(w) \/ EditConflict(w) \/ GiveUpRegenerate(w)
           \/ SuggestionNotSaved(w)
  <2>1. task'[w].pc = "idle" /\ \A v \in Worker \ {w} : task'[v] = task[v]
    BY <1>3, FinishType
       DEF LeaveDraft, EditConflict, GiveUpRegenerate, SuggestionNotSaved, Idle
  <2> QED
    BY <1>3, <2>1, SourceQuiet
       DEF LeaveDraft, EditConflict, GiveUpRegenerate, SuggestionNotSaved
<1>4. CASE BeginEdit(w)
  <2>0. task[w] \in Task /\ doc.status \in Status
    BY DEF ArchiveDocument
  <2>1. [task[w] EXCEPT !.pc = "editing", !.st = doc.status] \in Task
    BY <2>0 DEF Task
  <2>2. \A v \in Worker \ {w} : task'[v] = task[v]
    BY <1>4, <2>1, BecomeType DEF BeginEdit
  <2>3. doc.present => doc.snapshot
    BY <1>4 DEF BeginEdit, SourceInv, DraftsHaveSnapshot
  <2>4. UNCHANGED <<doc, fields>>
    BY <1>4 DEF BeginEdit
  <2> QED
    BY <2>2, <2>3, <2>4, SourceQuiet
<1>5. CASE EditField(w)
  <2>1. \A v \in Worker \ {w} : task'[v] = task[v]
    BY <1>5, FinishType DEF EditField
  <2>2. doc.present => doc.snapshot
    BY <1>5 DEF EditField, SourceInv
  <2>3. doc' = EditedDocument(w)
    BY <1>5 DEF EditField
  <2>4. doc'.present = doc.present /\ doc'.snapshot = doc.snapshot
    BY <2>3 DEF EditedDocument, ArchiveDocument
  <2> QED
    BY <2>1, <2>2, <2>4, SourceWritten
<1>6. CASE CreateManualDraft(w)
  <2>1. doc.present => doc.snapshot
    BY <1>6 DEF CreateManualDraft, ManualDraftAllowed, SourceInv, DraftsHaveSnapshot
  <2> QED
    BY <1>0, <1>6, <2>1 DEF CreateManualDraft
<1>7. CASE StartSuggestion(w)
  <2>1. [Idle EXCEPT !.pc = "suggesting"] \in Task
    BY IdleType DEF Task
  <2>2. \A v \in Worker \ {w} : task'[v] = task[v]
    BY <1>7, <2>1, BecomeType DEF StartSuggestion
  <2> QED
    BY <1>7, <2>2, SourceQuiet DEF StartSuggestion
<1>8. CASE PersistSuggestion(w)
  <2>1. \A v \in Worker \ {w} : task'[v] = task[v]
    BY <1>8, FinishType DEF PersistSuggestion
  <2>2. doc.present => doc.snapshot
    BY <1>8 DEF PersistSuggestion, SourceInv
  <2> QED
    BY <1>0, <1>8, <2>1, <2>2 DEF PersistSuggestion
<1>9. CASE SuggestionFails(w)
  <2>1. \A v \in Worker \ {w} : task'[v] = task[v]
    BY <1>9, GotoType DEF SuggestionFails
  <2>2. doc.present => doc.snapshot
    BY <1>9 DEF SuggestionFails, SourceInv
  <2> QED
    BY <1>9, <2>1, <2>2, SourceQuiet DEF SuggestionFails
<1>10. CASE RecordSuggestionFailure(w)
  <2>1. \A v \in Worker \ {w} : task'[v] = task[v]
    BY <1>10, FinishType DEF RecordSuggestionFailure
  <2>2. doc.present => doc.snapshot
    BY <1>10 DEF RecordSuggestionFailure, SourceInv
  <2>3. doc'.present => doc.present /\ doc'.snapshot
    BY <1>10, <2>2 DEF RecordSuggestionFailure, ArchiveDocument
  <2> QED
    BY <2>1, <2>3, SourceWritten
<1>11. CASE BeginRegenerate(w)
  <2>1. task'[w].pc = "regenerating" /\ \A v \in Worker \ {w} : task'[v] = task[v]
    BY <1>11, GotoType DEF BeginRegenerate, Goto, Task
  <2> QED
    BY <1>11, <2>1, SourceQuiet DEF BeginRegenerate
<1>12. CASE CommitRegenerate(w)
  <2>1. \A v \in Worker \ {w} : task'[v] = task[v]
    BY <1>12, FinishType DEF CommitRegenerate
  <2>2. doc.snapshot
    BY <1>12 DEF CommitRegenerate, RegenerateRecheck, RegenerateAllowed
  <2> QED
    BY <1>0, <1>12, <2>1, <2>2 DEF CommitRegenerate
<1> QED
  BY <1>1, <1>2, <1>3, <1>4, <1>5, <1>6, <1>7, <1>8, <1>9, <1>10, <1>11,
     <1>12 DEF DraftRequest, DraftStep

LEMMA SourceFormal ==
    ASSUME TypeOK, SourceInv, NEW w \in Worker, QuietFormal(w) \/ Confirm(w)
    PROVE  SourceKept(w)
<1> USE DEF TypeOK, rows, SourcedPc
<1>1. CASE Cancel(w) \/ Confirm(w)
  <2>1. [Idle EXCEPT !.pc = "cleaning"] \in Task /\ [Idle EXCEPT !.pc = "confirmed"] \in Task
    BY IdleType DEF Task, BusyPc
  <2>2. \A v \in Worker \ {w} : task'[v] = task[v]
    BY <1>1, <2>1, BecomeType DEF Cancel, Confirm
  <2>3. doc.status = "CONFIRMED" \/ doc.snapshot
    BY <1>1 DEF Cancel, CancelAllowed, Confirm, ConfirmAllowed
  <2>4. doc.present => doc.snapshot
    BY <2>3 DEF SourceInv, DraftsHaveSnapshot
  <2>5. doc'.present = doc.present /\ doc'.snapshot = doc.snapshot
    BY <1>1 DEF Cancel, CancelledDocument, Confirm, ConfirmedDocument, ArchiveDocument
  <2> QED
    BY <2>2, <2>4, <2>5, SourceWritten
<1>2. CASE QuietFormal(w) /\ ~Cancel(w)
  <2>1. EditKept(w) /\ Quiet(w)
    BY <1>2, KeptFormal DEF Outside
  <2>2. UNCHANGED <<doc, fields>>
    BY <1>2 DEF QuietFormal, ReloadConfirmed, CleanUpVectors, CleanUpFails, StartIndex,
                LoseBookkeeping
  <2>3. task'[w].pc \in {"reloaded", "idle"}
    <3> DEFINE r == [Idle EXCEPT !.pc = "reloaded", !.st = doc.status,
                                 !.hash = doc.hash, !.chunks = doc.chunks]
    <3>1. r \in Task /\ r.pc = "reloaded"
      BY IdleType DEF Idle, Task, ArchiveDocument, BusyPc
    <3>2. Become(w, r) \/ Finish(w)
      BY <1>2 DEF QuietFormal, ReloadConfirmed, CleanUpVectors, CleanUpFails,
                  StartIndex, LoseBookkeeping
    <3> HIDE DEF r
    <3> QED
      BY <3>1, <3>2, BecomeType, FinishType DEF Idle
  <2> QED
    BY <2>1, <2>2, <2>3, SourceQuiet DEF Quiet
<1> QED
  BY <1>1, <1>2

\* A handler that owns an operation goes on with it or is done.
LEMMA OwnerPc ==
    ASSUME TypeOK, NEW w \in Worker, OwnerStep(w), task' # task
    PROVE  task'[w].pc \in IndexPc \cup DeletePc \cup {"idle"}
<1> USE DEF TypeOK, Become, Goto, Finish, Idle, Task, IndexPc, DeletePc
<1>1. CASE ReplayConfirm(w) \/ StartIndex(w)
  <2> DEFINE r == [Idle EXCEPT !.pc = "building", !.op = Len(indexOps) + 1]
  <2>1. r.pc = "building"
    OBVIOUS
  <2>2. task' = [task EXCEPT ![w] = r] \/ task' = [task EXCEPT ![w] = Idle]
    BY <1>1 DEF ReplayConfirm, StartIndex, OpenIndex
  <2> HIDE DEF r
  <2> QED
    BY <2>1, <2>2
<1>2. CASE BuildChunks(w)
  <2>1. task' = [task EXCEPT ![w] = [task[w] EXCEPT !.pc = "upserting", !.rev = fields.rev]]
    BY <1>2 DEF BuildChunks
  <2>2. task[w] \in Task
    OBVIOUS
  <2>3. [task[w] EXCEPT !.pc = "upserting", !.rev = fields.rev].pc = "upserting"
    BY <2>2
  <2> QED
    BY <2>1, <2>3
<1>3. CASE UpsertChunks(w) \/ FinishIndex(w) \/ IndexFails(w) \/ MarkIndexFailed(w)
  BY <1>3 DEF UpsertChunks, FinishIndex, IndexFails, MarkIndexFailed
<1>4. CASE DeleteRequest(w)
  BY <1>4 DEF DeleteRequest, StartDelete, RefuseDelete
<1>5. CASE DeleteStep(w)
  BY <1>5 DEF DeleteStep, ClearVectors, RemoveFiles, RemoveRows, DeleteFails,
              MarkDeleteFailed
<1> QED
  BY <1>1, <1>2, <1>3, <1>4, <1>5 DEF OwnerStep

\* The handlers that own an operation never touch the status, but the last
\* transaction of a deletion removes the row.
LEMMA SourceOwner ==
    ASSUME TypeOK, SourceInv, NEW w \in Worker, OwnerStep(w)
    PROVE  SourceKept(w)
<1>1. \A v \in Worker \ {w} : task'[v] = task[v]
  BY OwnerOthers
<1>2. task'[w].pc \in SourcedPc => task' = task
  BY OwnerPc DEF IndexPc, DeletePc, SourcedPc
<1>3. CASE UNCHANGED <<doc, fields>>
  BY <1>1, <1>2, <1>3, SourceQuiet DEF SourceInv
<1>4. CASE FinishIndex(w)
  <2>1. fields' = fields /\ doc' = IndexedDocument
    BY <1>4 DEF FinishIndex
  <2>2. /\ doc'.present = doc.present /\ doc'.snapshot = doc.snapshot
        /\ doc'.status = doc.status
    BY <2>1 DEF IndexedDocument, TypeOK, ArchiveDocument
  <2> QED
    BY <1>1, <1>2, <2>1, <2>2 DEF SourceInv, SourceKept, DraftsHaveSnapshot
<1>5. CASE RemoveRows(w)
  <2>1. doc'.present = FALSE
    BY <1>5 DEF RemoveRows, RemovedDocument, TypeOK, ArchiveDocument
  <2> QED
    BY <1>1, <2>1, SourceWritten
<1>6. UNCHANGED <<doc, fields>> \/ FinishIndex(w) \/ RemoveRows(w)
  BY DEF OwnerStep, ReplayConfirm, StartIndex, BuildChunks, UpsertChunks, IndexFails,
         MarkIndexFailed, DeleteRequest, StartDelete, RefuseDelete, DeleteStep,
         ClearVectors, RemoveFiles, DeleteFails, MarkDeleteFailed, rows
<1> QED
  BY <1>3, <1>4, <1>5, <1>6

LEMMA SourceNext ==
    ASSUME TypeOK, SourceInv, [Next]_vars
    PROVE  SourceInv'
<1>1. CASE UNCHANGED vars
  BY <1>1 DEF vars, rows, SourceInv, DraftsHaveSnapshot
<1>2. CASE Crash
  <2>1. UNCHANGED <<doc, fields>>
    BY <1>2 DEF Crash, rows
  <2>2. \A v \in Worker : task'[v] \in {task[v], Idle}
    BY <1>2 DEF Crash
  <2> QED
    BY <2>1, <2>2 DEF SourceInv, DraftsHaveSnapshot, SourcedPc, Idle
<1>3. CASE Next /\ ~Crash
  BY <1>3, NextCases, SourceParse, SourceDraft, SourceFormal, SourceOwner, SourceStep
<1> QED
  BY <1>1, <1>2, <1>3

LEMMA SourceInit == Init => SourceInv
<1> SUFFICES ASSUME Init PROVE SourceInv
  OBVIOUS
<1>1. doc.snapshot = StartReady /\ fields.exists = StartReady
  BY DEF Init
<1>2. ~StartReady => doc.status = "UPLOADED"
  BY DEF Init
<1>3. \A w \in Worker : task[w].pc = "idle"
  BY DEF Init, Idle
<1>4. StartReady \in BOOLEAN
  BY InstanceAssumption
<1> QED
  BY <1>1, <1>2, <1>3, <1>4 DEF SourceInv, DraftsHaveSnapshot, SourcedPc

\* Whatever parses, suggestions and failures race: no draft, and no status past
\* parsing, without the one snapshot its values and chunks come from.
THEOREM DraftsSourced == Spec => []DraftsHaveSnapshot
<1>1. SourceInv => DraftsHaveSnapshot
  BY DEF SourceInv
<1> QED
  BY <1>1, SourceInit, SourceNext, TypeCorrect, PTL DEF Spec

-----------------------------------------------------------------------------
\* A worker whose vectors are written and not yet recorded still has them,
\* unless the observer has seen the cleanup of a cancellation take them.
Full == vectors # {} \/ disturbed
FullInv == IndexedHasVectors /\ \A w \in Worker : task[w].pc = "upserted" => Full

\* No step empties the vectors while somebody relies on them, and only the
\* end of an index makes a formal document claim chunks.
FullKept(w) ==
    /\ Full => \/ Full'
               \/ ~Visible' /\ \A v \in Worker \ {w} : task'[v].pc # "upserted"
    /\ Visible' /\ doc'.chunks > 0 =>
          (Visible /\ doc.chunks > 0) \/ task[w].pc = "upserted"
    /\ task'[w].pc = "upserted" => Full'
    /\ \A v \in Worker \ {w} : task'[v] = task[v]

LEMMA FullStep ==
    ASSUME FullInv, NEW w \in Worker, FullKept(w)
    PROVE  FullInv'
<1>1. ASSUME Visible', doc'.chunks > 0
      PROVE  Full'
  <2>1. Full
    BY <1>1 DEF FullInv, FullKept, IndexedHasVectors, Full
  <2> QED
    BY <1>1, <2>1 DEF FullKept
<1>2. ASSUME NEW v \in Worker, task'[v].pc = "upserted"
      PROVE  Full'
  <2>1. CASE v = w
    BY <1>2, <2>1 DEF FullKept
  <2>2. CASE v # w
    BY <1>2, <2>2 DEF FullKept, FullInv
  <2> QED
    BY <2>1, <2>2
<1> QED
  BY <1>1, <1>2 DEF FullInv, IndexedHasVectors, Full

\* A step outside the operations that leaves vectors and claims alone.
LEMMA FullOutside ==
    ASSUME TypeOK, NEW w \in Worker, Outside(w), FormalKept,
           vectors' = vectors, disturbed' = disturbed,
           doc'.chunks \in {doc.chunks, 0}
    PROVE  FullKept(w)
<1>1. task'[w].pc # "upserted" /\ \A v \in Worker \ {w} : task'[v] = task[v]
  BY DEF Outside, Quiet, IndexPc
<1>2. Visible' => Visible
  BY DEF Outside, FormalKept, Visible
<1> QED
  BY <1>1, <1>2 DEF FullKept, Full

LEMMA FullParse ==
    ASSUME TypeOK, NEW w \in Worker, BeginParse(w) \/ ParseStep(w)
    PROVE  FullKept(w)
<1>1. FormalKept /\ Outside(w)
  BY KeptParse
<1>2. vectors' = vectors /\ disturbed' = disturbed
  BY DEF BeginParse, ParseStep, ParseFile, ParseFails, WriteSnapshotFile,
         CommitSnapshot, RollBackSnapshot, UnlinkSnapshotFile, stores, observers
<1>3. doc'.chunks = doc.chunks
  BY DEF BeginParse, ParseStep, ParseFile, ParseFails, WriteSnapshotFile,
         CommitSnapshot, RollBackSnapshot, UnlinkSnapshotFile, rows, TypeOK,
         ArchiveDocument
<1> QED
  BY <1>1, <1>2, <1>3, FullOutside

LEMMA FullDraft ==
    ASSUME TypeOK, SignedInv, NEW w \in Worker,
           DraftRequest(w) \/ LeaveDraft(w) \/ DraftStep(w)
    PROVE  FullKept(w)
<1> USE DEF DraftRequest, LeaveDraft, DraftStep, ReadDraftRow, BeginEdit,
        CreateManualDraft, StartSuggestion, BeginRegenerate, ReadDraftFields,
        EditField, EditConflict, PersistSuggestion, SuggestionNotSaved,
        SuggestionFails, RecordSuggestionFailure, CommitRegenerate,
        GiveUpRegenerate, ReadsOnly, RowAndFieldsOnly
<1>1. FormalKept /\ Outside(w)
  BY KeptDraft
<1>2. vectors' = vectors /\ disturbed' = disturbed
  BY DEF stores, observers
<1>3. \/ doc' = doc \/ doc' = FreshDocument \/ doc' = EditedDocument(w)
      \/ doc' = [doc EXCEPT !.status = "SUGGESTION_FAILED"]
  BY DEF rows, OpenFreshDraft
<1>4. doc'.chunks \in {doc.chunks, 0}
  BY <1>3 DEF FreshDocument, EditedDocument, TypeOK, ArchiveDocument
<1> QED
  BY <1>1, <1>2, <1>4, FullOutside

LEMMA FullFormal ==
    ASSUME TypeOK, SeenInv, OneOperation, NEW w \in Worker,
           QuietFormal(w) \/ Confirm(w)
    PROVE  FullKept(w)
<1>1. CASE Confirm(w)
  <2>1. Outside(w)
    BY <1>1, KeptConfirm
  <2>2. task'[w].pc # "upserted" /\ \A v \in Worker \ {w} : task'[v] = task[v]
    BY <2>1 DEF Outside, Quiet, IndexPc
  <2>3. doc'.chunks = 0 /\ vectors' = vectors /\ disturbed' = disturbed
    BY <1>1 DEF Confirm, ConfirmedDocument, TypeOK, ArchiveDocument, stores
  <2> QED
    BY <2>2, <2>3 DEF FullKept, Full
<1>2. CASE CleanUpVectors(w)
  <2>1. Outside(w)
    BY <1>2, KeptFormal DEF QuietFormal
  <2>2. task'[w].pc # "upserted" /\ \A v \in Worker \ {w} : task'[v] = task[v]
    BY <2>1 DEF Outside, Quiet, IndexPc
  <2>3. /\ doc' = doc /\ deleteOp' = deleteOp
        /\ disturbed' = (disturbed \/ IndexRunning \/ doc.status = "CONFIRMED")
    BY <1>2 DEF CleanUpVectors, rows
  <2>4. ASSUME NEW v \in Worker, task[v].pc = "upserted"
        PROVE  IndexRunning
    BY <2>4 DEF OneOperation, IndexRunning, IndexPc
  <2>5. ASSUME ~disturbed'
        PROVE  ~Visible' /\ \A v \in Worker \ {w} : task'[v].pc # "upserted"
    BY <2>2, <2>3, <2>4, <2>5 DEF Visible
  <2>6. Visible' <=> Visible
    BY <2>3 DEF Visible
  <2> QED
    BY <2>2, <2>3, <2>5, <2>6 DEF FullKept, Full
<1>3. CASE QuietFormal(w) /\ ~CleanUpVectors(w)
  <2> USE DEF QuietFormal, Cancel, ReloadConfirmed, CleanUpFails, StartIndex,
          LoseBookkeeping
  <2>1. FormalKept /\ Outside(w)
    BY <1>3, KeptFormal
  <2>2. vectors' = vectors /\ disturbed' = disturbed
    BY <1>3 DEF stores, observers
  <2>3. doc' = doc \/ doc' = CancelledDocument
    BY <1>3 DEF rows
  <2>4. doc'.chunks \in {doc.chunks, 0}
    BY <2>3 DEF CancelledDocument, TypeOK, ArchiveDocument
  <2> QED
    BY <2>1, <2>2, <2>4, FullOutside
<1> QED
  BY <1>1, <1>2, <1>3

LEMMA FullIndex ==
    ASSUME TypeOK, FullInv, NEW w \in Worker, OwnerStep(w),
           ~DeleteRequest(w), ~DeleteStep(w)
    PROVE  FullKept(w)
<1> USE DEF TypeOK
<1>0. \A v \in Worker \ {w} : task'[v] = task[v]
  BY OwnerOthers
<1>1. CASE ReplayConfirm(w) \/ StartIndex(w) \/ BuildChunks(w) \/ MarkIndexFailed(w)
  <2>1. UNCHANGED <<doc, deleteOp, vectors, disturbed>>
    BY <1>1 DEF ReplayConfirm, StartIndex, BuildChunks, MarkIndexFailed, rows,
                stores, observers
  <2>2. task'[w].pc # "upserted"
    <3> DEFINE new == [Idle EXCEPT !.pc = "building", !.op = Len(indexOps) + 1]
               next == [task[w] EXCEPT !.pc = "upserting", !.rev = fields.rev]
    <3>0. task[w] \in Task
      OBVIOUS
    <3>1. new.pc = "building" /\ next.pc = "upserting" /\ Idle.pc = "idle"
      BY <3>0 DEF Task, Idle
    <3>2. \E r \in {new, next, Idle} : task' = [task EXCEPT ![w] = r]
      BY <1>1 DEF ReplayConfirm, StartIndex, OpenIndex, BuildChunks,
                  MarkIndexFailed, Become, Finish
    <3> HIDE DEF new, next
    <3> QED
      BY <3>1, <3>2
  <2> QED
    BY <1>0, <2>1, <2>2 DEF FullKept, Full, Visible
<1>2. CASE UpsertChunks(w)
  <2>1. UNCHANGED <<doc, deleteOp>> /\ vectors' # {}
    BY <1>2 DEF UpsertChunks, rows
  <2> QED
    BY <1>0, <2>1 DEF FullKept, Full, Visible
<1>3. CASE FinishIndex(w)
  <2>1. task[w].pc = "upserted" /\ UNCHANGED <<vectors, disturbed>>
    BY <1>3 DEF FinishIndex, stores, observers
  <2>2. task'[w].pc = "idle"
    BY <1>3, FinishType DEF FinishIndex, Idle
  <2> QED
    BY <1>0, <2>1, <2>2 DEF FullKept, Full
<1>4. CASE IndexFails(w)
  <2>1. UNCHANGED <<doc, deleteOp, disturbed>> /\ (vectors' = vectors \/ vectors' # {})
    BY <1>4 DEF IndexFails, rows, observers
  <2>2. task'[w].pc = "index_failing"
    BY <1>4 DEF IndexFails, Goto, Task
  <2> QED
    BY <1>0, <2>1, <2>2 DEF FullKept, Full, Visible
<1> QED
  BY <1>1, <1>2, <1>3, <1>4 DEF OwnerStep

LEMMA FullDelete ==
    ASSUME TypeOK, OneOperation, NEW w \in Worker, DeleteRequest(w) \/ DeleteStep(w)
    PROVE  FullKept(w)
<1> USE DEF TypeOK
<1>0. \A v \in Worker \ {w} : task'[v] = task[v]
  BY OwnerOthers DEF OwnerStep
<1>1. CASE RefuseDelete(w)
  <2>1. UNCHANGED <<doc, deleteOp, vectors, disturbed, task>> /\ task[w].pc = "idle"
    BY <1>1 DEF RefuseDelete, Accept, rows, stores, observers
  <2> QED
    BY <2>1 DEF FullKept, Full, Visible
<1>2. CASE StartDelete(w) \/ MarkDeleteFailed(w)
  <2>1. UNCHANGED <<vectors, disturbed>> /\ deleteOp' # "NONE"
    BY <1>2 DEF StartDelete, MarkDeleteFailed, AfterDeleteFailure, stores, observers
  <2>2. task'[w].pc # "upserted"
    BY <1>2 DEF StartDelete, MarkDeleteFailed, Become, Finish, Idle
  <2> QED
    BY <1>0, <2>1, <2>2 DEF FullKept, Full, Visible
<1>3. CASE ClearVectors(w) \/ RemoveFiles(w) \/ DeleteFails(w)
  <2>1. task[w].pc \in DeletePc
    BY <1>3 DEF ClearVectors, RemoveFiles, DeleteFails, DeletePc
  <2>2. deleteOp' = "RUNNING"
    BY <1>3, <2>1 DEF ClearVectors, RemoveFiles, DeleteFails, rows, OneOperation
  <2>3. \A v \in Worker \ {w} : task'[v].pc # "upserted"
    BY <1>0, <2>1, SoleOwner DEF IndexPc
  <2>4. task'[w].pc # "upserted"
    BY <1>3 DEF ClearVectors, RemoveFiles, DeleteFails, Goto, Task
  <2> QED
    BY <1>0, <2>2, <2>3, <2>4 DEF FullKept, Visible
<1>4. CASE RemoveRows(w)
  <2>1. UNCHANGED <<vectors, disturbed>> /\ doc'.present = FALSE
    BY <1>4 DEF RemoveRows, RemovedDocument, ArchiveDocument, stores, observers
  <2>2. task'[w].pc # "upserted"
    BY <1>4, FinishType DEF RemoveRows, Idle
  <2> QED
    BY <1>0, <2>1, <2>2 DEF FullKept, Full, Visible
<1> QED
  BY <1>1, <1>2, <1>3, <1>4 DEF DeleteRequest, DeleteStep

LEMMA FullNext ==
    ASSUME LifeInv, FullInv, [Next]_vars
    PROVE  FullInv'
<1> USE DEF LifeInv, OpsInv
<1>1. CASE UNCHANGED vars
  BY <1>1 DEF vars, rows, stores, observers, FullInv, Full, IndexedHasVectors, Visible
<1>2. CASE Crash
  <2>1. UNCHANGED <<doc, deleteOp, vectors, disturbed>>
    BY <1>2 DEF Crash, rows, stores, observers
  <2>2. \A v \in Worker : task'[v] \in {task[v], Idle}
    BY <1>2 DEF Crash
  <2> QED
    BY <2>1, <2>2 DEF FullInv, Full, IndexedHasVectors, Visible, Idle
<1>3. ASSUME NEW w \in Worker, OwnerStep(w)
      PROVE  FullKept(w)
  BY <1>3, FullIndex, FullDelete
<1>4. CASE Next /\ ~Crash
  BY <1>3, <1>4, NextCases, FullParse, FullDraft, FullFormal, FullStep
<1> QED
  BY <1>1, <1>2, <1>4

LEMMA FullInit == Init => FullInv
<1> SUFFICES ASSUME Init PROVE FullInv
  OBVIOUS
<1>1. doc.chunks = 0 /\ \A w \in Worker : task[w].pc = "idle"
  BY DEF Init, Idle
<1> QED
  BY <1>1 DEF FullInv, IndexedHasVectors

\* A formal document that claims chunks has vectors, for any number of indexes,
\* cancellations and crashes: only the late cleanup of a cancellation, which
\* the observer sees, may have taken them.
THEOREM VectorsIndexed == Spec => []IndexedHasVectors
<1>1. FullInv => IndexedHasVectors
  BY DEF FullInv
<1> QED
  BY <1>1, FullInit, FullNext, LifeCorrect, PTL DEF Spec

-----------------------------------------------------------------------------
\* The row lock that a suggestion keeps over the call of the model keeps every
\* writer of the fields out, so that what it has checked before is still so.
ManualInv ==
    /\ doc.present /\ ~fields.exists => fields.manual = FALSE
    /\ \A w \in Worker :
          task[w].pc = "suggesting" => rowLock = w /\ fields.manual = FALSE

\* What a step of w may do: leave lock and fields alone, or write while the row
\* is free, or end the suggestion that has the lock.
ManualKept(w) ==
    /\ doc'.present => doc.present
    /\ \/ fields' = fields
       \/ Unlocked \/ task[w].pc = "suggesting"
    /\ \/ rowLock' = rowLock
       \/ Unlocked \/ task[w].pc = "suggesting"
    /\ doc'.present /\ ~fields'.exists => fields' = fields
    /\ task'[w].pc = "suggesting" => rowLock' = w /\ fields'.manual = FALSE
    /\ \A v \in Worker \ {w} : task'[v] = task[v]

LEMMA ManualStep ==
    ASSUME ManualInv, NEW w \in Worker, ManualKept(w)
    PROVE  ManualInv'
<1>1. doc'.present /\ ~fields'.exists => fields'.manual = FALSE
  BY DEF ManualInv, ManualKept
<1>2. ASSUME NEW v \in Worker, task'[v].pc = "suggesting"
      PROVE  rowLock' = v /\ fields'.manual = FALSE
  <2>1. CASE v = w
    BY <1>2, <2>1 DEF ManualKept
  <2>2. CASE v # w
    <3>1. task[v].pc = "suggesting"
      BY <1>2, <2>2 DEF ManualKept
    <3>2. rowLock = v /\ fields.manual = FALSE
      BY <3>1 DEF ManualInv
    <3>3. ~Unlocked /\ task[w].pc # "suggesting"
      BY <2>2, <3>2, NoWorkerAssumption DEF ManualInv, Unlocked
    <3> QED
      BY <3>2, <3>3 DEF ManualKept
  <2> QED
    BY <2>1, <2>2
<1> QED
  BY <1>1, <1>2 DEF ManualInv

\* A step that leaves fields and lock alone and starts no suggestion.
LEMMA ManualQuiet ==
    ASSUME ManualInv, NEW w \in Worker, UNCHANGED <<fields, rowLock>>,
           doc'.present => doc.present, EditKept(w) /\ Quiet(w),
           task'[w].pc # "suggesting"
    PROVE  ManualKept(w)
BY DEF ManualKept, Quiet

\* Only the start of a suggestion leads into one.
LEMMA NoSuggestion ==
    ASSUME TypeOK, NEW w \in Worker,
           \/ BeginParse(w) \/ ParseStep(w)
           \/ DraftRequest(w) \/ LeaveDraft(w) \/ DraftStep(w)
           \/ QuietFormal(w) \/ Confirm(w),
           ~StartSuggestion(w)
    PROVE  task'[w].pc # "suggesting"
<1> USE DEF Finish
<1> DEFINE parse == [Idle EXCEPT !.pc = "parsing", !.st = doc.status]
           read == [Idle EXCEPT !.pc = "reading", !.ver = doc.version]
           drafted == [task[w] EXCEPT !.pc = "drafted", !.rev = fields.rev]
           edit == [task[w] EXCEPT !.pc = "editing", !.st = doc.status]
           confirm == [Idle EXCEPT !.pc = "confirmed"]
           clean == [Idle EXCEPT !.pc = "cleaning"]
           reload == [Idle EXCEPT !.pc = "reloaded", !.st = doc.status,
                                  !.hash = doc.hash, !.chunks = doc.chunks]
           Moved == {"parsed", "snapshot_written", "unlinking",
                     "suggest_failed", "regenerating"}
           Known == \/ \E r \in {parse, read, drafted, edit, confirm, clean,
                                  reload, Idle} : Become(w, r)
                    \/ \E pc \in Moved : Goto(w, pc)
                    \/ task' = task /\ task[w].pc = "idle"
<1>1. /\ parse.pc = "parsing" /\ read.pc = "reading" /\ confirm.pc = "confirmed"
      /\ clean.pc = "cleaning" /\ reload.pc = "reloaded" /\ Idle.pc = "idle"
  BY DEF Idle
<1>2. drafted.pc = "drafted" /\ edit.pc = "editing"
  <2>1. task[w] \in Task
    BY DEF TypeOK
  <2> QED
    BY <2>1 DEF Task
<1>3. ASSUME BeginParse(w) \/ ParseStep(w) PROVE Known
  <2> HIDE DEF drafted, edit, confirm, clean, reload
  <2> QED
    BY <1>3 DEF BeginParse, ParseStep, ParseFile, ParseFails, WriteSnapshotFile,
       CommitSnapshot, RollBackSnapshot, UnlinkSnapshotFile
<1>4. ASSUME DraftRequest(w) PROVE Known
  <2> HIDE DEF parse, drafted, confirm, clean, reload
  <2> QED
    BY <1>4 DEF DraftRequest, ReadDraftRow, BeginEdit, CreateManualDraft,
       BeginRegenerate, Accept
<1>5. ASSUME LeaveDraft(w) \/ DraftStep(w) PROVE Known
  <2> HIDE DEF parse, read, edit, confirm, clean, reload
  <2> QED
    BY <1>5 DEF LeaveDraft, DraftStep, ReadDraftFields, EditField, EditConflict,
       PersistSuggestion, SuggestionNotSaved, SuggestionFails,
       RecordSuggestionFailure, CommitRegenerate, GiveUpRegenerate
<1>6. ASSUME QuietFormal(w) \/ Confirm(w) PROVE Known
  <2> HIDE DEF parse, read, drafted, edit
  <2> QED
    BY <1>6 DEF QuietFormal, Confirm, Cancel, ReloadConfirmed, CleanUpVectors,
       CleanUpFails, StartIndex, LoseBookkeeping
<1> HIDE DEF parse, read, drafted, edit, confirm, clean, reload
<1>7. Known
  BY <1>3, <1>4, <1>5, <1>6
<1>8. ASSUME NEW r \in {parse, read, drafted, edit, confirm, clean, reload, Idle},
             Become(w, r)
      PROVE  task'[w].pc # "suggesting"
  <2>1. task'[w] = r
    BY <1>8 DEF TypeOK, Become
  <2> QED
    BY <1>1, <1>2, <2>1
<1>9. CASE \E pc \in Moved : Goto(w, pc)
  BY <1>9 DEF TypeOK, Goto, Task
<1> QED
  BY <1>7, <1>8, <1>9

LEMMA ManualDraft ==
    ASSUME TypeOK, SeenInv, SignedInv, ManualInv, NEW w \in Worker,
           DraftRequest(w) \/ LeaveDraft(w) \/ DraftStep(w)
    PROVE  ManualKept(w)
<1> USE DEF ReadsOnly, RowAndFieldsOnly, rows
<1>0. /\ doc'.present = doc.present
      /\ \A v \in Worker \ {w} : task'[v] = task[v]
  BY KeptDraft DEF Outside, Quiet
<1>1. CASE StartSuggestion(w)
  <2>1. fields' = fields /\ Unlocked /\ rowLock' = w
    BY <1>1 DEF StartSuggestion
  <2>2. fields.manual = FALSE
    BY <1>1 DEF StartSuggestion, SuggestionAllowed, ManualInv, TypeOK, FieldValues
  <2> QED
    BY <1>0, <2>1, <2>2 DEF ManualKept
<1>2. CASE ~StartSuggestion(w)
  <2>1. task'[w].pc # "suggesting"
    BY <1>2, NoSuggestion
  <2>2. \/ UNCHANGED <<fields, rowLock>>
        \/ (fields' = fields \/ fields'.exists = TRUE)
           /\ (Unlocked \/ task[w].pc = "suggesting")
    <3>1. CASE EditField(w)
      <4>1. fields.exists = TRUE
        BY <3>1 DEF EditField, EditHits, SeenInv, SeenPc, TypeOK, FieldValues
      <4>2. \A p : EditedFields(p).exists = fields.exists
        BY DEF EditedFields, TypeOK, FieldValues
      <4>3. fields'.exists = TRUE /\ Unlocked
        BY <3>1, <4>1, <4>2 DEF EditField
      <4> QED
        BY <4>3
    <3>2. CASE DraftRequest(w)
      BY <1>2, <3>2 DEF DraftRequest, ReadDraftRow, BeginEdit, CreateManualDraft,
         BeginRegenerate, OpenFreshDraft, FreshFields
    <3>3. CASE LeaveDraft(w) \/ (DraftStep(w) /\ ~EditField(w))
      BY <3>3 DEF LeaveDraft, DraftStep, ReadDraftFields, EditConflict,
         PersistSuggestion, SuggestionNotSaved, SuggestionFails,
         RecordSuggestionFailure, CommitRegenerate, GiveUpRegenerate,
         OpenFreshDraft, FreshFields
    <3> QED
      BY <3>1, <3>2, <3>3 DEF DraftStep
  <2> QED
    BY <1>0, <2>1, <2>2 DEF ManualKept
<1> QED
  BY <1>1, <1>2

LEMMA ManualOther ==
    ASSUME TypeOK, SeenInv, SignedInv, ManualInv, NEW w \in Worker,
           \/ BeginParse(w) \/ ParseStep(w)
           \/ QuietFormal(w) \/ Confirm(w)
    PROVE  ManualKept(w)
<1>1. Outside(w) /\ EditKept(w)
  BY KeptParse, KeptFormal, KeptConfirm
<1>2. UNCHANGED <<fields, rowLock>>
  BY DEF BeginParse, ParseStep, ParseFile, ParseFails, WriteSnapshotFile,
     CommitSnapshot, RollBackSnapshot, UnlinkSnapshotFile, QuietFormal, Confirm,
     Cancel, ReloadConfirmed, CleanUpVectors, CleanUpFails, StartIndex,
     LoseBookkeeping, rows
<1>3. CASE ~StartSuggestion(w)
  BY <1>1, <1>2, <1>3, NoSuggestion, ManualQuiet DEF Outside
<1>4. ~StartSuggestion(w)
  <2>1. StartSuggestion(w) => rowLock' = w /\ Unlocked
    BY DEF StartSuggestion
  <2> QED
    BY <1>2, <2>1, NoWorkerAssumption DEF Unlocked
<1> QED
  BY <1>3, <1>4

LEMMA ManualOwner ==
    ASSUME TypeOK, ManualInv, NEW w \in Worker, OwnerStep(w)
    PROVE  ManualKept(w)
<1>1. \A v \in Worker \ {w} : task'[v] = task[v]
  BY OwnerOthers
<1>2. rowLock' = rowLock
  BY DEF OwnerStep, ReplayConfirm, StartIndex, BuildChunks, UpsertChunks,
     FinishIndex, IndexFails, MarkIndexFailed, DeleteRequest, StartDelete,
     RefuseDelete, DeleteStep, ClearVectors, RemoveFiles, RemoveRows, DeleteFails,
     MarkDeleteFailed
<1>3. task'[w].pc = "suggesting" => task' = task
  BY OwnerPc DEF IndexPc, DeletePc
<1>4. CASE RemoveRows(w)
  <2>1. doc'.present = FALSE /\ Unlocked
    BY <1>4 DEF RemoveRows, RemovedDocument, TypeOK, ArchiveDocument
  <2>2. task'[w].pc = "idle"
    BY <1>4, FinishType DEF RemoveRows, TypeOK, Idle
  <2> QED
    BY <1>1, <1>2, <2>1, <2>2 DEF ManualKept
<1>5. CASE ~RemoveRows(w)
  <2>1. fields' = fields /\ doc' \in {doc, IndexedDocument}
    BY <1>5 DEF OwnerStep, ReplayConfirm, StartIndex, BuildChunks, UpsertChunks,
       FinishIndex, IndexFails, MarkIndexFailed, DeleteRequest, StartDelete,
       RefuseDelete, DeleteStep, ClearVectors, RemoveFiles, DeleteFails,
       MarkDeleteFailed, rows
  <2>2. doc'.present = doc.present
    BY <2>1 DEF IndexedDocument, TypeOK, ArchiveDocument
  <2> QED
    BY <1>1, <1>2, <1>3, <2>1, <2>2 DEF ManualKept, ManualInv
<1> QED
  BY <1>4, <1>5

LEMMA ManualNext ==
    ASSUME LifeInv, ManualInv, [Next]_vars
    PROVE  ManualInv'
<1> USE DEF LifeInv
<1>1. CASE UNCHANGED vars
  BY <1>1 DEF vars, rows, ManualInv
<1>2. CASE Crash
  <2>1. UNCHANGED <<doc, fields>>
    BY <1>2 DEF Crash, rows
  <2>2. \A v \in Worker : task'[v].pc # "suggesting"
    BY <1>2 DEF Crash, Busy, BusyPc, SuggestPc, Idle
  <2> QED
    BY <2>1, <2>2 DEF ManualInv
<1>3. CASE Next /\ ~Crash
  BY <1>3, NextCases, ManualOther, ManualDraft, ManualOwner, ManualStep
<1> QED
  BY <1>1, <1>2, <1>3

LEMMA ManualInit == Init => ManualInv
<1> SUFFICES ASSUME Init PROVE ManualInv
  OBVIOUS
<1>1. fields.exists = StartReady /\ fields.manual = StartReady
  BY DEF Init
<1>2. \A w \in Worker : task[w].pc = "idle"
  BY DEF Init, Idle
<1> QED
  BY <1>1, <1>2, InstanceAssumption DEF ManualInv

\* No suggestion, first, retried or regenerated, is ever stored over a value
\* that a person has entered, however long the model takes.
THEOREM ManualValuesKept == Spec => AINeverOverwritesManual
<1>1. ASSUME ManualInv, NEW w \in Worker, PersistSuggestion(w) \/ CommitRegenerate(w)
      PROVE  ~fields.manual
  BY <1>1 DEF ManualInv, PersistSuggestion, CommitRegenerate, RegenerateRecheck,
              RegenerateAllowed, UntouchedDraft
<1>2. ManualInv =>
        [\A w \in Worker :
           PersistSuggestion(w) \/ CommitRegenerate(w) => ~fields.manual]_vars
  BY <1>1
<1>3. Spec => []ManualInv
  BY ManualInit, ManualNext, LifeCorrect, PTL DEF Spec
<1> QED
  BY <1>2, <1>3, PTL DEF AINeverOverwritesManual
=============================================================================
