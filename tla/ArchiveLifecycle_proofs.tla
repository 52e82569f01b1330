----------------------- MODULE ArchiveLifecycle_proofs -----------------------
(***************************************************************************)
(* What holds of one archive document for any number of workers, fields,    *)
(* chunks, requests and faults, and any mix of requests.                    *)
(***************************************************************************)
EXTENDS ArchiveLifecycle, TLAPS

USE SizeAssumption

-----------------------------------------------------------------------------
\* A handler only ever changes its own record.
LEMMA BecomeType ==
    ASSUME task \in [Worker -> Task], NEW w \in Worker, NEW r \in Task, Become(w, r)
    PROVE  /\ task' \in [Worker -> Task]
           /\ task'[w] = r
           /\ \A v \in Worker \ {w} : task'[v] = task[v]
BY DEF Become

LEMMA IdleType == Idle \in Task
BY DEF Idle, Task, BusyPc, ParsePc, SuggestPc, IndexPc, DeletePc, Status

LEMMA FinishType ==
    ASSUME task \in [Worker -> Task], NEW w \in Worker, Finish(w)
    PROVE  /\ task' \in [Worker -> Task]
           /\ task'[w] = Idle
           /\ \A v \in Worker \ {w} : task'[v] = task[v]
BY BecomeType, IdleType DEF Finish

LEMMA GotoType ==
    ASSUME task \in [Worker -> Task], NEW w \in Worker,
           NEW pc \in BusyPc \cup {"idle", "drafted"}, Goto(w, pc)
    PROVE  /\ task' \in [Worker -> Task]
           /\ task'[w] = [task[w] EXCEPT !.pc = pc]
           /\ \A v \in Worker \ {w} : task'[v] = task[v]
BY DEF Goto, Task

-----------------------------------------------------------------------------
LEMMA TypeInit == Init => TypeOK
<1> SUFFICES ASSUME Init PROVE TypeOK
  OBVIOUS
<1>0. StartReady \in BOOLEAN
  BY InstanceAssumption
<1>1. doc \in ArchiveDocument
  BY <1>0 DEF Init, ArchiveDocument, Status
<1>2. fields \in FieldValues
  BY <1>0 DEF Init, FieldValues
<1>3. files \in Files
  BY <1>0 DEF Init, Files
<1>4. task \in [Worker -> Task]
  BY IdleType DEF Init
<1>5. indexOps \in Seq(OperationStatus)
  BY DEF Init
<1> QED
  BY <1>1, <1>2, <1>3, <1>4, <1>5 DEF Init, TypeOK

LEMMA TypeParse ==
    ASSUME TypeOK, NEW w \in Worker, BeginParse(w) \/ ParseStep(w)
    PROVE  TypeOK'
<1> USE DEF TypeOK, rows, stores, bounds, observers, BusyPc, ParsePc
<1>1. CASE BeginParse(w)
  <2>1. [Idle EXCEPT !.pc = "parsing", !.st = doc.status] \in Task
    BY <1>1, IdleType DEF Task, ArchiveDocument
  <2> QED
    BY <1>1, <2>1, BecomeType DEF BeginParse, Accept
<1>2. CASE ParseFile(w)
  BY <1>2, GotoType DEF ParseFile
<1>3. CASE ParseFails(w)
  BY <1>3, FinishType DEF ParseFails, StatusAfterParseFailure, ArchiveDocument, Status
<1>4. CASE WriteSnapshotFile(w)
  BY <1>4, GotoType DEF WriteSnapshotFile, Files
<1>5. CASE CommitSnapshot(w)
  BY <1>5, FinishType DEF CommitSnapshot, ArchiveDocument, Status
<1>6. CASE RollBackSnapshot(w)
  BY <1>6, GotoType DEF RollBackSnapshot
<1>7. CASE UnlinkSnapshotFile(w)
  BY <1>7, FinishType DEF UnlinkSnapshotFile, Files
<1> QED
  BY <1>1, <1>2, <1>3, <1>4, <1>5, <1>6, <1>7 DEF ParseStep

\* Versions and revisions stay numbers when they are counted up.
LEMMA NextVersionType ==
    ASSUME TypeOK
    PROVE  doc.version + 1 \in Nat \ {0} /\ fields.rev + 1 \in Nat
<1>1. doc.version \in Nat /\ fields.rev \in Nat
  BY DEF TypeOK, ArchiveDocument, FieldValues
<1> QED
  BY <1>1

LEMMA FreshDraftType ==
    ASSUME TypeOK, OpenFreshDraft
    PROVE  doc' \in ArchiveDocument /\ fields' \in FieldValues
<1>1. FreshDocument \in ArchiveDocument
  BY NextVersionType DEF TypeOK, FreshDocument, ArchiveDocument, Status
<1>2. FreshFields \in FieldValues
  BY NextVersionType DEF TypeOK, FreshFields, FieldValues
<1> QED
  BY <1>1, <1>2 DEF OpenFreshDraft

LEMMA TypeEdit ==
    ASSUME TypeOK, NEW w \in Worker, EditField(w)
    PROVE  TypeOK'
<1> USE DEF TypeOK, EditField
<1>1. task[w].st \in Status
  BY DEF Task
<1>2. StatusAfterEdit(task[w].st) \in Status
  BY <1>1 DEF StatusAfterEdit, Status
<1>3. doc' \in ArchiveDocument
  BY <1>2, NextVersionType DEF EditedDocument, ArchiveDocument
<1>4. fields' \in FieldValues
  BY NextVersionType DEF EditedFields, FieldValues
<1>5. task' \in [Worker -> Task]
  BY FinishType
<1> QED
  BY <1>3, <1>4, <1>5 DEF RowAndFieldsOnly, stores, bounds, observers

LEMMA TypeDraft ==
    ASSUME TypeOK, NEW w \in Worker,
           DraftRequest(w) \/ LeaveDraft(w) \/ DraftStep(w)
    PROVE  TypeOK'
<1> USE DEF TypeOK, rows, stores, bounds, observers, BusyPc, SuggestPc,
            ReadsOnly, RowAndFieldsOnly
<1>1. CASE ReadDraftRow(w)
  <2>1. [Idle EXCEPT !.pc = "reading", !.ver = doc.version] \in Task
    BY IdleType DEF Task, ArchiveDocument
  <2> QED
    BY <1>1, <2>1, BecomeType DEF ReadDraftRow, Accept
<1>2. CASE ReadDraftFields(w)
  <2>0. task[w] \in Task /\ fields.rev \in Nat
    BY DEF FieldValues
  <2>1. [task[w] EXCEPT !.pc = "drafted", !.rev = fields.rev] \in Task
    BY <2>0 DEF Task
  <2> QED
    BY <1>2, <2>1, BecomeType, FinishType DEF ReadDraftFields
<1>3. CASE LeaveDraft(w)
  BY <1>3, FinishType DEF LeaveDraft
<1>4. CASE BeginEdit(w)
  <2>0. task[w] \in Task /\ doc.status \in Status
    BY DEF ArchiveDocument
  <2>1. [task[w] EXCEPT !.pc = "editing", !.st = doc.status] \in Task
    BY <2>0 DEF Task
  <2> QED
    BY <1>4, <2>1, BecomeType DEF BeginEdit
<1>5. CASE EditField(w)
  BY <1>5, TypeEdit
<1>6. CASE EditConflict(w)
  BY <1>6, FinishType DEF EditConflict
<1>7. CASE CreateManualDraft(w)
  BY <1>7, FreshDraftType DEF CreateManualDraft, Accept
<1>8. CASE StartSuggestion(w)
  <2>1. [Idle EXCEPT !.pc = "suggesting"] \in Task
    BY IdleType DEF Task
  <2> QED
    BY <1>8, <2>1, BecomeType DEF StartSuggestion, Accept
<1>9. CASE PersistSuggestion(w)
  BY <1>9, FreshDraftType, FinishType DEF PersistSuggestion
<1>10. CASE SuggestionNotSaved(w)
  BY <1>10, FinishType DEF SuggestionNotSaved
<1>11. CASE SuggestionFails(w)
  BY <1>11, GotoType DEF SuggestionFails
<1>12. CASE RecordSuggestionFailure(w)
  BY <1>12, FinishType DEF RecordSuggestionFailure, ArchiveDocument, Status
<1>13. CASE BeginRegenerate(w)
  BY <1>13, GotoType DEF BeginRegenerate
<1>14. CASE CommitRegenerate(w)
  BY <1>14, FreshDraftType, FinishType DEF CommitRegenerate
<1>15. CASE GiveUpRegenerate(w)
  BY <1>15, FinishType DEF GiveUpRegenerate
<1> QED
  BY <1>1, <1>2, <1>3, <1>4, <1>5, <1>6, <1>7, <1>8, <1>9, <1>10, <1>11,
     <1>12, <1>13, <1>14, <1>15 DEF DraftRequest, DraftStep

LEMMA OpenIndexType ==
    ASSUME TypeOK, NEW w \in Worker, OpenIndex(w)
    PROVE  indexOps' \in Seq(OperationStatus) /\ task' \in [Worker -> Task]
<1>0. Len(indexOps) + 1 \in Nat
  BY DEF TypeOK
<1>1. [Idle EXCEPT !.pc = "building", !.op = Len(indexOps) + 1] \in Task
  BY <1>0, IdleType DEF TypeOK, Task, BusyPc, IndexPc
<1> QED
  BY <1>1, BecomeType DEF TypeOK, OpenIndex, OperationStatus

LEMMA ResolvedType ==
    ASSUME TypeOK, NEW op, NEW outcome \in OperationStatus
    PROVE  /\ Resolved(op, outcome) \in Seq(OperationStatus)
           /\ DOMAIN Resolved(op, outcome) = DOMAIN indexOps
BY DEF TypeOK, Resolved

LEMMA TypeFormal ==
    ASSUME TypeOK, NEW w \in Worker, FormalRequest(w) \/ FormalStep(w)
    PROVE  TypeOK'
<1> USE DEF TypeOK, rows, stores, bounds, observers, BusyPc, IndexPc
<1>1. CASE Confirm(w)
  <2>1. [Idle EXCEPT !.pc = "confirmed"] \in Task
    BY IdleType DEF Task
  <2>2. doc' \in ArchiveDocument
    BY <1>1, NextVersionType DEF Confirm, ConfirmedDocument, ArchiveDocument, Status
  <2>3. signed' \in Nat
    BY <1>1 DEF Confirm, Task
  <2> QED
    BY <1>1, <2>1, <2>2, <2>3, BecomeType DEF Confirm
<1>2. CASE ReplayConfirm(w)
  BY <1>2, OpenIndexType DEF ReplayConfirm
<1>3. CASE Cancel(w)
  <2>1. [Idle EXCEPT !.pc = "cleaning"] \in Task
    BY IdleType DEF Task
  <2>2. doc' \in ArchiveDocument
    BY <1>3, NextVersionType DEF Cancel, CancelledDocument, ArchiveDocument, Status
  <2> QED
    BY <1>3, <2>1, <2>2, BecomeType DEF Cancel
<1>4. CASE ReloadConfirmed(w)
  <2>1. [Idle EXCEPT !.pc = "reloaded", !.st = doc.status,
                     !.hash = doc.hash, !.chunks = doc.chunks] \in Task
    BY IdleType DEF Task, ArchiveDocument
  <2> QED
    BY <1>4, <2>1, BecomeType, FinishType DEF ReloadConfirmed
<1>5. CASE StartIndex(w)
  BY <1>5, OpenIndexType, FinishType DEF StartIndex
<1>6. CASE BuildChunks(w)
  <2>0. task[w] \in Task /\ fields.rev \in Nat
    BY DEF FieldValues
  <2>1. [task[w] EXCEPT !.pc = "upserting", !.rev = fields.rev] \in Task
    BY <2>0 DEF Task
  <2> QED
    BY <1>6, <2>1, BecomeType DEF BuildChunks
<1>7. CASE UpsertChunks(w)
  BY <1>7, GotoType DEF UpsertChunks, Task
<1>8. CASE FinishIndex(w)
  <2>1. doc' \in ArchiveDocument
    BY <1>8 DEF FinishIndex, IndexedDocument, ArchiveDocument
  <2>2. indexOps' \in Seq(OperationStatus)
    BY <1>8, ResolvedType DEF FinishIndex, OperationStatus
  <2> QED
    BY <1>8, <2>1, <2>2, FinishType DEF FinishIndex
<1>9. CASE IndexFails(w)
  <2>1. vectors' \in SUBSET Nat
    BY <1>9 DEF IndexFails, Task
  <2> QED
    BY <1>9, <2>1, GotoType DEF IndexFails
<1>10. CASE MarkIndexFailed(w)
  <2>1. indexOps' \in Seq(OperationStatus)
    BY <1>10, ResolvedType DEF MarkIndexFailed, AfterIndexFailure, OperationStatus
  <2> QED
    BY <1>10, <2>1, FinishType DEF MarkIndexFailed
<1>11. CASE CleanUpVectors(w)
  BY <1>11, FinishType DEF CleanUpVectors
<1>12. CASE CleanUpFails(w)
  BY <1>12, FinishType DEF CleanUpFails
<1> QED
  BY <1>1, <1>2, <1>3, <1>4, <1>5, <1>6, <1>7, <1>8, <1>9, <1>10, <1>11,
     <1>12 DEF FormalRequest, FormalStep

LEMMA TypeDelete ==
    ASSUME TypeOK, NEW w \in Worker, DeleteRequest(w) \/ DeleteStep(w)
    PROVE  TypeOK'
<1> USE DEF TypeOK, rows, stores, bounds, observers, BusyPc, DeletePc
<1>1. CASE StartDelete(w)
  <2>1. [Idle EXCEPT !.pc = "clearing"] \in Task
    BY IdleType DEF Task
  <2> QED
    BY <1>1, <2>1, BecomeType DEF StartDelete, Accept
<1>2. CASE RefuseDelete(w)
  BY <1>2 DEF RefuseDelete, Accept
<1>3. CASE ClearVectors(w)
  BY <1>3, GotoType DEF ClearVectors
<1>4. CASE RemoveFiles(w)
  BY <1>4, GotoType DEF RemoveFiles, RemainingFiles, Files, ArchiveDocument
<1>5. CASE RemoveRows(w)
  <2>1. doc' \in ArchiveDocument /\ fields' \in FieldValues
    BY <1>5 DEF RemoveRows, RemovedDocument, ArchiveDocument, FieldValues, Status
  <2> QED
    BY <1>5, <2>1, FinishType DEF RemoveRows
<1>6. CASE DeleteFails(w)
  <2>1. /\ RemainingFiles \in Files
        /\ [files EXCEPT !.original = FALSE] \in Files
    BY DEF RemainingFiles, Files, ArchiveDocument
  <2>2. vectors' \in SUBSET Nat
    BY <1>6 DEF DeleteFails
  <2> QED
    BY <1>6, <2>1, <2>2, GotoType DEF DeleteFails
<1>7. CASE MarkDeleteFailed(w)
  BY <1>7, FinishType DEF MarkDeleteFailed, AfterDeleteFailure
<1> QED
  BY <1>1, <1>2, <1>3, <1>4, <1>5, <1>6, <1>7 DEF DeleteRequest, DeleteStep

LEMMA TypeFault ==
    ASSUME TypeOK, Crash \/ \E w \in Worker : LoseBookkeeping(w)
    PROVE  TypeOK'
<1> USE DEF TypeOK, rows, stores, observers
<1>1. CASE Crash
  BY <1>1, IdleType DEF Crash
<1>2. ASSUME NEW w \in Worker, LoseBookkeeping(w)
      PROVE  TypeOK'
  BY <1>2, FinishType DEF LoseBookkeeping
<1> QED
  BY <1>1, <1>2

\* Every variable stays in its domain, for every instance.
THEOREM TypeCorrect == Spec => []TypeOK
<1>1. TypeOK /\ [Next]_vars => TypeOK'
  <2> SUFFICES ASSUME TypeOK, [Next]_vars PROVE TypeOK'
    OBVIOUS
  <2>1. CASE UNCHANGED vars
    BY <2>1 DEF TypeOK, vars, rows, stores, bounds, observers
  <2>2. ASSUME NEW w \in Worker, Request(w) \/ Step(w) PROVE TypeOK'
    BY <2>2, TypeParse, TypeDraft, TypeFormal, TypeDelete DEF Request, Step
  <2> QED
    BY <2>1, <2>2, TypeFault DEF Next
<1> QED
  BY <1>1, TypeInit, PTL DEF Spec

-----------------------------------------------------------------------------
(***************************************************************************)
(* The optimistic version.  Any change of the field values is committed     *)
(* together with a new version, versions only grow, and a reader takes the  *)
(* version before the values; so whoever holds the current version holds    *)
(* the current values.                                                      *)
(***************************************************************************)
SeenPc == {"drafted", "editing", "regenerating"}

SeenInv ==
    \A w \in Worker :
        /\ task[w].pc \in SeenPc \cup {"reading"} => task[w].ver <= doc.version
        /\ task[w].pc \in SeenPc /\ doc.present /\ task[w].ver = doc.version
              => fields.exists /\ task[w].rev = fields.rev

\* What a step does to the version and the values it guards.
VersionGuards ==
    /\ doc'.version >= doc.version
    /\ doc'.present => doc.present
    /\ doc'.present /\ doc'.version = doc.version
          => fields'.exists = fields.exists /\ fields'.rev = fields.rev

\* What a step of w does to the draft its client holds.
DraftKept(w) ==
    task'[w].pc \in SeenPc \cup {"reading"}
        => \/ /\ task[w].pc \in SeenPc \cup {"reading"}
              /\ task'[w].pc \in SeenPc => task[w].pc \in SeenPc
              /\ task'[w].ver = task[w].ver /\ task'[w].rev = task[w].rev
           \/ /\ doc' = doc /\ fields' = fields
              /\ \/ task'[w].pc = "reading" /\ task'[w].ver = doc.version
                 \/ /\ task[w].pc = "reading" /\ task'[w].ver = task[w].ver
                    /\ fields.exists /\ task'[w].rev = fields.rev

LEMMA VersionFacts ==
    ASSUME TypeOK
    PROVE  /\ doc.version \in Nat /\ fields.rev \in Nat
           /\ doc.version + 1 > doc.version /\ doc.version >= doc.version
           /\ doc.version + 1 # doc.version
           /\ FreshDocument.version = doc.version + 1
           /\ FreshDocument.present = doc.present
<1>1. doc.version \in Nat /\ fields.rev \in Nat
  BY DEF TypeOK, ArchiveDocument, FieldValues
<1> QED
  BY <1>1 DEF TypeOK, FreshDocument, ArchiveDocument

\* A step that ends or redirects a handler drops the draft it held.
LEMMA DraftReplaced ==
    ASSUME TypeOK, NEW w \in Worker, NEW r \in Task,
           r.pc \notin SeenPc \cup {"reading"}, Become(w, r)
    PROVE  /\ DraftKept(w)
           /\ \A v \in Worker \ {w} : task'[v] = task[v]
BY BecomeType DEF TypeOK, DraftKept

LEMMA DraftDropped ==
    ASSUME TypeOK, NEW w \in Worker, Finish(w)
    PROVE  /\ DraftKept(w)
           /\ \A v \in Worker \ {w} : task'[v] = task[v]
BY DraftReplaced, IdleType DEF Finish, Idle, SeenPc

\* pc is the next program counter of a handler that is no reader.
LEMMA DraftMoved ==
    ASSUME TypeOK, NEW w \in Worker,
           NEW pc \in BusyPc \ {"reading", "editing", "regenerating"}, Goto(w, pc)
    PROVE  /\ DraftKept(w)
           /\ \A v \in Worker \ {w} : task'[v] = task[v]
<1>1. pc \notin SeenPc \cup {"reading"}
  BY DEF SeenPc, BusyPc, ParsePc, SuggestPc, IndexPc, DeletePc
<1> QED
  BY <1>1 DEF TypeOK, Goto, DraftKept, Task

LEMMA NonReaders ==
    /\ ParsePc \subseteq BusyPc \ {"reading", "editing", "regenerating"}
    /\ IndexPc \subseteq BusyPc \ {"reading", "editing", "regenerating"}
    /\ DeletePc \subseteq BusyPc \ {"reading", "editing", "regenerating"}
    /\ {"suggest_failed", "cleaning"} \subseteq BusyPc \ {"reading", "editing", "regenerating"}
BY DEF BusyPc, ParsePc, SuggestPc, IndexPc, DeletePc

\* A step that leaves the row and the values alone keeps them guarded.
LEMMA RowsKept ==
    ASSUME TypeOK, doc' = doc, fields' = fields
    PROVE  VersionGuards
BY VersionFacts DEF VersionGuards

\* So does one that changes other columns only, or counts the version up.
LEMMA RowChanged ==
    ASSUME TypeOK,
           \/ /\ fields' = fields
              /\ doc'.version = doc.version \/ doc'.version = doc.version + 1
           \/ doc'.version = doc.version + 1
           \/ ~doc'.present /\ doc'.version = doc.version,
           doc'.present => doc.present
    PROVE  VersionGuards
BY VersionFacts DEF VersionGuards

LEMMA SeenParse ==
    ASSUME TypeOK, NEW w \in Worker, BeginParse(w) \/ ParseStep(w)
    PROVE  /\ VersionGuards /\ DraftKept(w)
           /\ \A v \in Worker \ {w} : task'[v] = task[v]
<1> USE DraftDropped, DraftMoved, NonReaders, RowsKept DEF rows, ParsePc
<1>1. CASE BeginParse(w)
  <2> DEFINE r == [Idle EXCEPT !.pc = "parsing", !.st = doc.status]
  <2>1. r \in Task /\ r.pc \notin SeenPc \cup {"reading"}
    BY IdleType DEF TypeOK, Idle, Task, ArchiveDocument, BusyPc, SeenPc
  <2>2. Become(w, r) /\ doc' = doc /\ fields' = fields
    BY <1>1 DEF BeginParse
  <2> HIDE DEF r
  <2> QED
    BY <2>1, <2>2, DraftReplaced
<1>2. CASE ParseFile(w)
  BY <1>2 DEF ParseFile
<1>3. CASE ParseFails(w)
  <2>1. doc'.version = doc.version /\ doc'.present = doc.present
    BY <1>3 DEF ParseFails, TypeOK, ArchiveDocument
  <2> QED
    BY <1>3, <2>1, RowChanged DEF ParseFails
<1>4. CASE WriteSnapshotFile(w)
  BY <1>4 DEF WriteSnapshotFile
<1>5. CASE CommitSnapshot(w)
  <2>1. doc'.version = doc.version /\ doc'.present = doc.present
    BY <1>5 DEF CommitSnapshot, TypeOK, ArchiveDocument
  <2> QED
    BY <1>5, <2>1, RowChanged DEF CommitSnapshot
<1>6. CASE RollBackSnapshot(w)
  BY <1>6 DEF RollBackSnapshot
<1>7. CASE UnlinkSnapshotFile(w)
  BY <1>7 DEF UnlinkSnapshotFile
<1> QED
  BY <1>1, <1>2, <1>3, <1>4, <1>5, <1>6, <1>7 DEF ParseStep

LEMMA SeenDraft ==
    ASSUME TypeOK, NEW w \in Worker,
           DraftRequest(w) \/ LeaveDraft(w) \/ DraftStep(w)
    PROVE  /\ VersionGuards /\ DraftKept(w)
           /\ \A v \in Worker \ {w} : task'[v] = task[v]
<1> USE DraftDropped, DraftMoved, NonReaders, RowsKept
    DEF rows, ReadsOnly, RowAndFieldsOnly
<1>1. CASE ReadDraftRow(w)
  <2> DEFINE r == [Idle EXCEPT !.pc = "reading", !.ver = doc.version]
  <2>1. r \in Task /\ r.pc = "reading" /\ r.ver = doc.version
    BY IdleType DEF TypeOK, Idle, Task, ArchiveDocument, BusyPc
  <2>2. Become(w, r) /\ doc' = doc /\ fields' = fields
    BY <1>1 DEF ReadDraftRow
  <2> HIDE DEF r
  <2> QED
    BY <2>1, <2>2, BecomeType DEF TypeOK, DraftKept, SeenPc
<1>2. CASE ReadDraftFields(w)
  <2> DEFINE r == [task[w] EXCEPT !.pc = "drafted", !.rev = fields.rev]
  <2>0. task[w] \in Task /\ fields.rev \in Nat
    BY DEF TypeOK, FieldValues
  <2>1. /\ r \in Task /\ r.pc = "drafted"
        /\ r.ver = task[w].ver /\ r.rev = fields.rev
    BY <2>0 DEF Task
  <2>2. /\ task[w].pc = "reading" /\ doc' = doc /\ fields' = fields
        /\ (fields.exists /\ Become(w, r)) \/ Finish(w)
    BY <1>2 DEF ReadDraftFields
  <2> HIDE DEF r
  <2> QED
    BY <2>1, <2>2, BecomeType DEF TypeOK, DraftKept, SeenPc
<1>3. CASE LeaveDraft(w)
  BY <1>3 DEF LeaveDraft
<1>4. CASE BeginEdit(w)
  <2> DEFINE r == [task[w] EXCEPT !.pc = "editing", !.st = doc.status]
  <2>0. task[w] \in Task /\ doc.status \in Status /\ "editing" \in BusyPc
    BY DEF TypeOK, ArchiveDocument, BusyPc
  <2>1. /\ r \in Task /\ r.pc = "editing"
        /\ r.ver = task[w].ver /\ r.rev = task[w].rev
    BY <2>0 DEF Task
  <2>2. task[w].pc = "drafted" /\ doc' = doc /\ fields' = fields /\ Become(w, r)
    BY <1>4 DEF BeginEdit
  <2> HIDE DEF r
  <2> QED
    BY <2>1, <2>2, BecomeType DEF TypeOK, DraftKept, SeenPc
<1>5. CASE EditField(w)
  <2>1. doc'.version = doc.version + 1 /\ doc'.present = doc.present
    BY <1>5 DEF EditField, EditedDocument, TypeOK, ArchiveDocument
  <2> QED
    BY <1>5, <2>1, RowChanged DEF EditField
<1>6. CASE EditConflict(w)
  BY <1>6 DEF EditConflict
<1>7. CASE CreateManualDraft(w)
  <2>1. doc'.version = doc.version + 1 /\ doc'.present = doc.present
    BY <1>7, VersionFacts DEF CreateManualDraft, OpenFreshDraft
  <2> QED
    BY <1>7, <2>1, RowChanged DEF CreateManualDraft, DraftKept
<1>8. CASE StartSuggestion(w)
  <2> DEFINE r == [Idle EXCEPT !.pc = "suggesting"]
  <2>1. r \in Task /\ r.pc \notin SeenPc \cup {"reading"}
    BY IdleType DEF TypeOK, Idle, Task, ArchiveDocument, BusyPc, SeenPc, SuggestPc
  <2>2. Become(w, r) /\ doc' = doc /\ fields' = fields
    BY <1>8 DEF StartSuggestion
  <2> HIDE DEF r
  <2> QED
    BY <2>1, <2>2, DraftReplaced
<1>9. CASE PersistSuggestion(w)
  <2>1. doc'.version = doc.version + 1 /\ doc'.present = doc.present
    BY <1>9, VersionFacts DEF PersistSuggestion, OpenFreshDraft, TypeOK, ArchiveDocument
  <2> QED
    BY <1>9, <2>1, RowChanged DEF PersistSuggestion
<1>10. CASE SuggestionNotSaved(w)
  BY <1>10 DEF SuggestionNotSaved
<1>11. CASE SuggestionFails(w)
  BY <1>11 DEF SuggestionFails
<1>12. CASE RecordSuggestionFailure(w)
  <2>1. doc'.version = doc.version /\ doc'.present = doc.present
    BY <1>12 DEF RecordSuggestionFailure, TypeOK, ArchiveDocument
  <2> QED
    BY <1>12, <2>1, RowChanged DEF RecordSuggestionFailure
<1>13. CASE BeginRegenerate(w)
  BY <1>13 DEF BeginRegenerate, Goto, TypeOK, Task, DraftKept, SeenPc
<1>14. CASE CommitRegenerate(w)
  <2>1. doc'.version = doc.version + 1 /\ doc'.present = doc.present
    BY <1>14, VersionFacts DEF CommitRegenerate, OpenFreshDraft, TypeOK, ArchiveDocument
  <2> QED
    BY <1>14, <2>1, RowChanged DEF CommitRegenerate
<1>15. CASE GiveUpRegenerate(w)
  BY <1>15 DEF GiveUpRegenerate
<1> QED
  BY <1>1, <1>2, <1>3, <1>4, <1>5, <1>6, <1>7, <1>8, <1>9, <1>10, <1>11,
     <1>12, <1>13, <1>14, <1>15 DEF DraftRequest, DraftStep

LEMMA SeenFormal ==
    ASSUME TypeOK, NEW w \in Worker, FormalRequest(w) \/ FormalStep(w)
    PROVE  /\ VersionGuards /\ DraftKept(w)
           /\ \A v \in Worker \ {w} : task'[v] = task[v]
<1> USE DraftDropped, DraftMoved, NonReaders, RowsKept DEF rows, IndexPc
<1>0. ASSUME OpenIndex(w)
      PROVE  DraftKept(w) /\ \A v \in Worker \ {w} : task'[v] = task[v]
  <2> DEFINE r == [Idle EXCEPT !.pc = "building", !.op = Len(indexOps) + 1]
  <2>1. Len(indexOps) + 1 \in Nat
    BY DEF TypeOK
  <2>2. r \in Task /\ r.pc \notin SeenPc \cup {"reading"}
    BY <2>1, IdleType DEF Idle, Task, BusyPc, SeenPc
  <2>3. Become(w, r)
    BY <1>0 DEF OpenIndex
  <2> HIDE DEF r
  <2> QED
    BY <2>2, <2>3, DraftReplaced
<1>1. CASE Confirm(w)
  <2> DEFINE r == [Idle EXCEPT !.pc = "confirmed"]
  <2>1. r \in Task /\ r.pc \notin SeenPc \cup {"reading"}
    BY IdleType DEF Idle, Task, BusyPc, SeenPc
  <2>2. doc'.version = doc.version + 1 /\ doc'.present = doc.present
    BY <1>1 DEF Confirm, ConfirmedDocument, TypeOK, ArchiveDocument
  <2>3. Become(w, r) /\ fields' = fields
    BY <1>1 DEF Confirm
  <2> HIDE DEF r
  <2> QED
    BY <2>1, <2>2, <2>3, DraftReplaced, RowChanged
<1>2. CASE ReplayConfirm(w)
  BY <1>0, <1>2 DEF ReplayConfirm
<1>3. CASE Cancel(w)
  <2> DEFINE r == [Idle EXCEPT !.pc = "cleaning"]
  <2>1. r \in Task /\ r.pc \notin SeenPc \cup {"reading"}
    BY IdleType DEF Idle, Task, BusyPc, SeenPc
  <2>2. doc'.version = doc.version + 1 /\ doc'.present = doc.present
    BY <1>3 DEF Cancel, CancelledDocument, TypeOK, ArchiveDocument
  <2>3. Become(w, r) /\ fields' = fields
    BY <1>3 DEF Cancel
  <2> HIDE DEF r
  <2> QED
    BY <2>1, <2>2, <2>3, DraftReplaced, RowChanged
<1>4. CASE ReloadConfirmed(w)
  <2> DEFINE r == [Idle EXCEPT !.pc = "reloaded", !.st = doc.status,
                              !.hash = doc.hash, !.chunks = doc.chunks]
  <2>1. r \in Task /\ r.pc \notin SeenPc \cup {"reading"}
    BY IdleType DEF TypeOK, Idle, Task, ArchiveDocument, BusyPc, SeenPc
  <2>2. (Become(w, r) \/ Finish(w)) /\ doc' = doc /\ fields' = fields
    BY <1>4 DEF ReloadConfirmed
  <2> HIDE DEF r
  <2> QED
    BY <2>1, <2>2, DraftReplaced
<1>5. CASE StartIndex(w)
  BY <1>0, <1>5 DEF StartIndex
<1>6. CASE BuildChunks(w)
  <2> DEFINE r == [task[w] EXCEPT !.pc = "upserting", !.rev = fields.rev]
  <2>0. task[w] \in Task /\ fields.rev \in Nat /\ "upserting" \in BusyPc
    BY DEF TypeOK, FieldValues, BusyPc
  <2>1. r \in Task /\ r.pc \notin SeenPc \cup {"reading"}
    BY <2>0 DEF Task, SeenPc
  <2>2. Become(w, r) /\ doc' = doc /\ fields' = fields
    BY <1>6 DEF BuildChunks
  <2> HIDE DEF r
  <2> QED
    BY <2>1, <2>2, DraftReplaced
<1>7. CASE UpsertChunks(w)
  BY <1>7 DEF UpsertChunks
<1>8. CASE FinishIndex(w)
  <2>1. doc'.version = doc.version /\ doc'.present = doc.present
    BY <1>8 DEF FinishIndex, IndexedDocument, TypeOK, ArchiveDocument
  <2> QED
    BY <1>8, <2>1, RowChanged DEF FinishIndex
<1>9. CASE IndexFails(w)
  BY <1>9 DEF IndexFails
<1>10. CASE MarkIndexFailed(w)
  BY <1>10 DEF MarkIndexFailed
<1>11. CASE CleanUpVectors(w)
  BY <1>11 DEF CleanUpVectors
<1>12. CASE CleanUpFails(w)
  BY <1>12 DEF CleanUpFails
<1> QED
  BY <1>1, <1>2, <1>3, <1>4, <1>5, <1>6, <1>7, <1>8, <1>9, <1>10, <1>11,
     <1>12 DEF FormalRequest, FormalStep

LEMMA SeenDelete ==
    ASSUME TypeOK, NEW w \in Worker,
           DeleteRequest(w) \/ DeleteStep(w) \/ LoseBookkeeping(w)
    PROVE  /\ VersionGuards /\ DraftKept(w)
           /\ \A v \in Worker \ {w} : task'[v] = task[v]
<1> USE DraftDropped, DraftMoved, NonReaders, RowsKept DEF rows, DeletePc
<1>1. CASE StartDelete(w)
  <2> DEFINE r == [Idle EXCEPT !.pc = "clearing"]
  <2>1. r \in Task /\ r.pc \notin SeenPc \cup {"reading"}
    BY IdleType DEF TypeOK, Idle, Task, ArchiveDocument, BusyPc, SeenPc
  <2>2. Become(w, r) /\ doc' = doc /\ fields' = fields
    BY <1>1 DEF StartDelete
  <2> HIDE DEF r
  <2> QED
    BY <2>1, <2>2, DraftReplaced
<1>2. CASE RefuseDelete(w)
  BY <1>2 DEF RefuseDelete, DraftKept
<1>3. CASE ClearVectors(w)
  BY <1>3 DEF ClearVectors
<1>4. CASE RemoveFiles(w)
  BY <1>4 DEF RemoveFiles
<1>5. CASE RemoveRows(w)
  <2>1. doc'.version = doc.version /\ ~doc'.present
    BY <1>5 DEF RemoveRows, RemovedDocument, TypeOK, ArchiveDocument
  <2> QED
    BY <1>5, <2>1, RowChanged DEF RemoveRows
<1>6. CASE DeleteFails(w)
  BY <1>6 DEF DeleteFails
<1>7. CASE MarkDeleteFailed(w)
  BY <1>7 DEF MarkDeleteFailed
<1>8. CASE LoseBookkeeping(w)
  BY <1>8 DEF LoseBookkeeping
<1> QED
  BY <1>1, <1>2, <1>3, <1>4, <1>5, <1>6, <1>7, <1>8 DEF DeleteRequest, DeleteStep

LEMMA SeenNext ==
    ASSUME TypeOK, TypeOK', SeenInv, [Next]_vars
    PROVE  SeenInv'
<1>1. CASE UNCHANGED vars
  BY <1>1 DEF SeenInv, vars, rows, stores, bounds, observers
<1>2. ASSUME NEW w \in Worker, Request(w) \/ Step(w) \/ LoseBookkeeping(w)
      PROVE  SeenInv'
  <2>1. /\ VersionGuards /\ DraftKept(w)
        /\ \A v \in Worker \ {w} : task'[v] = task[v]
    BY <1>2, SeenParse, SeenDraft, SeenFormal, SeenDelete DEF Request, Step
  <2>2. /\ doc.version \in Nat /\ doc'.version \in Nat
        /\ \A v \in Worker : task[v].ver \in Nat /\ task'[v].ver \in Nat
    BY DEF TypeOK, ArchiveDocument, Task
  <2> SUFFICES ASSUME NEW v \in Worker
               PROVE  SeenInv!(v)'
    BY DEF SeenInv
  <2>3. SeenInv!(v)
    BY DEF SeenInv
  <2>4. CASE v # w
    BY <2>1, <2>2, <2>3, <2>4 DEF VersionGuards
  <2>5. CASE v = w
    BY <2>1, <2>2, <2>3, <2>5 DEF VersionGuards, DraftKept, SeenPc
  <2> QED
    BY <2>4, <2>5
<1>3. CASE Crash
  BY <1>3 DEF Crash, SeenInv, SeenPc, Idle, rows
<1> QED
  BY <1>1, <1>2, <1>3 DEF Next

LEMMA SeenInit == Init => SeenInv
<1> SUFFICES ASSUME Init, NEW w \in Worker
             PROVE  task[w].pc \notin SeenPc \cup {"reading"}
  BY DEF SeenInv
<1> QED
  BY DEF Init, SeenPc, Idle

\* Whoever holds the current version of a draft holds its current values.
THEOREM SeenCorrect == Spec => []SeenIsCurrent
<1>1. SeenInv => SeenIsCurrent
  BY DEF SeenInv, SeenIsCurrent, SeenPc
<1> QED
  BY <1>1, SeenInit, SeenNext, TypeCorrect, PTL DEF Spec

-----------------------------------------------------------------------------
(***************************************************************************)
(* What is formal is what was signed.  Only Confirm makes a document        *)
(* CONFIRMED, and every step that changes the values leaves CONFIRMED: an   *)
(* edit because the status it has read is one that may be edited.           *)
(***************************************************************************)
SignedInv ==
    /\ ConfirmedAsSigned
    /\ \A w \in Worker :
          task[w].pc = "editing" => task[w].st \in EditableStatus \cup {"CONFIRMED"}

\* A step of w that is not a confirmation leaves formal content as it was.
FormalKept ==
    doc'.present /\ doc'.status = "CONFIRMED"
        => /\ doc.present /\ doc.status = "CONFIRMED"
           /\ fields' = fields /\ signed' = signed

\* No step but BeginEdit puts a worker into an edit.
EditKept(w) ==
    task'[w].pc = "editing"
        => \/ task'[w].st = task[w].st /\ task[w].pc = "editing"
           \/ task'[w].st \in EditableStatus \cup {"CONFIRMED"}

\* w is not, after its step, a handler that owns an operation row.
Quiet(w) ==
    /\ task'[w].pc \notin IndexPc \cup DeletePc
    /\ \A v \in Worker \ {w} : task'[v] = task[v]

\* A step of w outside the index and delete handlers: it may empty the
\* vectors, as a cancellation's cleanup does, and nothing else they rely on.
Outside(w) ==
    /\ Quiet(w)
    /\ indexOps' = indexOps /\ deleteOp' = deleteOp
    /\ vectors' \in {vectors, {}}
    /\ files'.original = files.original
    /\ doc'.present = doc.present

QuietStart == {"parsing", "reading", "drafted", "suggesting", "confirmed",
               "reloaded", "cleaning"}

LEMMA QuietTask ==
    ASSUME TypeOK, NEW w \in Worker,
           \/ Finish(w)
           \/ \E pc \in ParsePc \cup {"suggest_failed", "regenerating"} : Goto(w, pc)
           \/ \E r \in Task : r.pc \in QuietStart /\ Become(w, r)
           \/ UNCHANGED task /\ task[w].pc = "idle"
    PROVE  EditKept(w) /\ Quiet(w)
<1> USE DEF EditKept, Quiet, IndexPc, DeletePc
<1>1. CASE Finish(w)
  BY <1>1, FinishType DEF TypeOK, Idle
<1>2. ASSUME NEW pc \in ParsePc \cup {"suggest_failed", "regenerating"}, Goto(w, pc)
      PROVE  EditKept(w) /\ Quiet(w)
  <2>1. task'[w].pc = pc /\ \A v \in Worker \ {w} : task'[v] = task[v]
    BY <1>2 DEF TypeOK, Goto, Task
  <2> QED
    BY <2>1 DEF ParsePc
<1>3. ASSUME NEW r \in Task, r.pc \in QuietStart, Become(w, r)
      PROVE  EditKept(w) /\ Quiet(w)
  BY <1>3, BecomeType DEF TypeOK, QuietStart
<1>4. CASE UNCHANGED task /\ task[w].pc = "idle"
  BY <1>4
<1> QED
  BY <1>1, <1>2, <1>3, <1>4

LEMMA KeptParse ==
    ASSUME TypeOK, NEW w \in Worker, BeginParse(w) \/ ParseStep(w)
    PROVE  FormalKept /\ EditKept(w) /\ Outside(w)
<1> USE QuietTask DEF rows, stores, observers, ParsePc, Outside, FormalKept
<1>1. CASE BeginParse(w)
  <2> DEFINE r == [Idle EXCEPT !.pc = "parsing", !.st = doc.status]
  <2>1. r \in Task /\ r.pc \in QuietStart
    BY IdleType DEF TypeOK, Idle, Task, ArchiveDocument, BusyPc, SuggestPc, QuietStart
  <2>2. Become(w, r) /\ UNCHANGED <<rows, stores, observers>>
    BY <1>1 DEF BeginParse
  <2> HIDE DEF r
  <2> QED
    BY <2>1, <2>2
<1>2. CASE ParseFile(w)
  BY <1>2 DEF ParseFile
<1>3. CASE ParseFails(w)
  <2>1. /\ doc'.present = doc.present
        /\ doc'.status = "CONFIRMED" => doc.status = "CONFIRMED"
    BY <1>3 DEF ParseFails, StatusAfterParseFailure, TypeOK, ArchiveDocument
  <2> QED
    BY <1>3, <2>1 DEF ParseFails
<1>4. CASE WriteSnapshotFile(w)
  <2>1. files'.original = files.original
    BY <1>4 DEF WriteSnapshotFile, TypeOK, Files
  <2> QED
    BY <1>4, <2>1 DEF WriteSnapshotFile
<1>5. CASE CommitSnapshot(w)
  <2>1. doc'.present = doc.present /\ doc'.status # "CONFIRMED"
    BY <1>5 DEF CommitSnapshot, TypeOK, ArchiveDocument
  <2> QED
    BY <1>5, <2>1 DEF CommitSnapshot
<1>6. CASE RollBackSnapshot(w)
  BY <1>6 DEF RollBackSnapshot
<1>7. CASE UnlinkSnapshotFile(w)
  <2>1. files'.original = files.original
    BY <1>7 DEF UnlinkSnapshotFile, TypeOK, Files
  <2> QED
    BY <1>7, <2>1 DEF UnlinkSnapshotFile
<1> QED
  BY <1>1, <1>2, <1>3, <1>4, <1>5, <1>6, <1>7 DEF ParseStep

LEMMA KeptEdit ==
    ASSUME TypeOK, SignedInv, NEW w \in Worker, EditField(w)
    PROVE  doc'.present = doc.present /\ doc'.status # "CONFIRMED"
<1>1. task[w].st \in EditableStatus \cup {"CONFIRMED"}
  BY DEF SignedInv, EditField
<1>2. StatusAfterEdit(task[w].st) # "CONFIRMED"
  BY <1>1 DEF StatusAfterEdit, EditableStatus
<1>3. /\ EditedDocument(w).status = StatusAfterEdit(task[w].st)
      /\ EditedDocument(w).present = doc.present
  BY DEF EditedDocument, TypeOK, ArchiveDocument
<1> QED
  BY <1>2, <1>3 DEF EditField

LEMMA KeptDraft ==
    ASSUME TypeOK, SignedInv, NEW w \in Worker,
           DraftRequest(w) \/ LeaveDraft(w) \/ DraftStep(w)
    PROVE  FormalKept /\ EditKept(w) /\ Outside(w)
<1> USE QuietTask DEF rows, stores, observers, Outside, FormalKept, ReadsOnly,
        RowAndFieldsOnly
<1>0. FreshDocument.present = doc.present /\ FreshDocument.status # "CONFIRMED"
  BY DEF FreshDocument, TypeOK, ArchiveDocument
<1>1. CASE ReadDraftRow(w)
  <2> DEFINE r == [Idle EXCEPT !.pc = "reading", !.ver = doc.version]
  <2>1. r \in Task /\ r.pc \in QuietStart
    BY IdleType DEF TypeOK, Idle, Task, ArchiveDocument, BusyPc, SuggestPc, QuietStart
  <2>2. Become(w, r) /\ UNCHANGED <<rows, stores, observers>>
    BY <1>1 DEF ReadDraftRow
  <2> HIDE DEF r
  <2> QED
    BY <2>1, <2>2
<1>2. CASE ReadDraftFields(w)
  <2> DEFINE r == [task[w] EXCEPT !.pc = "drafted", !.rev = fields.rev]
  <2>0. task[w] \in Task /\ fields.rev \in Nat
    BY DEF TypeOK, FieldValues
  <2>1. r \in Task /\ r.pc \in QuietStart
    BY <2>0 DEF Task, QuietStart
  <2>2. (Become(w, r) \/ Finish(w)) /\ UNCHANGED <<rows, stores, observers>>
    BY <1>2 DEF ReadDraftFields
  <2> HIDE DEF r
  <2> QED
    BY <2>1, <2>2
<1>3. CASE LeaveDraft(w)
  BY <1>3 DEF LeaveDraft
<1>4. CASE BeginEdit(w)
  <2> DEFINE r == [task[w] EXCEPT !.pc = "editing", !.st = doc.status]
  <2>0. task[w] \in Task /\ doc.status \in Status /\ "editing" \in BusyPc
    BY DEF TypeOK, ArchiveDocument, BusyPc
  <2>1. r \in Task /\ r.pc = "editing" /\ r.st = doc.status
    BY <2>0 DEF Task
  <2>2. /\ Become(w, r) /\ UNCHANGED <<rows, stores, observers>>
        /\ doc.status \in EditableStatus \cup {"CONFIRMED"}
    BY <1>4 DEF BeginEdit
  <2> HIDE DEF r
  <2>3. EditKept(w) /\ Quiet(w)
    BY <2>1, <2>2, BecomeType DEF TypeOK, EditKept, Quiet, IndexPc, DeletePc
  <2> QED
    BY <2>2, <2>3
<1>5. CASE EditField(w)
  BY <1>5, KeptEdit DEF EditField
<1>6. CASE EditConflict(w)
  BY <1>6 DEF EditConflict
<1>7. CASE CreateManualDraft(w)
  BY <1>0, <1>7 DEF CreateManualDraft, OpenFreshDraft, Accept
<1>8. CASE StartSuggestion(w)
  <2> DEFINE r == [Idle EXCEPT !.pc = "suggesting"]
  <2>1. r \in Task /\ r.pc \in QuietStart
    BY IdleType DEF TypeOK, Idle, Task, ArchiveDocument, BusyPc, SuggestPc, QuietStart
  <2>2. Become(w, r) /\ UNCHANGED <<rows, stores, observers>>
    BY <1>8 DEF StartSuggestion
  <2> HIDE DEF r
  <2> QED
    BY <2>1, <2>2
<1>9. CASE PersistSuggestion(w)
  BY <1>9, <1>0 DEF PersistSuggestion, OpenFreshDraft
<1>10. CASE SuggestionNotSaved(w)
  BY <1>10 DEF SuggestionNotSaved
<1>11. CASE SuggestionFails(w)
  BY <1>11 DEF SuggestionFails
<1>12. CASE RecordSuggestionFailure(w)
  <2>1. /\ doc'.present = doc.present
        /\ doc'.present => doc'.status # "CONFIRMED"
    BY <1>12 DEF RecordSuggestionFailure, TypeOK, ArchiveDocument
  <2> QED
    BY <1>12, <2>1 DEF RecordSuggestionFailure
<1>13. CASE BeginRegenerate(w)
  BY <1>13 DEF BeginRegenerate
<1>14. CASE CommitRegenerate(w)
  BY <1>14, <1>0 DEF CommitRegenerate, OpenFreshDraft
<1>15. CASE GiveUpRegenerate(w)
  BY <1>15 DEF GiveUpRegenerate
<1> QED
  BY <1>1, <1>2, <1>3, <1>4, <1>5, <1>6, <1>7, <1>8, <1>9, <1>10, <1>11,
     <1>12, <1>13, <1>14, <1>15 DEF DraftRequest, DraftStep

\* The steps of confirmation and cancellation that own no operation.
QuietFormal(w) ==
    \/ Cancel(w) \/ ReloadConfirmed(w) \/ CleanUpVectors(w) \/ CleanUpFails(w)
    \/ StartIndex(w) /\ ~ReloadedRequiresIndex(w)
    \/ LoseBookkeeping(w)

LEMMA KeptFormal ==
    ASSUME TypeOK, NEW w \in Worker, QuietFormal(w)
    PROVE  FormalKept /\ EditKept(w) /\ Outside(w)
<1> USE QuietTask DEF rows, stores, observers, Outside, FormalKept
<1>1. CASE Cancel(w)
  <2> DEFINE r == [Idle EXCEPT !.pc = "cleaning"]
  <2>1. r \in Task /\ r.pc \in QuietStart
    BY IdleType DEF TypeOK, Idle, Task, ArchiveDocument, BusyPc, QuietStart
  <2>2. Become(w, r) /\ UNCHANGED <<indexOps, deleteOp, stores>>
    BY <1>1 DEF Cancel
  <2>3. doc'.present = doc.present /\ doc'.status # "CONFIRMED"
    BY <1>1 DEF Cancel, CancelledDocument, TypeOK, ArchiveDocument
  <2> HIDE DEF r
  <2> QED
    BY <2>1, <2>2, <2>3
<1>2. CASE ReloadConfirmed(w)
  <2> DEFINE r == [Idle EXCEPT !.pc = "reloaded", !.st = doc.status,
                              !.hash = doc.hash, !.chunks = doc.chunks]
  <2>1. r \in Task /\ r.pc \in QuietStart
    BY IdleType DEF TypeOK, Idle, Task, ArchiveDocument, BusyPc, QuietStart
  <2>2. (Become(w, r) \/ Finish(w)) /\ UNCHANGED <<rows, stores, observers>>
    BY <1>2 DEF ReloadConfirmed
  <2> HIDE DEF r
  <2> QED
    BY <2>1, <2>2
<1>3. CASE CleanUpVectors(w)
  BY <1>3 DEF CleanUpVectors
<1>4. CASE CleanUpFails(w)
  BY <1>4 DEF CleanUpFails
<1>5. CASE StartIndex(w) /\ ~ReloadedRequiresIndex(w)
  BY <1>5 DEF StartIndex
<1>6. CASE LoseBookkeeping(w)
  BY <1>6 DEF LoseBookkeeping
<1> QED
  BY <1>1, <1>2, <1>3, <1>4, <1>5, <1>6 DEF QuietFormal

\* The confirmation makes formal what its client has seen, fully reviewed.
LEMMA KeptConfirm ==
    ASSUME TypeOK, SeenInv, NEW w \in Worker, Confirm(w)
    PROVE  /\ fields' = fields /\ fields.exists /\ fields.pending = 0
           /\ fields.rev = signed'
           /\ EditKept(w) /\ Outside(w)
<1> DEFINE r == [Idle EXCEPT !.pc = "confirmed"]
<1>1. r \in Task /\ r.pc \in QuietStart
  BY IdleType DEF Idle, Task, BusyPc, QuietStart
<1>2. Become(w, r) /\ UNCHANGED <<fields, indexOps, deleteOp, stores>>
  BY DEF Confirm
<1>3. doc'.present = doc.present
  BY DEF Confirm, ConfirmedDocument, TypeOK, ArchiveDocument
<1>4. fields.exists /\ fields.pending = 0
  BY DEF Confirm, ConfirmAllowed, ReviewComplete
<1>5. task[w].rev = fields.rev
  BY DEF Confirm, ConfirmAllowed, SeenInv, SeenPc
<1>6. signed' = task[w].rev
  BY DEF Confirm
<1> HIDE DEF r
<1> QED
  BY <1>1, <1>2, <1>3, <1>4, <1>5, <1>6, QuietTask DEF Outside, stores

-----------------------------------------------------------------------------
\* The steps of the handlers that own an operation row, and what each of them
\* leaves alone.
OwnerStep(w) ==
    \/ ReplayConfirm(w)
    \/ StartIndex(w) /\ ReloadedRequiresIndex(w)
    \/ BuildChunks(w) \/ UpsertChunks(w) \/ FinishIndex(w)
    \/ IndexFails(w) \/ MarkIndexFailed(w)
    \/ DeleteRequest(w) \/ DeleteStep(w)

LEMMA NextCases ==
    ASSUME Next
    PROVE  \/ Crash
           \/ \E w \in Worker :
                \/ BeginParse(w) \/ ParseStep(w)
                \/ DraftRequest(w) \/ LeaveDraft(w) \/ DraftStep(w)
                \/ QuietFormal(w) \/ Confirm(w) \/ OwnerStep(w)
<1>1. CASE Crash
  BY <1>1
<1>2. ASSUME NEW w \in Worker, Request(w) \/ Step(w) \/ LoseBookkeeping(w)
      PROVE  \/ BeginParse(w) \/ ParseStep(w)
             \/ DraftRequest(w) \/ LeaveDraft(w) \/ DraftStep(w)
             \/ QuietFormal(w) \/ Confirm(w) \/ OwnerStep(w)
  <2>1. CASE FormalRequest(w)
    BY <2>1 DEF FormalRequest, QuietFormal, OwnerStep
  <2>2. CASE StartIndex(w)
    <3>1. CASE ReloadedRequiresIndex(w)
      BY <2>2, <3>1 DEF OwnerStep
    <3>2. CASE ~ReloadedRequiresIndex(w)
      BY <2>2, <3>2 DEF QuietFormal
    <3> QED
      BY <3>1, <3>2
  <2>3. CASE FormalStep(w) /\ ~StartIndex(w)
    BY <2>3 DEF FormalStep, QuietFormal, OwnerStep
  <2>4. CASE DeleteRequest(w) \/ DeleteStep(w)
    BY <2>4 DEF OwnerStep
  <2>5. CASE LoseBookkeeping(w)
    BY <2>5 DEF QuietFormal
  <2> QED
    BY <1>2, <2>1, <2>2, <2>3, <2>4, <2>5 DEF Request, Step
<1> QED
  BY <1>1, <1>2 DEF Next

LEMMA OwnerOthers ==
    ASSUME TypeOK, NEW w \in Worker, OwnerStep(w)
    PROVE  \A v \in Worker \ {w} : task'[v] = task[v]
<1> USE DEF TypeOK, Become, Goto, Finish
<1>1. CASE ReplayConfirm(w) \/ StartIndex(w)
  BY <1>1 DEF ReplayConfirm, StartIndex, OpenIndex
<1>2. CASE BuildChunks(w) \/ UpsertChunks(w) \/ FinishIndex(w)
  BY <1>2 DEF BuildChunks, UpsertChunks, FinishIndex
<1>3. CASE IndexFails(w) \/ MarkIndexFailed(w)
  BY <1>3 DEF IndexFails, MarkIndexFailed
<1>4. CASE DeleteRequest(w)
  BY <1>4 DEF DeleteRequest, StartDelete, RefuseDelete
<1>5. CASE DeleteStep(w)
  BY <1>5 DEF DeleteStep, ClearVectors, RemoveFiles, RemoveRows, DeleteFails,
              MarkDeleteFailed
<1> QED
  BY <1>1, <1>2, <1>3, <1>4, <1>5 DEF OwnerStep

\* The operations and the stores: the exclusion, and what a deletion has
\* already emptied stays empty because nobody else may fill it.
OpsInv ==
    /\ OneOperation
    /\ deleteOp # "NONE" \/ IndexRunning => doc.present
    /\ \A w \in Worker :
          /\ task[w].pc \in {"removing", "finishing"} => vectors = {}
          /\ task[w].pc = "finishing" => ~files.original
    /\ DeletionLeavesNothing

LEMMA OutsideOps ==
    ASSUME OpsInv, NEW w \in Worker, Outside(w)
    PROVE  OpsInv'
<1>1. \A v \in Worker : task'[v].pc \in IndexPc \cup DeletePc => task'[v] = task[v]
  BY DEF Outside, Quiet
<1>2. IndexRunning' <=> IndexRunning
  BY DEF Outside, IndexRunning
<1>3. OneOperation'
  BY <1>1, <1>2 DEF OpsInv, OneOperation, Outside
<1>4. \A v \in Worker :
        /\ task'[v].pc \in {"removing", "finishing"} => vectors' = {}
        /\ task'[v].pc = "finishing" => ~files'.original
  BY <1>1 DEF OpsInv, Outside, DeletePc
<1>5. DeletionLeavesNothing'
  BY DEF OpsInv, DeletionLeavesNothing, Outside
<1> QED
  BY <1>2, <1>3, <1>4, <1>5 DEF OpsInv, Outside

\* Nobody else owns an operation while w does, or while none is RUNNING.
LEMMA SoleOwner ==
    ASSUME OneOperation, NEW w \in Worker,
           \/ task[w].pc \in IndexPc \cup DeletePc
           \/ ~OperationRunning
    PROVE  \A v \in Worker \ {w} : task[v].pc \notin IndexPc \cup DeletePc
BY DEF OneOperation, OperationRunning, IndexRunning

LEMMA OpsOpenIndex ==
    ASSUME TypeOK, OpsInv, NEW w \in Worker, OpenIndex(w), ~OperationRunning,
           doc.present, UNCHANGED <<doc, deleteOp, stores>>
    PROVE  OpsInv' /\ EditKept(w)
<1> DEFINE n == Len(indexOps) + 1
           r == [Idle EXCEPT !.pc = "building", !.op = n]
<1>1. n \in Nat /\ n \in DOMAIN indexOps' /\ indexOps'[n] = "RUNNING"
  BY DEF TypeOK, OpenIndex
<1>2. r \in Task /\ r.pc = "building" /\ r.op = n
  BY <1>1, IdleType DEF Idle, Task, BusyPc, IndexPc
<1>3. Become(w, r)
  BY DEF OpenIndex
<1> HIDE DEF r, n
<1>4. /\ task'[w] = r
      /\ \A v \in Worker \ {w} : task'[v] = task[v]
  BY <1>2, <1>3, BecomeType DEF TypeOK
<1>5. \A v \in Worker \ {w} : task'[v].pc \notin IndexPc \cup DeletePc
  BY <1>4, SoleOwner DEF OpsInv
<1>6. deleteOp' # "RUNNING"
  BY DEF OperationRunning
<1>7. OneOperation'
  BY <1>1, <1>2, <1>4, <1>5, <1>6 DEF OneOperation, IndexPc, DeletePc
<1>8. \A v \in Worker : task'[v].pc \notin {"removing", "finishing"}
  BY <1>2, <1>4, <1>5 DEF DeletePc
<1> QED
  BY <1>2, <1>4, <1>7, <1>8 DEF OpsInv, DeletionLeavesNothing, EditKept

LEMMA OpsIndex ==
    ASSUME TypeOK, OpsInv, NEW w \in Worker,
           \/ BuildChunks(w) \/ UpsertChunks(w) \/ FinishIndex(w)
           \/ IndexFails(w) \/ MarkIndexFailed(w)
    PROVE  OpsInv' /\ EditKept(w)
<1>1. /\ task[w].pc \in IndexPc /\ task[w].op \in DOMAIN indexOps
      /\ indexOps[task[w].op] = "RUNNING"
  BY DEF BuildChunks, UpsertChunks, FinishIndex, IndexFails, MarkIndexFailed,
         OpsInv, OneOperation, IndexPc
<1>2. IndexRunning /\ deleteOp # "RUNNING" /\ doc.present
  BY <1>1 DEF IndexRunning, OpsInv, OneOperation
<1>3. \A v \in Worker \ {w} : task[v].pc \notin IndexPc \cup DeletePc
  BY <1>1, SoleOwner DEF OpsInv
\* The next step of the pipeline: the operation stays RUNNING.
<1>4. CASE BuildChunks(w) \/ UpsertChunks(w) \/ IndexFails(w)
  <2>1. /\ task'[w].pc \in IndexPc /\ task'[w].op = task[w].op
        /\ \A v \in Worker \ {w} : task'[v] = task[v]
    <3>1. CASE BuildChunks(w)
      BY <3>1 DEF BuildChunks, Become, TypeOK, Task, IndexPc
    <3>2. CASE UpsertChunks(w)
      BY <3>2 DEF UpsertChunks, Goto, TypeOK, Task, IndexPc
    <3>3. CASE IndexFails(w)
      BY <3>3 DEF IndexFails, Goto, TypeOK, Task, IndexPc
    <3> QED
      BY <1>4, <3>1, <3>2, <3>3
  <2>2. UNCHANGED <<doc, indexOps, deleteOp, files>>
    BY <1>4 DEF BuildChunks, UpsertChunks, IndexFails, rows, stores
  <2>3. OneOperation'
    BY <1>1, <1>2, <1>3, <2>1, <2>2 DEF OneOperation, IndexPc, DeletePc
  <2>4. \A v \in Worker : task'[v].pc \notin {"removing", "finishing"}
    BY <1>3, <2>1 DEF IndexPc, DeletePc
  <2> QED
    BY <1>2, <2>1, <2>2, <2>3, <2>4
       DEF OpsInv, DeletionLeavesNothing, EditKept, IndexPc
\* The end of it: nobody owns an operation any more.
<1>5. CASE FinishIndex(w) \/ MarkIndexFailed(w)
  <2>1. EditKept(w) /\ Quiet(w)
    BY <1>5, QuietTask DEF FinishIndex, MarkIndexFailed
  <2>2. \A v \in Worker : task'[v].pc \notin IndexPc \cup DeletePc
    BY <1>3, <2>1 DEF Quiet
  <2>3. UNCHANGED <<deleteOp, files>> /\ doc'.present
    BY <1>2, <1>5 DEF FinishIndex, MarkIndexFailed, IndexedDocument, stores,
                      TypeOK, ArchiveDocument
  <2>4. OneOperation'
    BY <1>2, <2>2, <2>3 DEF OneOperation
  <2>5. \A v \in Worker : task'[v].pc \notin {"removing", "finishing"}
    BY <2>2 DEF DeletePc
  <2> QED
    BY <2>1, <2>3, <2>4, <2>5 DEF OpsInv, DeletionLeavesNothing
<1> QED
  BY <1>4, <1>5

LEMMA OpsStartDelete ==
    ASSUME TypeOK, OpsInv, NEW w \in Worker, DeleteRequest(w)
    PROVE  OpsInv' /\ EditKept(w)
<1>1. CASE StartDelete(w)
  <2> DEFINE r == [Idle EXCEPT !.pc = "clearing"]
  <2>1. r \in Task /\ r.pc = "clearing"
    BY IdleType DEF Idle, Task, BusyPc, DeletePc
  <2>2. /\ Become(w, r) /\ deleteOp' = "RUNNING"
        /\ UNCHANGED <<doc, indexOps, stores>>
        /\ doc.present /\ ~OperationRunning
    BY <1>1 DEF StartDelete, DeleteRefused, OperationRunning
  <2> HIDE DEF r
  <2>3. task'[w] = r /\ \A v \in Worker \ {w} : task'[v] = task[v]
    BY <2>1, <2>2, BecomeType DEF TypeOK
  <2>4. \A v \in Worker \ {w} : task'[v].pc \notin IndexPc \cup DeletePc
    BY <2>2, <2>3, SoleOwner DEF OpsInv
  <2>5. ~IndexRunning'
    BY <2>2 DEF OperationRunning, IndexRunning
  <2>6. OneOperation'
    BY <2>1, <2>2, <2>3, <2>4, <2>5 DEF OneOperation, IndexPc, DeletePc
  <2>7. \A v \in Worker : task'[v].pc \notin {"removing", "finishing"}
    BY <2>1, <2>3, <2>4 DEF DeletePc
  <2> QED
    BY <2>1, <2>2, <2>3, <2>6, <2>7 DEF OpsInv, DeletionLeavesNothing, EditKept
<1>2. CASE RefuseDelete(w)
  <2>1. UNCHANGED <<rows, stores, task>>
    BY <1>2 DEF RefuseDelete
  <2>2. OneOperation' /\ (IndexRunning' <=> IndexRunning)
    BY <2>1 DEF OneOperation, OpsInv, IndexRunning, rows
  <2> QED
    BY <2>1, <2>2 DEF OpsInv, DeletionLeavesNothing, EditKept, rows, stores
<1> QED
  BY <1>1, <1>2 DEF DeleteRequest

LEMMA OpsDelete ==
    ASSUME TypeOK, OpsInv, NEW w \in Worker, DeleteStep(w)
    PROVE  OpsInv' /\ EditKept(w)
<1>1. task[w].pc \in DeletePc
  BY DEF DeleteStep, ClearVectors, RemoveFiles, RemoveRows, DeleteFails,
         MarkDeleteFailed, DeletePc
<1>2. deleteOp = "RUNNING" /\ ~IndexRunning /\ doc.present
  BY <1>1 DEF OpsInv, OneOperation
<1>3. \A v \in Worker \ {w} : task[v].pc \notin IndexPc \cup DeletePc
  BY <1>1, SoleOwner DEF OpsInv
\* The next step of the deletion: the operation stays RUNNING.
<1>4. CASE ClearVectors(w) \/ RemoveFiles(w) \/ DeleteFails(w)
  <2>1. /\ task'[w].pc \in DeletePc
        /\ \A v \in Worker \ {w} : task'[v] = task[v]
    BY <1>4 DEF ClearVectors, RemoveFiles, DeleteFails, Goto, TypeOK, Task, DeletePc
  <2>2. UNCHANGED <<doc, indexOps, deleteOp>>
    BY <1>4 DEF ClearVectors, RemoveFiles, DeleteFails, rows
  <2>3. OneOperation'
    BY <1>2, <1>3, <2>1, <2>2 DEF OneOperation, IndexRunning, IndexPc, DeletePc
  <2>4. /\ task'[w].pc \in {"removing", "finishing"} => vectors' = {}
        /\ task'[w].pc = "finishing" => ~files'.original
    <3>1. CASE ClearVectors(w)
      BY <3>1 DEF ClearVectors, Goto, TypeOK, Task
    <3>2. CASE RemoveFiles(w)
      BY <3>2 DEF RemoveFiles, RemainingFiles, Goto, TypeOK, Task, OpsInv
    <3>3. CASE DeleteFails(w)
      BY <3>3 DEF DeleteFails, Goto, TypeOK, Task
    <3> QED
      BY <1>4, <3>1, <3>2, <3>3
  <2>5. \A v \in Worker \ {w} : task'[v].pc \notin {"removing", "finishing"}
    BY <1>3, <2>1 DEF DeletePc
  <2> QED
    BY <1>2, <2>1, <2>2, <2>3, <2>4, <2>5
       DEF OpsInv, DeletionLeavesNothing, EditKept, DeletePc
\* The end of it: nobody owns an operation any more.
<1>5. CASE RemoveRows(w) \/ MarkDeleteFailed(w)
  <2>1. EditKept(w) /\ Quiet(w)
    BY <1>5, QuietTask DEF RemoveRows, MarkDeleteFailed
  <2>2. \A v \in Worker : task'[v].pc \notin IndexPc \cup DeletePc
    BY <1>3, <2>1 DEF Quiet
  <2>3. ~IndexRunning'
    BY <1>2, <1>5 DEF RemoveRows, MarkDeleteFailed, IndexRunning
  <2>4. OneOperation'
    BY <2>2, <2>3 DEF OneOperation
  <2>5. \A v \in Worker : task'[v].pc \notin {"removing", "finishing"}
    BY <2>2 DEF DeletePc
  <2>6. CASE RemoveRows(w)
    <3>1. deleteOp' = "NONE" /\ UNCHANGED stores /\ task[w].pc = "finishing"
      BY <2>6 DEF RemoveRows
    <3>2. vectors' = {} /\ ~files'.original
      BY <3>1 DEF OpsInv, stores
    <3> QED
      BY <2>1, <2>3, <2>4, <2>5, <3>1, <3>2 DEF OpsInv, DeletionLeavesNothing
  <2>7. CASE MarkDeleteFailed(w)
    BY <1>2, <2>1, <2>3, <2>4, <2>5, <2>7
       DEF OpsInv, DeletionLeavesNothing, MarkDeleteFailed
  <2> QED
    BY <1>5, <2>6, <2>7
<1> QED
  BY <1>4, <1>5 DEF DeleteStep

LEMMA OpsOwner ==
    ASSUME TypeOK, OpsInv, NEW w \in Worker, OwnerStep(w)
    PROVE  OpsInv' /\ EditKept(w)
<1>1. CASE ReplayConfirm(w)
  <2>1. /\ OpenIndex(w) /\ ~OperationRunning /\ doc.present
        /\ UNCHANGED <<doc, deleteOp, stores>>
    BY <1>1 DEF ReplayConfirm, IndexRequired
  <2> QED
    BY <2>1, OpsOpenIndex
<1>2. CASE StartIndex(w) /\ ReloadedRequiresIndex(w)
  <2>1. /\ OpenIndex(w) /\ ~OperationRunning /\ doc.present
        /\ UNCHANGED <<doc, deleteOp, stores>>
    BY <1>2 DEF StartIndex, ReloadedRequiresIndex, IndexRequired
  <2> QED
    BY <2>1, OpsOpenIndex
<1> QED
  BY <1>1, <1>2, OpsIndex, OpsStartDelete, OpsDelete DEF OwnerStep

LEMMA OpsCrash ==
    ASSUME TypeOK, OpsInv, Crash
    PROVE  OpsInv'
<1>1. \A v \in Worker : task'[v].pc \notin IndexPc \cup DeletePc
  BY DEF Crash, Busy, BusyPc, Idle, IndexPc, DeletePc
<1>2. UNCHANGED <<doc, indexOps, deleteOp, files, vectors>>
  BY DEF Crash, rows, stores
<1>3. OneOperation' /\ (IndexRunning' <=> IndexRunning)
  BY <1>1, <1>2 DEF OneOperation, OpsInv, IndexRunning
<1>4. \A v \in Worker : task'[v].pc \notin {"removing", "finishing"}
  BY <1>1 DEF DeletePc
<1> QED
  BY <1>2, <1>3, <1>4 DEF OpsInv, DeletionLeavesNothing

LEMMA OpsInit == Init => OpsInv
<1> SUFFICES ASSUME Init PROVE OpsInv
  OBVIOUS
<1>1. \A w \in Worker : task[w].pc = "idle"
  BY DEF Init, Idle
<1>2. ~IndexRunning /\ deleteOp = "NONE" /\ doc.present
  BY DEF Init, IndexRunning
<1>3. OneOperation
  BY <1>1, <1>2 DEF OneOperation, IndexPc, DeletePc
<1> QED
  BY <1>1, <1>2, <1>3 DEF OpsInv, DeletionLeavesNothing

LEMMA KeptOwner ==
    ASSUME TypeOK, NEW w \in Worker, OwnerStep(w)
    PROVE  FormalKept
<1> USE DEF FormalKept, rows, stores, observers
<1>1. CASE ReplayConfirm(w)
  BY <1>1 DEF ReplayConfirm
<1>2. CASE StartIndex(w)
  BY <1>2 DEF StartIndex
<1>3. CASE BuildChunks(w) \/ UpsertChunks(w) \/ IndexFails(w) \/ MarkIndexFailed(w)
  BY <1>3 DEF BuildChunks, UpsertChunks, IndexFails, MarkIndexFailed
<1>4. CASE FinishIndex(w)
  <2>1. doc'.status = doc.status /\ doc'.present = doc.present
    BY <1>4 DEF FinishIndex, IndexedDocument, TypeOK, ArchiveDocument
  <2> QED
    BY <1>4, <2>1 DEF FinishIndex
<1>5. CASE DeleteRequest(w)
  BY <1>5 DEF DeleteRequest, StartDelete, RefuseDelete
<1>6. CASE RemoveRows(w)
  <2>1. ~doc'.present
    BY <1>6 DEF RemoveRows, RemovedDocument, TypeOK, ArchiveDocument
  <2> QED
    BY <2>1
<1>7. CASE DeleteStep(w) /\ ~RemoveRows(w)
  BY <1>7 DEF DeleteStep, ClearVectors, RemoveFiles, DeleteFails, MarkDeleteFailed
<1> QED
  BY <1>1, <1>2, <1>3, <1>4, <1>5, <1>6, <1>7 DEF OwnerStep

-----------------------------------------------------------------------------
\* Everything the life of a document keeps, taken together: the versions, the
\* operations and the signature support each other.
LifeInv == TypeOK /\ SeenInv /\ OpsInv /\ SignedInv

\* What every step of one worker does to the formal content and to the edits.
FormalStepOf(w) ==
    /\ \/ FormalKept
       \/ fields' = fields /\ fields.exists /\ fields.pending = 0
          /\ fields.rev = signed'
    /\ EditKept(w)
    /\ \A v \in Worker \ {w} : task'[v] = task[v]

LEMMA WorkerStep ==
    ASSUME LifeInv, NEW w \in Worker,
           \/ BeginParse(w) \/ ParseStep(w)
           \/ DraftRequest(w) \/ LeaveDraft(w) \/ DraftStep(w)
           \/ QuietFormal(w) \/ Confirm(w) \/ OwnerStep(w)
    PROVE  OpsInv' /\ FormalStepOf(w)
<1> USE DEF LifeInv, FormalStepOf
<1>1. CASE BeginParse(w) \/ ParseStep(w)
  BY <1>1, KeptParse, OutsideOps DEF Outside, Quiet
<1>2. CASE DraftRequest(w) \/ LeaveDraft(w) \/ DraftStep(w)
  BY <1>2, KeptDraft, OutsideOps DEF Outside, Quiet
<1>3. CASE QuietFormal(w)
  BY <1>3, KeptFormal, OutsideOps DEF Outside, Quiet
<1>4. CASE Confirm(w)
  BY <1>4, KeptConfirm, OutsideOps DEF Outside, Quiet
<1>5. CASE OwnerStep(w)
  <2>1. OpsInv' /\ EditKept(w) /\ FormalKept
    BY <1>5, OpsOwner, KeptOwner
  <2>2. \A v \in Worker \ {w} : task'[v] = task[v]
    BY <1>5, OwnerOthers
  <2> QED
    BY <2>1, <2>2
<1> QED
  BY <1>1, <1>2, <1>3, <1>4, <1>5

LEMMA SignedStep ==
    ASSUME SignedInv, NEW w \in Worker, FormalStepOf(w)
    PROVE  SignedInv'
<1>1. ConfirmedAsSigned'
  BY DEF SignedInv, ConfirmedAsSigned, FormalStepOf, FormalKept
<1>2. ASSUME NEW v \in Worker, task'[v].pc = "editing"
      PROVE  task'[v].st \in EditableStatus \cup {"CONFIRMED"}
  <2>1. CASE v = w
    BY <1>2, <2>1 DEF SignedInv, FormalStepOf, EditKept
  <2>2. CASE v # w
    BY <1>2, <2>2 DEF SignedInv, FormalStepOf
  <2> QED
    BY <2>1, <2>2
<1> QED
  BY <1>1, <1>2 DEF SignedInv, EditableStatus

LEMMA LifeNext ==
    ASSUME LifeInv, TypeOK', SeenInv', [Next]_vars
    PROVE  LifeInv'
<1>1. CASE UNCHANGED vars
  <2>1. OneOperation' /\ (IndexRunning' <=> IndexRunning)
    BY <1>1 DEF OneOperation, LifeInv, OpsInv, IndexRunning, vars, rows
  <2> QED
    BY <1>1, <2>1 DEF LifeInv, OpsInv, SignedInv, ConfirmedAsSigned,
          DeletionLeavesNothing, vars, rows, stores, observers
<1>2. CASE Crash
  <2>1. OpsInv'
    BY <1>2, OpsCrash DEF LifeInv
  <2>2. \A v \in Worker : task'[v].pc # "editing"
    BY <1>2 DEF Crash, Busy, BusyPc, Idle
  <2>3. SignedInv'
    BY <1>2, <2>2 DEF LifeInv, SignedInv, ConfirmedAsSigned, Crash, rows, observers
  <2> QED
    BY <2>1, <2>3 DEF LifeInv
<1>3. CASE Next /\ ~Crash
  <2>1. PICK w \in Worker :
           \/ BeginParse(w) \/ ParseStep(w)
           \/ DraftRequest(w) \/ LeaveDraft(w) \/ DraftStep(w)
           \/ QuietFormal(w) \/ Confirm(w) \/ OwnerStep(w)
    BY <1>3, NextCases
  <2>2. OpsInv' /\ FormalStepOf(w)
    BY <2>1, WorkerStep
  <2> QED
    BY <2>2, SignedStep DEF LifeInv
<1> QED
  BY <1>1, <1>2, <1>3

LEMMA SignedInit == Init => SignedInv
<1> SUFFICES ASSUME Init PROVE SignedInv
  OBVIOUS
<1>1. doc.status # "CONFIRMED" /\ \A w \in Worker : task[w].pc # "editing"
  BY SizeAssumption DEF Init, Idle
<1> QED
  BY <1>1 DEF SignedInv, ConfirmedAsSigned

THEOREM LifeCorrect == Spec => []LifeInv
<1>1. Init => OpsInv /\ SignedInv
  BY OpsInit, SignedInit
<1>2. TypeOK /\ SeenInv /\ OpsInv /\ SignedInv => LifeInv
  BY DEF LifeInv
<1>3. LifeInv /\ TypeOK' /\ SeenInv' /\ [Next]_vars => LifeInv'
  BY LifeNext
<1>4. Spec => []SeenInv
  BY SeenInit, SeenNext, TypeCorrect, PTL DEF Spec
<1> QED
  BY <1>1, <1>2, <1>3, <1>4, SeenInit, TypeCorrect, PTL DEF Spec

\* An index and a deletion exclude each other for any number of requests and
\* crashes, although their rows are written in separate transactions.
THEOREM OperationsExclusive == Spec => []OneOperation
<1>1. LifeInv => OneOperation
  BY DEF LifeInv, OpsInv
<1> QED
  BY <1>1, LifeCorrect, PTL

\* A finished deletion has left neither vectors nor the original file.
THEOREM DeletionClean == Spec => []DeletionLeavesNothing
<1>1. LifeInv => DeletionLeavesNothing
  BY DEF LifeInv, OpsInv
<1> QED
  BY <1>1, LifeCorrect, PTL

\* Formal content is what the confirmer has seen, completely reviewed.
THEOREM ConfirmedCorrect == Spec => []ConfirmedAsSigned
<1>1. LifeInv => ConfirmedAsSigned
  BY DEF LifeInv, SignedInv
<1> QED
  BY <1>1, LifeCorrect, PTL
=============================================================================
