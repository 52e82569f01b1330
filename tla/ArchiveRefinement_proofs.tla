---------------------- MODULE ArchiveRefinement_proofs ----------------------
(***************************************************************************)
(* The stored document implements FormalArchive, and no request commits on  *)
(* values its client has not seen: theorems that use the invariant LifeInv  *)
(* of ArchiveLifecycle_proofs.                                              *)
(***************************************************************************)
EXTENDS ArchiveLifecycle_proofs

\* An edit, a confirmation and a regeneration all commit on the revision of
\* the values that their client has read.
THEOREM CommitsCorrect == Spec => CommitsOnSeenRevision
<1>1. ASSUME SeenIsCurrent, NEW w \in Worker,
             EditField(w) \/ Confirm(w) \/ CommitRegenerate(w)
      PROVE  task[w].rev = fields.rev
  BY <1>1 DEF SeenIsCurrent, EditField, EditHits, Confirm, ConfirmAllowed,
              CommitRegenerate, RegenerateRecheck, RegenerateAllowed
<1>2. SeenIsCurrent =>
        [\A w \in Worker :
           EditField(w) \/ Confirm(w) \/ CommitRegenerate(w)
              => task[w].rev = fields.rev]_vars
  BY <1>1
<1> QED
  BY <1>2, SeenCorrect, PTL DEF CommitsOnSeenRevision

-----------------------------------------------------------------------------
\* Stored values have been written once: revision 0 shows nothing.
RevInv == fields.exists => fields.rev # 0

LEMMA RevKept ==
    ASSUME TypeOK, RevInv,
           \/ fields' = fields
           \/ fields' = FreshFields
           \/ \E p \in 0 .. FieldCount : fields' = EditedFields(p)
           \/ fields' = [fields EXCEPT !.exists = FALSE]
    PROVE  RevInv'
<1>1. fields \in FieldValues /\ fields.rev \in Nat
  BY DEF TypeOK, FieldValues
<1>2. fields.rev + 1 # 0
  BY <1>1
<1>3. CASE fields' = fields \/ fields' = [fields EXCEPT !.exists = FALSE]
  BY <1>1, <1>3 DEF RevInv, FieldValues
<1>4. CASE fields' = FreshFields
  BY <1>2, <1>4 DEF RevInv, FreshFields
<1>5. ASSUME NEW p \in 0 .. FieldCount, fields' = EditedFields(p)
      PROVE  RevInv'
  <2>1. fields'.rev = fields.rev + 1
    BY <1>1, <1>5 DEF EditedFields, FieldValues
  <2> QED
    BY <1>2, <2>1 DEF RevInv
<1> QED
  BY <1>3, <1>4, <1>5

LEMMA RevNext ==
    ASSUME TypeOK, RevInv, [Next]_vars
    PROVE  RevInv'
<1>1. CASE UNCHANGED vars \/ Crash
  BY <1>1 DEF vars, rows, Crash, RevInv
<1>2. ASSUME NEW w \in Worker, Request(w) \/ Step(w) \/ LoseBookkeeping(w)
      PROVE  RevInv'
  <2> USE RevKept DEF rows, ReadsOnly
  <2>1. CASE BeginParse(w) \/ ParseStep(w)
    BY <2>1 DEF BeginParse, ParseStep, ParseFile, ParseFails, WriteSnapshotFile,
                CommitSnapshot, RollBackSnapshot, UnlinkSnapshotFile
  <2>2. CASE DraftRequest(w) \/ LeaveDraft(w)
    BY <2>2 DEF DraftRequest, LeaveDraft, ReadDraftRow, BeginEdit,
                CreateManualDraft, OpenFreshDraft, StartSuggestion, BeginRegenerate
  <2>3. CASE EditField(w)
    <3>1. \E p \in 0 .. FieldCount : fields' = EditedFields(p)
      BY <2>3 DEF EditField
    <3> QED
      BY <3>1
  <2>4. CASE DraftStep(w) /\ ~EditField(w)
    BY <2>4 DEF DraftStep, ReadDraftFields, EditConflict, PersistSuggestion,
                OpenFreshDraft, SuggestionNotSaved, SuggestionFails,
                RecordSuggestionFailure, CommitRegenerate, GiveUpRegenerate
  <2>5. CASE FormalRequest(w) \/ FormalStep(w)
    BY <2>5 DEF FormalRequest, Confirm, ReplayConfirm, Cancel, FormalStep,
                ReloadConfirmed, StartIndex, BuildChunks, UpsertChunks, FinishIndex,
                IndexFails, MarkIndexFailed, CleanUpVectors, CleanUpFails
  <2>6. CASE DeleteRequest(w) \/ DeleteStep(w)
    BY <2>6 DEF DeleteRequest, StartDelete, RefuseDelete, DeleteStep, ClearVectors,
                RemoveFiles, RemoveRows, DeleteFails, MarkDeleteFailed
  <2>7. CASE LoseBookkeeping(w)
    BY <2>7 DEF LoseBookkeeping
  <2> QED
    BY <1>2, <2>1, <2>2, <2>3, <2>4, <2>5, <2>6, <2>7 DEF Request, Step
<1> QED
  BY <1>1, <1>2 DEF Next

-----------------------------------------------------------------------------
\* A step that keeps the row and the delete operation where they are either
\* shows nothing new or takes the document out of the formal scope.
LEMMA OutsideRefines ==
    ASSUME FormalKept, doc'.present = doc.present, deleteOp' = deleteOp
    PROVE  [Formal!FNext]_Formal!fvars
BY DEF FormalKept, Formal!FNext, Formal!Withdraw, Formal!fvars, phase, shown

LEMMA ConfirmRefines ==
    ASSUME LifeInv, RevInv, NEW w \in Worker, Confirm(w)
    PROVE  [Formal!FNext]_Formal!fvars
<1>1. fields' = fields /\ deleteOp' = deleteOp /\ fields.exists
  BY DEF Confirm, ConfirmAllowed, ReviewComplete
<1>2. fields.rev \in Nat \ {0}
  BY <1>1 DEF RevInv, LifeInv, TypeOK, FieldValues
<1>3. doc.present /\ doc'.present /\ doc.status # "CONFIRMED"
  BY DEF Confirm, ConfirmAllowed, ConfirmedDocument, EditableStatus,
         LifeInv, TypeOK, ArchiveDocument
<1>4. CASE deleteOp # "NONE"
  BY <1>1, <1>3, <1>4 DEF Formal!fvars, phase, shown
<1>5. CASE deleteOp = "NONE"
  <2>1. phase = "DRAFT"
    BY <1>3, <1>5 DEF phase
  <2>2. doc'.status = "CONFIRMED"
    BY DEF Confirm, ConfirmedDocument, LifeInv, TypeOK, ArchiveDocument
  <2>3. phase' = "FORMAL" /\ shown' = fields.rev
    BY <1>1, <1>3, <1>5, <2>2 DEF phase, shown
  <2> QED
    BY <1>2, <2>1, <2>3 DEF Formal!FNext, Formal!Publish
<1> QED
  BY <1>4, <1>5

LEMMA OwnerRefines ==
    ASSUME LifeInv, NEW w \in Worker, OwnerStep(w)
    PROVE  [Formal!FNext]_Formal!fvars
<1>1. CASE StartDelete(w)
  <2>1. doc' = doc /\ doc.present /\ deleteOp' # "NONE"
    BY <1>1 DEF StartDelete
  <2> QED
    BY <2>1 DEF Formal!FNext, Formal!Hide, Formal!fvars, phase, shown
<1>2. CASE RemoveRows(w)
  <2>1. deleteOp = "RUNNING" /\ doc.present
    BY <1>2 DEF RemoveRows, LifeInv, OpsInv, OneOperation, DeletePc
  <2>2. ~doc'.present
    BY <1>2 DEF RemoveRows, RemovedDocument, LifeInv, TypeOK, ArchiveDocument
  <2> QED
    BY <2>1, <2>2 DEF Formal!FNext, Formal!Destroy, phase, shown
<1>3. CASE MarkDeleteFailed(w)
  <2>1. deleteOp = "RUNNING" /\ deleteOp' # "NONE"
    BY <1>3 DEF MarkDeleteFailed, AfterDeleteFailure, LifeInv, OpsInv,
                OneOperation, DeletePc
  <2>2. doc' = doc
    BY <1>3 DEF MarkDeleteFailed
  <2> QED
    BY <2>1, <2>2 DEF Formal!fvars, phase, shown
<1>4. CASE ~StartDelete(w) /\ ~RemoveRows(w) /\ ~MarkDeleteFailed(w)
  <2>1. FormalKept
    BY KeptOwner DEF LifeInv
  <2>2. deleteOp' = deleteOp
    BY <1>4 DEF OwnerStep, ReplayConfirm, StartIndex, BuildChunks, UpsertChunks,
                FinishIndex, IndexFails, MarkIndexFailed, DeleteRequest,
                RefuseDelete, DeleteStep, ClearVectors, RemoveFiles, DeleteFails, rows
  <2>3. doc'.present = doc.present
    BY <1>4 DEF OwnerStep, ReplayConfirm, StartIndex, BuildChunks, UpsertChunks,
                FinishIndex, IndexedDocument, IndexFails, MarkIndexFailed,
                DeleteRequest, RefuseDelete, DeleteStep, ClearVectors, RemoveFiles,
                DeleteFails, rows, LifeInv, TypeOK, ArchiveDocument
  <2> QED
    BY <2>1, <2>2, <2>3, OutsideRefines
<1> QED
  BY <1>1, <1>2, <1>3, <1>4

LEMMA NextRefines ==
    ASSUME LifeInv, RevInv, [Next]_vars
    PROVE  [Formal!FNext]_Formal!fvars
<1>1. CASE UNCHANGED vars \/ Crash
  BY <1>1 DEF vars, rows, Crash, Formal!fvars, phase, shown
<1>2. CASE Next /\ ~Crash
  <2>1. PICK w \in Worker :
           \/ BeginParse(w) \/ ParseStep(w)
           \/ DraftRequest(w) \/ LeaveDraft(w) \/ DraftStep(w)
           \/ QuietFormal(w) \/ Confirm(w) \/ OwnerStep(w)
    BY <1>2, NextCases
  <2>2. CASE Confirm(w)
    BY <2>2, ConfirmRefines
  <2>3. CASE OwnerStep(w)
    BY <2>3, OwnerRefines
  <2>4. CASE \/ BeginParse(w) \/ ParseStep(w)
             \/ DraftRequest(w) \/ LeaveDraft(w) \/ DraftStep(w)
             \/ QuietFormal(w)
    <3>1. FormalKept /\ Outside(w)
      BY <2>4, KeptParse, KeptDraft, KeptFormal DEF LifeInv
    <3> QED
      BY <3>1, OutsideRefines DEF Outside
  <2> QED
    BY <2>1, <2>2, <2>3, <2>4
<1> QED
  BY <1>1, <1>2

LEMMA InitRefines == Init => RevInv /\ Formal!FInit
<1> SUFFICES ASSUME Init PROVE RevInv /\ Formal!FInit
  OBVIOUS
<1>1. doc.present /\ doc.status # "CONFIRMED" /\ deleteOp = "NONE"
  BY DEF Init
<1>2. fields.exists => fields.rev # 0
  BY InstanceAssumption, SizeAssumption DEF Init
<1> QED
  BY <1>1, <1>2 DEF RevInv, Formal!FInit, phase, shown

\* The handlers, stores and crashes together implement the abstract life of a
\* document: formal content is fixed while it shows, and a deletion once begun
\* can only end in disappearance.
THEOREM Refinement == Spec => ImplementsFormalArchive
<1>1. LifeInv /\ RevInv /\ [Next]_vars => RevInv'
  BY RevNext DEF LifeInv
<1>2. LifeInv /\ RevInv /\ [Next]_vars => [Formal!FNext]_Formal!fvars
  BY NextRefines
<1> QED
  BY <1>1, <1>2, InitRefines, LifeCorrect, PTL
     DEF Spec, ImplementsFormalArchive, Formal!FSpec

-----------------------------------------------------------------------------
\* As long as nothing has failed, every RUNNING operation row has the handler
\* that will resolve it.
HandledInv ==
    /\ faults <= MaxFaults
    /\ faults = 0 =>
        /\ \A i \in DOMAIN indexOps : indexOps[i] = "RUNNING" =>
              \E v \in Worker : task[v].pc \in IndexPc /\ task[v].op = i
        /\ deleteOp = "RUNNING" => \E v \in Worker : task[v].pc \in DeletePc

LEMMA HandledKept ==
    ASSUME TypeOK, HandledInv, NEW w \in Worker,
           task[w].pc \notin IndexPc \cup DeletePc,
           \A v \in Worker \ {w} : task'[v] = task[v],
           indexOps' = indexOps, deleteOp' = deleteOp, faults' = faults
    PROVE  HandledInv'
BY DEF HandledInv

\* Who is not at work on an operation owns no row.
LEMMA OutsideHandled ==
    ASSUME LifeInv, HandledInv, NEW w \in Worker,
           \/ BeginParse(w) \/ ParseStep(w)
           \/ DraftRequest(w) \/ LeaveDraft(w) \/ DraftStep(w)
           \/ QuietFormal(w) \/ Confirm(w)
    PROVE  HandledInv'
<1> USE DEF rows, stores, observers, ReadsOnly, RowAndFieldsOnly, bounds, IndexPc, DeletePc
<1>1. CASE LoseBookkeeping(w)
  <2>1. faults' # 0 /\ faults' <= MaxFaults
    BY <1>1, BoundAssumption DEF LoseBookkeeping, LifeInv, TypeOK
  <2> QED
    BY <2>1 DEF HandledInv
<1>2. CASE ~LoseBookkeeping(w)
  <2>1. Outside(w)
    BY <1>2, KeptParse, KeptDraft, KeptFormal, KeptConfirm DEF LifeInv
  <2>2. task[w].pc \notin IndexPc \cup DeletePc /\ faults' = faults
    <3>1. CASE BeginParse(w) \/ ParseStep(w)
      BY <3>1 DEF BeginParse, ParseStep, ParseFile, ParseFails, WriteSnapshotFile,
         CommitSnapshot, RollBackSnapshot, UnlinkSnapshotFile, Accept
    <3>2. CASE DraftRequest(w) \/ LeaveDraft(w)
      BY <3>2 DEF DraftRequest, LeaveDraft, ReadDraftRow, BeginEdit,
         CreateManualDraft, OpenFreshDraft, StartSuggestion, BeginRegenerate, Accept
    <3>3. CASE DraftStep(w)
      BY <3>3 DEF DraftStep, ReadDraftFields, EditField, EditConflict, PersistSuggestion,
         OpenFreshDraft, SuggestionNotSaved, SuggestionFails,
         RecordSuggestionFailure, CommitRegenerate, GiveUpRegenerate
    <3>4. CASE QuietFormal(w) \/ Confirm(w)
      BY <1>2, <3>4 DEF QuietFormal, Confirm, Cancel, ReloadConfirmed, CleanUpVectors,
         CleanUpFails, StartIndex
    <3> QED
      BY <3>1, <3>2, <3>3, <3>4
  <2> QED
    BY <2>1, <2>2, HandledKept DEF Outside, Quiet, LifeInv
<1> QED
  BY <1>1, <1>2

\* An index opens a row for itself, and resolves its own row alone.
LEMMA IndexHandled ==
    ASSUME LifeInv, HandledInv, NEW w \in Worker,
           \/ ReplayConfirm(w)
           \/ StartIndex(w) /\ ReloadedRequiresIndex(w)
           \/ BuildChunks(w) \/ UpsertChunks(w) \/ FinishIndex(w)
           \/ IndexFails(w) \/ MarkIndexFailed(w)
    PROVE  HandledInv'
<1> USE DEF rows, stores, observers, bounds
<1>0. /\ task \in [Worker -> Task] /\ task[w] \in Task
      /\ indexOps \in Seq(OperationStatus)
  BY DEF LifeInv, TypeOK
<1>1. faults' = faults /\ deleteOp' = deleteOp
  BY DEF ReplayConfirm, StartIndex, BuildChunks, UpsertChunks, FinishIndex, IndexFails,
     MarkIndexFailed
<1>2. task[w].pc \notin DeletePc
  BY DEF ReplayConfirm, StartIndex, BuildChunks, UpsertChunks, FinishIndex, IndexFails,
     MarkIndexFailed, DeletePc
<1>3. CASE ReplayConfirm(w) \/ (StartIndex(w) /\ ReloadedRequiresIndex(w))
  <2> DEFINE r == [Idle EXCEPT !.pc = "building", !.op = Len(indexOps) + 1]
  <2>1. r.pc = "building" /\ r.op = Len(indexOps) + 1
    BY DEF Idle
  <2>2. /\ indexOps' = Append(indexOps, "RUNNING") /\ Become(w, r)
        /\ task[w].pc \notin IndexPc
    BY <1>3 DEF ReplayConfirm, StartIndex, OpenIndex, IndexPc
  <2> HIDE DEF r
  <2>3. task'[w] = r /\ \A v \in Worker \ {w} : task'[v] = task[v]
    BY <1>0, <2>2 DEF Become
  <2>4. \A i \in DOMAIN indexOps' :
           i = Len(indexOps) + 1 \/ (i \in DOMAIN indexOps /\ indexOps'[i] = indexOps[i])
    BY <1>0, <2>2
  <2> QED
    BY <1>1, <1>2, <2>1, <2>2, <2>3, <2>4 DEF HandledInv, IndexPc
<1>4. CASE BuildChunks(w) \/ UpsertChunks(w) \/ IndexFails(w)
  <2>1. indexOps' = indexOps
    BY <1>4 DEF BuildChunks, UpsertChunks, IndexFails
  <2>2. /\ task'[w].pc \in IndexPc /\ task'[w].op = task[w].op
        /\ \A v \in Worker \ {w} : task'[v] = task[v]
    <3>1. CASE BuildChunks(w)
      <4> DEFINE r == [task[w] EXCEPT !.pc = "upserting", !.rev = fields.rev]
      <4>1. r.pc = "upserting" /\ r.op = task[w].op
        BY <1>0 DEF Task
      <4>2. Become(w, r)
        BY <3>1 DEF BuildChunks
      <4> HIDE DEF r
      <4> QED
        BY <1>0, <4>1, <4>2 DEF Become, IndexPc
    <3>2. CASE UpsertChunks(w) \/ IndexFails(w)
      <4>1. PICK pc \in IndexPc : task' = [task EXCEPT ![w].pc = pc]
        BY <3>2 DEF UpsertChunks, IndexFails, Goto, IndexPc
      <4> QED
        BY <1>0, <4>1 DEF Task
    <3> QED
      BY <1>4, <3>1, <3>2
  <2> QED
    BY <1>1, <1>2, <2>1, <2>2 DEF HandledInv
<1>5. CASE FinishIndex(w) \/ MarkIndexFailed(w)
  <2>1. /\ \A v \in Worker \ {w} : task'[v] = task[v]
        /\ \E outcome \in {"SUCCEEDED", "FAILED"} : indexOps' = Resolved(task[w].op, outcome)
    BY <1>0, <1>5 DEF FinishIndex, MarkIndexFailed, AfterIndexFailure, Finish, Become
  <2>2. \A i \in DOMAIN indexOps' : indexOps'[i] = "RUNNING" =>
           i \in DOMAIN indexOps /\ indexOps[i] = "RUNNING" /\ i # task[w].op
    BY <2>1 DEF Resolved
  <2> QED
    BY <1>1, <1>2, <2>1, <2>2 DEF HandledInv
<1> QED
  BY <1>3, <1>4, <1>5

LEMMA DeleteHandled ==
    ASSUME LifeInv, HandledInv, NEW w \in Worker, DeleteRequest(w) \/ DeleteStep(w)
    PROVE  HandledInv'
<1> USE DEF rows, stores, observers, bounds
<1>0. task \in [Worker -> Task] /\ task[w] \in Task
  BY DEF LifeInv, TypeOK
<1>1. faults' = faults /\ task[w].pc \notin IndexPc
  BY DEF DeleteRequest, StartDelete, RefuseDelete, DeleteStep, ClearVectors, RemoveFiles,
     RemoveRows, DeleteFails, MarkDeleteFailed, Accept, IndexPc
<1>2. CASE StartDelete(w)
  <2>1. indexOps' = indexOps /\ task[w].pc = "idle"
    BY <1>2 DEF StartDelete, Accept
  <2>2. task'[w].pc = "clearing" /\ \A v \in Worker \ {w} : task'[v] = task[v]
    BY <1>0, <1>2 DEF StartDelete, Become, Idle
  <2> QED
    BY <1>1, <2>1, <2>2 DEF HandledInv, DeletePc
<1>3. CASE RefuseDelete(w)
  BY <1>1, <1>3 DEF RefuseDelete, HandledInv
<1>4. CASE ClearVectors(w) \/ RemoveFiles(w) \/ DeleteFails(w)
  <2>1. indexOps' = indexOps
    BY <1>4 DEF ClearVectors, RemoveFiles, DeleteFails
  <2>2. task'[w].pc \in DeletePc /\ \A v \in Worker \ {w} : task'[v] = task[v]
    BY <1>0, <1>4 DEF ClearVectors, RemoveFiles, DeleteFails, Goto, DeletePc, Task
  <2> QED
    BY <1>1, <2>1, <2>2 DEF HandledInv
<1>5. CASE RemoveRows(w) \/ MarkDeleteFailed(w)
  <2>1. /\ deleteOp' # "RUNNING" /\ \A v \in Worker \ {w} : task'[v] = task[v]
        /\ (indexOps' = indexOps \/ indexOps' = <<>>)
    BY <1>0, <1>5 DEF RemoveRows, MarkDeleteFailed, AfterDeleteFailure, Finish, Become
  <2> QED
    BY <1>1, <2>1 DEF HandledInv
<1> QED
  BY <1>2, <1>3, <1>4, <1>5 DEF DeleteRequest, DeleteStep

LEMMA HandledNext ==
    ASSUME LifeInv, HandledInv, [Next]_vars
    PROVE  HandledInv'
<1>1. CASE UNCHANGED vars
  BY <1>1 DEF vars, rows, bounds, HandledInv
<1>2. CASE Crash
  <2>1. faults' # 0 /\ faults' <= MaxFaults
    BY <1>2, BoundAssumption DEF Crash, LifeInv, TypeOK
  <2> QED
    BY <2>1 DEF HandledInv
<1>3. CASE Next /\ ~Crash
  <2>1. PICK w \in Worker :
           \/ BeginParse(w) \/ ParseStep(w)
           \/ DraftRequest(w) \/ LeaveDraft(w) \/ DraftStep(w)
           \/ QuietFormal(w) \/ Confirm(w) \/ OwnerStep(w)
    BY <1>3, NextCases
  <2>2. CASE OwnerStep(w)
    <3>1. CASE DeleteRequest(w) \/ DeleteStep(w)
      BY <3>1, DeleteHandled
    <3>2. CASE ~(DeleteRequest(w) \/ DeleteStep(w))
      BY <2>2, <3>2, IndexHandled DEF OwnerStep
    <3> QED
      BY <3>1, <3>2
  <2> QED
    BY <2>1, <2>2, OutsideHandled
<1> QED
  BY <1>1, <1>2, <1>3

\* Where neither a crash nor a lost commit comes between, a deletion is refused only
\* while the handler of another operation is at work, so that it can be repeated with
\* success.  With a single fault this is false: the run restart_delete shows it.
THEOREM RefusalsPass == ASSUME MaxFaults = 0 PROVE Spec => RefusalHasOwner
<1>1. ASSUME LifeInv, HandledInv, NEW w \in Worker, RefuseDelete(w)
      PROVE  \E v \in Worker : task[v].pc \in IndexPc \cup DeletePc
  <2>1. faults = 0
    BY <1>1 DEF HandledInv, LifeInv, TypeOK
  <2> QED
    BY <1>1, <2>1 DEF HandledInv, RefuseDelete, DeleteRefused, IndexRunning
<1>2. LifeInv /\ HandledInv =>
        [\A w \in Worker :
           RefuseDelete(w) => \E v \in Worker : task[v].pc \in IndexPc \cup DeletePc]_vars
  BY <1>1
<1>3. LifeInv /\ HandledInv /\ [Next]_vars => HandledInv'
  BY HandledNext
<1>4. Init => HandledInv
  BY BoundAssumption DEF Init, HandledInv
<1> QED
  BY <1>2, <1>3, <1>4, LifeCorrect, PTL DEF Spec, RefusalHasOwner
=============================================================================
