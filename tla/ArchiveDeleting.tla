--------------------------- MODULE ArchiveDeleting ---------------------------
(***************************************************************************)
(* deletion.py: the physical deletion of a document over three stores.      *)
(* last_completed_step is written and never read, so the checkpoints show   *)
(* in the program counter only: a retry runs every step again.              *)
(***************************************************************************)
EXTENDS ArchiveRecord

\* Mutant: a running index does not stop a deletion.
DeleteRefusedByDelete == deleteOp = "RUNNING"
\* A RUNNING operation of any type; parse and suggest never create one.
DeleteRefused == IndexRunning \/ deleteOp = "RUNNING"

\* The preparation transaction, new or resumed from FAILED.
StartDelete(w) ==
    /\ Accept(w, "delete")
    /\ Unlocked /\ doc.present
    /\ ~DeleteRefused
    /\ deleteOp' = "RUNNING"
    /\ Become(w, [Idle EXCEPT !.pc = "clearing"])
    /\ UNCHANGED <<doc, fields, indexOps, stores, rowLock, observers>>

\* 409 DOCUMENT_OPERATION_IN_PROGRESS
RefuseDelete(w) ==
    /\ Accept(w, "delete")
    /\ Unlocked /\ doc.present
    /\ DeleteRefused
    /\ UNCHANGED <<rows, stores, rowLock, task, observers>>

ClearVectors(w) ==
    /\ task[w].pc = "clearing"
    /\ vectors' = {}
    /\ Goto(w, "removing")
    /\ UNCHANGED <<rows, files, rowLock, bounds, observers>>

\* The snapshot file is found through the snapshot row, if there is one.
RemainingFiles ==
    [original |-> FALSE, snapshot |-> files.snapshot /\ ~doc.snapshot]

RemoveFiles(w) ==
    /\ task[w].pc = "removing"
    /\ files' = RemainingFiles
    /\ Goto(w, "finishing")
    /\ UNCHANGED <<rows, vectors, rowLock, bounds, observers>>

RemovedDocument ==
    [doc EXCEPT !.present = FALSE, !.status = "PENDING_RECONFIRMATION",
                !.snapshot = FALSE, !.hash = FALSE, !.chunks = 0]

\* The last transaction: fields, links, snapshot, operations and the document.
RemoveRows(w) ==
    /\ task[w].pc = "finishing"
    /\ Unlocked
    /\ doc' = RemovedDocument
    /\ fields' = [fields EXCEPT !.exists = FALSE]
    /\ indexOps' = <<>>
    /\ deleteOp' = "NONE"
    /\ Finish(w)
    /\ UNCHANGED <<stores, rowLock, bounds, observers>>

\* A store or a checkpoint commit fails, possibly after the store has acted.
DeleteFails(w) ==
    /\ task[w].pc \in {"clearing", "removing", "finishing"}
    /\ vectors' \in {vectors} \cup (IF task[w].pc = "clearing" THEN {{}} ELSE {})
    /\ files' \in {files} \cup
          (IF task[w].pc = "removing"
           THEN {[files EXCEPT !.original = FALSE], RemainingFiles} ELSE {})
    /\ Goto(w, "delete_failing")
    /\ UNCHANGED <<rows, rowLock, bounds, observers>>

\* Mutants: the failure is not recorded; the failure lifts the blocking.
DeleteFailureUnrecorded == "RUNNING"
DeleteFailureUnblocks == "NONE"
\* _mark_delete_failed: the operation goes on blocking the visibility.
AfterDeleteFailure == "FAILED"

MarkDeleteFailed(w) ==
    /\ task[w].pc = "delete_failing"
    /\ deleteOp' = AfterDeleteFailure
    /\ Finish(w)
    /\ UNCHANGED <<doc, fields, indexOps, stores, rowLock, bounds, observers>>

DeleteRequest(w) == StartDelete(w) \/ RefuseDelete(w)
DeleteStep(w) ==
    \/ ClearVectors(w) \/ RemoveFiles(w) \/ RemoveRows(w)
    \/ DeleteFails(w) \/ MarkDeleteFailed(w)
=============================================================================
