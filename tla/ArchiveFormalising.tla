------------------------- MODULE ArchiveFormalising -------------------------
(***************************************************************************)
(* confirmation.py, indexing.py and cancellation.py: how a reviewed draft   *)
(* becomes a formal archive with vectors in Chroma, and how it leaves the   *)
(* formal scope again.                                                      *)
(***************************************************************************)
EXTENDS ArchiveRecord

\* Mutant: only a deletion counts as an operation in progress.
OperationRunningDeleteOnly == deleteOp = "RUNNING"
\* A RUNNING row of any type: uq_archive_operations_document_running.
OperationRunning == IndexRunning \/ deleteOp = "RUNNING"
LatestIndexSucceeded ==
    indexOps # <<>> /\ indexOps[Len(indexOps)] = "SUCCEEDED"

\* index_confirmed_document up to its first commit, given the values of the
\* archive row the session holds.
IndexRequired(st, hash, chunks) ==
    /\ doc.present /\ doc.snapshot
    /\ st = "CONFIRMED"
    /\ ~OperationRunning
    /\ ~(LatestIndexSucceeded /\ hash /\ chunks > 0)

OpenIndex(w) ==
    /\ indexOps' = Append(indexOps, "RUNNING")
    /\ Become(w, [Idle EXCEPT !.pc = "building", !.op = Len(indexOps) + 1])

-----------------------------------------------------------------------------
\* _validate_confirmation_fields.  Every field that is not PENDING_CHECK was
\* saved by update_field, which already demanded a value, a MANUAL source and
\* either evidence or its explicit absence.
ReviewComplete == fields.exists /\ fields.pending = 0

ConfirmAllowed(version) ==
    /\ doc.present
    /\ doc.version = version
    /\ doc.status \in EditableStatus
    /\ doc.snapshot
    /\ ReviewComplete

\* Mutant: the confirmation already records the index it is about to build.
ConfirmedWithChunks ==
    [doc EXCEPT !.status = "CONFIRMED", !.hash = TRUE, !.chunks = Chunks,
                !.version = @ + 1]
ConfirmedDocument ==
    [doc EXCEPT !.status = "CONFIRMED", !.hash = TRUE, !.chunks = 0,
                !.version = @ + 1]

\* confirm_document, first transaction.
Confirm(w) ==
    /\ "confirm" \in Kinds
    /\ task[w].pc = "drafted"
    /\ Unlocked
    /\ ConfirmAllowed(task[w].ver)
    /\ doc' = ConfirmedDocument
    /\ signed' = task[w].rev
    /\ Become(w, [Idle EXCEPT !.pc = "confirmed"])
    /\ UNCHANGED <<fields, indexOps, deleteOp, stores, rowLock, bounds, disturbed>>

\* A confirmed document without chunks: the same request resumes the index,
\* all of it under one row lock.
ReplayConfirm(w) ==
    /\ "confirm" \in Kinds
    /\ task[w].pc = "drafted"
    /\ Unlocked
    /\ doc.version = task[w].ver /\ doc.chunks = 0
    /\ IndexRequired(doc.status, doc.hash, doc.chunks)
    /\ OpenIndex(w)
    /\ UNCHANGED <<doc, fields, deleteOp, stores, rowLock, bounds, observers>>

\* session.refresh after the commit: an unlocked copy, and the later SELECT
\* ... FOR UPDATE does not replace the attributes it has loaded.
ReloadConfirmed(w) ==
    /\ task[w].pc = "confirmed"
    /\ IF doc.present
       THEN Become(w, [Idle EXCEPT !.pc = "reloaded", !.st = doc.status,
                                   !.hash = doc.hash, !.chunks = doc.chunks])
       ELSE Finish(w)
    /\ UNCHANGED <<rows, stores, rowLock, bounds, observers>>

ReloadedRequiresIndex(w) == IndexRequired(task[w].st, task[w].hash, task[w].chunks)

StartIndex(w) ==
    /\ task[w].pc = "reloaded"
    /\ Unlocked
    /\ IF ReloadedRequiresIndex(w)
       THEN OpenIndex(w)
       ELSE Finish(w) /\ UNCHANGED indexOps
    /\ UNCHANGED <<doc, fields, deleteOp, stores, rowLock, bounds, observers>>

-----------------------------------------------------------------------------
\* build_final_chunks reads the snapshot file, then the fields give the
\* embedding context; a copy of their revision travels with the chunks.
BuildChunks(w) ==
    /\ task[w].pc = "building"
    /\ doc.present /\ files.snapshot
    /\ Become(w, [task[w] EXCEPT !.pc = "upserting", !.rev = fields.rev])
    /\ UNCHANGED <<rows, stores, rowLock, bounds, observers>>

\* Chunk ids are a function of the document and its snapshot: an upsert
\* replaces what an earlier attempt has written.
UpsertChunks(w) ==
    /\ task[w].pc = "upserting"
    /\ vectors' = {task[w].rev}
    /\ Goto(w, "upserted")
    /\ UNCHANGED <<rows, files, rowLock, bounds, observers>>

\* The row of attempt op as its handler leaves it; a deleted row stays away.
Resolved(op, outcome) ==
    [i \in DOMAIN indexOps |-> IF i = op THEN outcome ELSE indexOps[i]]

IndexedDocument == [doc EXCEPT !.hash = TRUE, !.chunks = Chunks]

\* The success facts: the row is read again, but not its status or version.
FinishIndex(w) ==
    /\ task[w].pc = "upserted"
    /\ Unlocked /\ doc.present
    /\ doc' = IndexedDocument
    /\ indexOps' = Resolved(task[w].op, "SUCCEEDED")
    /\ Finish(w)
    /\ UNCHANGED <<fields, deleteOp, stores, rowLock, bounds, observers>>

\* Any step of the pipeline fails; a failing upsert may have been applied.
IndexFails(w) ==
    /\ task[w].pc \in {"building", "upserting", "upserted"}
    /\ vectors' \in {vectors} \cup
          (IF task[w].pc = "upserting" THEN {{task[w].rev}} ELSE {})
    /\ Goto(w, "index_failing")
    /\ UNCHANGED <<rows, files, rowLock, bounds, observers>>

\* Mutant: the failure is logged and the operation left as it is.
IndexFailureUnrecorded == "RUNNING"
\* The status _mark_index_failed leaves its operation in.
AfterIndexFailure == "FAILED"

MarkIndexFailed(w) ==
    /\ task[w].pc = "index_failing"
    /\ Unlocked
    /\ indexOps' = Resolved(task[w].op, AfterIndexFailure)
    /\ Finish(w)
    /\ UNCHANGED <<doc, fields, deleteOp, stores, rowLock, bounds, observers>>

-----------------------------------------------------------------------------
CancelAllowed(version) ==
    doc.present /\ doc.version = version /\ doc.status = "CONFIRMED"

CancelledDocument ==
    [doc EXCEPT !.status = "PENDING_RECONFIRMATION", !.hash = FALSE,
                !.chunks = 0, !.version = @ + 1]

\* cancel_confirmation: out of the formal scope first ...
Cancel(w) ==
    /\ "cancel" \in Kinds
    /\ task[w].pc = "drafted"
    /\ Unlocked
    /\ CancelAllowed(task[w].ver)
    /\ doc' = CancelledDocument
    /\ Become(w, [Idle EXCEPT !.pc = "cleaning"])
    /\ UNCHANGED <<fields, indexOps, deleteOp, stores, rowLock, bounds, observers>>

\* ... then the vectors, with no lock, operation or recheck of the status.
CleanUpVectors(w) ==
    /\ task[w].pc = "cleaning"
    /\ vectors' = {}
    /\ disturbed' = (disturbed \/ IndexRunning \/ doc.status = "CONFIRMED")
    /\ Finish(w)
    /\ UNCHANGED <<rows, files, rowLock, bounds, signed>>

\* _record_cleanup_failure writes an error summary and nothing a request reads.
CleanUpFails(w) ==
    /\ task[w].pc = "cleaning"
    /\ Finish(w)
    /\ UNCHANGED <<rows, stores, rowLock, bounds, observers>>

FormalRequest(w) == Confirm(w) \/ ReplayConfirm(w) \/ Cancel(w)
FormalStep(w) ==
    \/ ReloadConfirmed(w) \/ StartIndex(w) \/ BuildChunks(w) \/ UpsertChunks(w)
    \/ FinishIndex(w) \/ IndexFails(w) \/ MarkIndexFailed(w)
    \/ CleanUpVectors(w) \/ CleanUpFails(w)
=============================================================================
