--------------------------- MODULE ArchiveParsing ---------------------------
(***************************************************************************)
(* documents.py: the first parse and the retry after PARSE_FAILED.  The     *)
(* handler takes no lock and no operation record: the status is read once,  *)
(* the file is parsed, the snapshot file is written, and only the unique    *)
(* parsed_snapshots.document_id decides whose snapshot row is stored.       *)
(***************************************************************************)
EXTENDS ArchiveRecord

\* parse_project_document / retry_parse_project_document: unlocked status read.
BeginParse(w) ==
    /\ Accept(w, "parse")
    /\ doc.present /\ doc.status \in {"UPLOADED", "PARSE_FAILED"}
    /\ Become(w, [Idle EXCEPT !.pc = "parsing", !.st = doc.status])
    /\ UNCHANGED <<rows, stores, rowLock, observers>>

ParseFile(w) ==
    /\ task[w].pc = "parsing"
    /\ files.original
    /\ Goto(w, "parsed")
    /\ UNCHANGED <<rows, stores, rowLock, bounds, observers>>

\* The ORM writes the status column only when it differs from the value it
\* loaded, so a failing retry leaves a status another request has set.
StatusAfterParseFailure(loaded) ==
    IF loaded = "PARSE_FAILED" THEN doc.status ELSE "PARSE_FAILED"

\* The file cannot be parsed, or is gone: record the failure unconditionally.
ParseFails(w) ==
    /\ task[w].pc = "parsing"
    /\ Unlocked
    /\ doc' = IF doc.present
              THEN [doc EXCEPT !.status = StatusAfterParseFailure(task[w].st)]
              ELSE doc
    /\ Finish(w)
    /\ UNCHANGED <<fields, indexOps, deleteOp, stores, rowLock, bounds, observers>>

WriteSnapshotFile(w) ==
    /\ task[w].pc = "parsed"
    /\ files' = [files EXCEPT !.snapshot = TRUE]
    /\ Goto(w, "snapshot_written")
    /\ UNCHANGED <<rows, vectors, rowLock, bounds, observers>>

\* Foreign key to archive_documents, unique document_id.
SnapshotInsertable == doc.present /\ ~doc.snapshot

CommitSnapshot(w) ==
    /\ task[w].pc = "snapshot_written"
    /\ Unlocked
    /\ SnapshotInsertable
    /\ doc' = [doc EXCEPT !.snapshot = TRUE, !.status = "PARSED"]
    /\ Finish(w)
    /\ UNCHANGED <<fields, indexOps, deleteOp, stores, rowLock, bounds, observers>>

\* The insert is refused, or the write or the commit fails: roll back, and
\* then remove the file at the path every parse of this document writes to.
RollBackSnapshot(w) ==
    /\ task[w].pc = "snapshot_written"
    /\ Goto(w, "unlinking")
    /\ UNCHANGED <<rows, stores, rowLock, bounds, observers>>

UnlinkSnapshotFile(w) ==
    /\ task[w].pc = "unlinking"
    /\ files' = [files EXCEPT !.snapshot = FALSE]
    /\ Finish(w)
    /\ UNCHANGED <<rows, vectors, rowLock, bounds, observers>>

ParseStep(w) ==
    \/ ParseFile(w) \/ ParseFails(w) \/ WriteSnapshotFile(w)
    \/ CommitSnapshot(w) \/ RollBackSnapshot(w) \/ UnlinkSnapshotFile(w)
=============================================================================
