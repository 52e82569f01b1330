-------------------------- MODULE ProjectUploading --------------------------
(***************************************************************************)
(* The documents of a project and its document counter: uploads             *)
(* (app/services/archive/documents.py), the part of a deletion that counts  *)
(* (app/services/archive/deletion.py) and, of what ArchiveLifecycle models  *)
(* in full, the review and the second parse of a document: their commits    *)
(* and the rows they lock.                                                  *)
(*                                                                          *)
(* The upload endpoint is the one async handler that calls PostgreSQL: its  *)
(* blocking calls run on the event loop, and every other handler in a       *)
(* thread of its own.                                                       *)
(***************************************************************************)
EXTENDS ProjectRecord

\* The file is received and hashed before anything is locked.
BeginUpload(w) ==
    /\ Accept(w, "upload")
    /\ \E p \in {q \in Project : Live(q)}, f \in File :
          Become(w, [Idle EXCEPT !.pc = "hashed", !.project = p, !.file = f])
    /\ UNCHANGED <<projects, files, checklist, agent, locks, observers>>

\* SELECT ... FOR UPDATE is sent from the event loop, which stands still until
\* the row is free.
ClaimProject(w) ==
    /\ task[w].pc = "hashed" /\ loop = None
    /\ loop' = w
    /\ Goto(w, "claiming")
    /\ UNCHANGED <<projects, files, checklist, agent, projectLock, bounds, observers>>

\* Mutant: the capacity check reads the project without FOR UPDATE.
ClaimedUnlocked(p) == Live(p)
\* The row as SELECT ... FOR UPDATE returns it.
Claimed(p) == Live(p) /\ Free(p)

\* Capacity and duplicates are judged on the locked row.  A refusal keeps the
\* lock until the session is closed by the dependency, which first yields to
\* the loop; a large file yields while it is read from disk.
JudgeUpload(w) ==
    /\ task[w].pc = "claiming"
    /\ LET p == task[w].project
           f == task[w].file
           refused == projects[p].count >= Limit \/ Stored(<<p, f>>)
       IN \/ /\ ~Live(p)
             /\ loop' = None
             /\ Finish(w)
             /\ UNCHANGED projectLock
          \/ /\ Claimed(p)
             /\ Lock(w, p)
             /\ Become(w, [task[w] EXCEPT !.count = projects[p].count,
                              !.pc = IF refused THEN "refusing" ELSE "saving"])
             /\ loop' = IF refused \/ f \in LargeFile THEN None ELSE w
    /\ UNCHANGED <<projects, files, checklist, agent, bounds, observers>>

SaveOriginal(w) ==
    /\ task[w].pc = "saving" /\ loop \in {None, w}
    /\ originals' = originals \cup {<<task[w].project, task[w].file>>}
    /\ loop' = w
    /\ Goto(w, "saved")
    /\ UNCHANGED <<projects, documents, leftovers, checklist, agent, projectLock,
                   bounds, observers>>

\* The document row, the archive row and the counter in one commit, which
\* frees the project row.
CommitUpload(w) ==
    /\ task[w].pc = "saved"
    /\ LET p == task[w].project
           d == <<p, task[w].file>>
       IN /\ documents' = [documents EXCEPT ![d] =
                [status |-> "DRAFT", version |-> @.version + 1, deletion |-> "NONE"]]
          /\ projects' = [projects EXCEPT ![p].count = task[w].count + 1]
          /\ Release(p)
    /\ loop' = None
    /\ Finish(w)
    /\ UNCHANGED <<originals, leftovers, checklist, agent, bounds, observers>>

\* A clean-up whose unlink fails is logged and given up: the file of a document
\* that will never have a row stays in the upload directory.
CleanedUpOrLeft(d) ==
    \/ UNCHANGED <<leftovers, faults>>
    \/ /\ faults < MaxFaults
       /\ leftovers' = leftovers \cup {d}
       /\ faults' = faults + 1

\* The disk fails: the partial file is cleaned up and the request refused.
FailSave(w) ==
    /\ task[w].pc = "saving" /\ loop \in {None, w}
    /\ CleanedUpOrLeft(<<task[w].project, task[w].file>>)
    /\ loop' = None
    /\ Goto(w, "refusing")
    /\ UNCHANGED <<projects, documents, originals, checklist, agent, projectLock,
                   served, observers>>

\* Mutant: the rollback forgets the file.
KeepSavedFile(d) == originals
\* The file is no longer that of a document about to be stored: unlinked, or
\* one of the leftovers.
CleanUpSavedFile(d) == originals \ {d}

\* The commit fails: rollback, and _cleanup_saved_file.
FailUpload(w) ==
    /\ task[w].pc = "saved"
    /\ LET d == <<task[w].project, task[w].file>>
       IN originals' = CleanUpSavedFile(d) /\ CleanedUpOrLeft(d)
    /\ Release(task[w].project)
    /\ loop' = None
    /\ Finish(w)
    /\ UNCHANGED <<projects, documents, checklist, agent, served, observers>>

-----------------------------------------------------------------------------
\* The deletion of a document up to its last transaction: one at a time (the
\* DELETE operation), vectors and files before any row.
BeginRemoval(w) ==
    /\ Accept(w, "delete_document")
    /\ \E p \in Project, f \in File :
          /\ Stored(<<p, f>>) /\ documents[<<p, f>>].deletion # "RUNNING"
          /\ RowsFree({<<p, f>>})
          /\ documents' = [documents EXCEPT ![<<p, f>>].deletion = "RUNNING"]
          /\ originals' = originals \ {<<p, f>>}
          /\ Become(w, [Idle EXCEPT !.pc = "removing", !.project = p, !.file = f])
    /\ UNCHANGED <<projects, leftovers, checklist, agent, locks, observers>>

\* A step fails and the operation is FAILED: the client may ask again.
FailRemoval(w) ==
    /\ task[w].pc \in {"removing", "uncounting"}
    /\ RowsFree({<<task[w].project, task[w].file>>})
    /\ documents' = [documents EXCEPT ![<<task[w].project, task[w].file>>].deletion = "FAILED"]
    /\ Finish(w)
    /\ UNCHANGED <<projects, originals, leftovers, checklist, agent, locks, bounds,
                   observers>>

\* The last transaction reloads the project, without a lock.
ReadCounter(w) ==
    /\ task[w].pc = "removing"
    /\ Become(w, [task[w] EXCEPT !.pc = "uncounting",
                     !.count = projects[task[w].project].count])
    /\ UNCHANGED <<projects, files, checklist, agent, locks, bounds, observers>>

\* Mutant: the subtraction is not bounded below.
CounterLessOne(read, current) == read - 1
\* max(0, read - 1); a counter read as zero is left out of the UPDATE.
CounterAfterRemoval(read, current) == IF read = 0 THEN current ELSE read - 1

\* Its commit waits for the row and writes what it makes of the counter it
\* has read.
CommitRemoval(w) ==
    /\ task[w].pc = "uncounting"
    /\ LET p == task[w].project
           f == task[w].file
       IN /\ Unlocked(p) /\ RowsFree({<<p, f>>})
          /\ documents' = [documents EXCEPT ![<<p, f>>].status = "NONE",
                              ![<<p, f>>].deletion = "NONE"]
          /\ links' = [l \in Link |-> IF l[1] = <<p, f>> THEN NoLink ELSE links[l]]
          /\ projects' = [projects EXCEPT ![p].count =
                             CounterAfterRemoval(task[w].count, @)]
          /\ drifted' = IF task[w].count = projects[p].count
                        THEN drifted ELSE drifted \cup {p}
    /\ Finish(w)
    /\ UNCHANGED <<originals, leftovers, items, agent, locks, bounds, raced>>

-----------------------------------------------------------------------------
\* Confirmation and cancellation, each one commit on the archive row, with an
\* audit row.
Review(w) ==
    /\ Accept(w, "review")
    /\ \E d \in {e \in Document : Stored(e)} :
          /\ RowsFree({d}) /\ Unlocked(d[1])
          /\ documents' = [documents EXCEPT
                ![d].status = IF @ = "DRAFT" THEN "CONFIRMED" ELSE "DRAFT",
                ![d].version = @ + 1]
    /\ UNCHANGED <<projects, originals, leftovers, checklist, agent, locks, task, observers>>

\* A stale version, or a deletion under way, is found when the archive row has
\* been locked.
RefuseOnDocument(w) ==
    /\ \E d \in {e \in Document : Stored(e)} :
          /\ \/ Accept(w, "review")
             \/ Accept(w, "delete_document") /\ documents[d].deletion = "RUNNING"
          /\ RowsFree({d})
          /\ RefuseKeeping(w, d[1], {d})
    /\ UNCHANGED <<projects, files, checklist, agent, locks, observers>>

\* A document whose parse failed is parsed again; the flush may write the audit
\* row before it updates the archive row.
BeginRetryParse(w) ==
    /\ Accept(w, "retry_parse")
    /\ \E d \in {e \in Document : documents[e].status = "DRAFT"} :
          /\ Unlocked(d[1])
          /\ Become(w, [Idle EXCEPT !.pc = "retrying", !.project = d[1],
                           !.file = d[2], !.rows = {d}])
    /\ UNCHANGED <<projects, files, checklist, agent, locks, observers>>

\* The archive row stays a draft of the same version.
CommitRetryParse(w) ==
    /\ task[w].pc = "retrying" /\ RowsFree(task[w].rows)
    /\ Finish(w)
    /\ UNCHANGED <<projects, files, checklist, agent, locks, bounds, observers>>

-----------------------------------------------------------------------------
UploadRequest(w) ==
    \/ BeginUpload(w) \/ BeginRemoval(w) \/ Review(w) \/ RefuseOnDocument(w)
    \/ BeginRetryParse(w)
UploadStep(w) ==
    \/ ClaimProject(w) \/ JudgeUpload(w) \/ SaveOriginal(w) \/ CommitUpload(w)
    \/ ReadCounter(w) \/ CommitRemoval(w) \/ CommitRetryParse(w)
=============================================================================
