--------------------------- MODULE ProjectManaging ---------------------------
(***************************************************************************)
(* Projects themselves (app/services/project/management.py) and the agent   *)
(* sessions that hang off them (app/services/agent/archive_sessions.py).    *)
(***************************************************************************)
EXTENDS ProjectRecord

\* One transaction writes the knowledge base, the project and the items of
\* the demonstration checklist; the unique name decides a race of two.
CreateProject(w) ==
    /\ Accept(w, "create_project")
    /\ \E p \in Project, n \in Name, demo \in SUBSET Item :
          /\ projects[p].state = "UNUSED" /\ ~NameTaken(n, p)
          /\ \A i \in demo : Fresh(i)
          /\ projects' = [projects EXCEPT ![p] =
                [state |-> "LIVE", name |-> n, version |-> 1, rev |-> 1, count |-> 0]]
          /\ items' = [i \in Item |->
                IF i \in demo THEN [NoItem EXCEPT !.project = p, !.version = 1]
                ELSE items[i]]
    /\ UNCHANGED <<files, links, agent, locks, task, observers>>

\* GET of a project and of its checklist: what the client now has on screen.
OpenProjectPage(w) ==
    /\ \E kind \in {"edit_project", "create_item"} : Accept(w, kind)
    /\ \E p \in {q \in Project : Live(q)} :
          Become(w, [Idle EXCEPT !.pc = "project_page", !.project = p,
                        !.ver = projects[p].version, !.rev = projects[p].rev])
    /\ UNCHANGED <<projects, files, checklist, agent, locks, observers>>

\* The expected version is compared with the row the handler has loaded.
ReadForUpdate(w) ==
    /\ task[w].pc = "project_page" /\ "edit_project" \in Kinds
    /\ LET p == task[w].project
       IN \E n \in Name :
             IF Live(p) /\ projects[p].version = task[w].ver /\ ~NameTaken(n, p)
             THEN Become(w, [task[w] EXCEPT !.pc = "updating", !.name = n])
             ELSE Finish(w)
    /\ UNCHANGED <<projects, files, checklist, agent, locks, bounds, observers>>

\* UPDATE by primary key with the loaded version plus one; it waits for
\* whoever holds the row, and fails on a deleted row or a taken name.
CommitUpdate(w) ==
    /\ task[w].pc = "updating"
    /\ LET p == task[w].project
       IN /\ Unlocked(p)
          /\ IF Live(p) /\ ~NameTaken(task[w].name, p)
             THEN /\ projects' = [projects EXCEPT ![p].name = task[w].name,
                                     ![p].version = task[w].ver + 1, ![p].rev = @ + 1]
                  /\ raced' = IF projects[p].version = task[w].ver
                              THEN raced ELSE raced \cup {p}
             ELSE UNCHANGED <<projects, raced>>
    /\ Finish(w)
    /\ UNCHANGED <<files, checklist, agent, locks, bounds, drifted>>

LeavePage(w) ==
    /\ task[w].pc \in PagePc
    /\ Finish(w)
    /\ UNCHANGED <<projects, files, checklist, agent, locks, bounds, observers>>

\* The session row references the project: its insert waits for the row lock
\* and fails when the project is gone.
OpenSession(w) ==
    /\ Accept(w, "open_session")
    /\ \E p \in Project, s \in Session :
          /\ Live(p) /\ Unlocked(p) /\ sessions[s] = None /\ s \notin threads
          /\ sessions' = [sessions EXCEPT ![s] = p]
    /\ UNCHANGED <<projects, files, checklist, threads, locks, task, observers>>

-----------------------------------------------------------------------------
\* Mutant: documents are looked for without FOR UPDATE on the project.
EmptyUnlocked(p) == Live(p) /\ DocumentsOf(p) = {}
\* The project as delete_empty_project must find it.
EmptyAndFree(p) == Live(p) /\ Free(p) /\ DocumentsOf(p) = {}

\* delete_empty_project locks the row, looks for a document and reads the
\* sessions whose threads it is about to delete.
LockEmpty(w) ==
    /\ Accept(w, "delete_project")
    /\ \E p \in Project :
          /\ EmptyAndFree(p)
          /\ Lock(w, p)
          /\ Become(w, [Idle EXCEPT !.pc = "clearing", !.project = p,
                        !.todo = {s \in Session : sessions[s] = p}])
    /\ UNCHANGED <<projects, files, checklist, agent, loop, observers>>

\* It finds a document on the row it has locked, and raises.
RefuseDeletion(w) ==
    /\ Accept(w, "delete_project")
    /\ \E p \in Project :
          /\ Live(p) /\ Free(p) /\ DocumentsOf(p) # {}
          /\ Lock(w, p)
          /\ Become(w, [Idle EXCEPT !.pc = "refusing", !.project = p])
    /\ UNCHANGED <<projects, files, checklist, agent, loop, observers>>

\* Each thread is deleted in SQLite, outside the transaction.
ClearThread(w) ==
    /\ task[w].pc = "clearing"
    /\ \E s \in task[w].todo :
          /\ threads' = threads \ {s}
          /\ Become(w, [task[w] EXCEPT !.todo = @ \ {s}])
    /\ UNCHANGED <<projects, files, checklist, sessions, locks, bounds, observers>>

\* Logs, sessions, items, audit rows and the project in one commit.
CommitProjectDeletion(w) ==
    /\ task[w].pc = "clearing" /\ task[w].todo = {}
    /\ LET p == task[w].project
       IN /\ projects' = [projects EXCEPT ![p].state = "DELETED", ![p].name = None]
          /\ items' = [i \in Item |-> IF items[i].project = p THEN Gone(items[i]) ELSE items[i]]
          /\ sessions' = [s \in Session |-> IF sessions[s] = p THEN None ELSE sessions[s]]
          /\ Release(p)
    /\ Finish(w)
    /\ UNCHANGED <<files, links, threads, loop, bounds, observers>>

\* SQLite or PostgreSQL fails: rollback, and the threads already deleted stay
\* deleted.
FailProjectDeletion(w) ==
    /\ task[w].pc = "clearing"
    /\ Release(task[w].project)
    /\ Finish(w)
    /\ UNCHANGED <<projects, files, checklist, agent, loop, bounds, observers>>

-----------------------------------------------------------------------------
ManageRequest(w) ==
    \/ CreateProject(w) \/ OpenProjectPage(w) \/ LeavePage(w) \/ ReadForUpdate(w)
    \/ OpenSession(w) \/ LockEmpty(w) \/ RefuseDeletion(w)
ManageStep(w) == CommitUpdate(w) \/ ClearThread(w) \/ CommitProjectDeletion(w)
=============================================================================
