----------------------------- MODULE ProjectLife -----------------------------
(***************************************************************************)
(* Projects, their counted documents and their checklists under any         *)
(* interleaving of the requests of one user, with crashes of the process.   *)
(***************************************************************************)
EXTENDS ProjectManaging, ProjectUploading, ProjectChecklist

\* Nothing yet, or one project with some documents already in it, all drafts or
\* all confirmed and perhaps linked to the one checklist item, and one agent
\* session, which may have been talked to.  No value of Match is special.
Init ==
    \E p \in Project, i \in Item, s \in Session, n \in Name, start \in SUBSET StartFiles,
       live \in BOOLEAN, confirmed \in BOOLEAN, linked \in BOOLEAN, talked \in BOOLEAN :
       /\ (~live \/ talked) => start = {}
       /\ (start = {} => ~confirmed) /\ (linked => confirmed)
       /\ ~live => ~talked
       /\ projects = [q \in Project |->
             [state |-> IF live /\ q = p THEN "LIVE" ELSE "UNUSED",
              name |-> IF live /\ q = p THEN n ELSE None,
              version |-> IF live /\ q = p THEN 2 ELSE 0,
              rev |-> IF live /\ q = p THEN 2 ELSE 0,
              count |-> IF q = p THEN Cardinality(start) ELSE 0]]
       /\ documents = [d \in Document |->
             IF d[1] = p /\ d[2] \in start
             THEN [NoDocument EXCEPT
                      !.status = IF confirmed THEN "CONFIRMED" ELSE "DRAFT",
                      !.version = IF confirmed THEN 2 ELSE 1]
             ELSE NoDocument]
       /\ originals = {p} \X start /\ leftovers = {}
       /\ items = [j \in Item |->
             IF live /\ j = i THEN [NoItem EXCEPT !.project = p, !.version = 1]
             ELSE NoItem]
       /\ links = [l \in Link |->
             IF linked /\ l \in ({p} \X start) \X {i}
             THEN [NoLink EXCEPT !.status = "CONFIRMED"] ELSE NoLink]
       /\ sessions = [t \in Session |-> IF live /\ t = s THEN p ELSE None]
       /\ threads = IF talked THEN {s} ELSE {}
       /\ projectLock = [q \in Project |-> None] /\ loop = None
       /\ task = [w \in Worker |-> Idle]
       /\ served = 0 /\ faults = 0
       /\ drifted = {} /\ raced = {}

Request(w) == ManageRequest(w) \/ UploadRequest(w) \/ ChecklistRequest(w)
Step(w) ==
    \/ ManageStep(w) \/ UploadStep(w) \/ ChecklistStep(w)
    \/ CloseRefused(w) \/ CloseRefusedRows(w)
Failure(w) == FailProjectDeletion(w) \/ FailSave(w) \/ FailUpload(w) \/ FailRemoval(w)

\* The files of the uploads that stand at pc.
UploadsAt(pc) ==
    {<<task[w].project, task[w].file>> : w \in {v \in Worker : task[v].pc = pc}}

\* The process dies with its handlers, transactions and locks; a saved file
\* whose row was not committed stays, and perhaps one that was being written.
Crash ==
    /\ faults < MaxFaults
    /\ \E w \in Worker : Busy(w)
    /\ faults' = faults + 1
    /\ task' = [w \in Worker |-> IF Busy(w) THEN Idle ELSE task[w]]
    /\ projectLock' = [p \in Project |-> None] /\ loop' = None
    /\ originals' = originals \ UploadsAt("saved")
    /\ \E partial \in SUBSET UploadsAt("saving") :
          leftovers' = leftovers \cup UploadsAt("saved") \cup partial
    /\ UNCHANGED <<projects, documents, checklist, agent, served, observers>>

Next ==
    \/ \E w \in Worker : Request(w) \/ Step(w) \/ Failure(w)
    \/ Crash

Spec == Init /\ [][Next]_vars

\* A handler runs on until it answers, unless the loop it needs stands still.
FairSpec == Spec /\ \A w \in Worker : WF_vars(Step(w))

-----------------------------------------------------------------------------
\* Every variable stays in its domain.
TypeOK ==
    /\ projects \in [Project -> ProjectRow]
    /\ documents \in [Document -> DocumentRow]
    /\ originals \in SUBSET Document /\ leftovers \in SUBSET Document
    /\ items \in [Item -> ItemRow]
    /\ links \in [Link -> LinkRow]
    /\ sessions \in [Session -> Project \cup {None}]
    /\ threads \in SUBSET Session
    /\ projectLock \in [Project -> Worker \cup {None}]
    /\ loop \in Worker \cup {None}
    /\ task \in [Worker -> Task]
    /\ served \in Nat /\ faults \in Nat
    /\ drifted \in SUBSET Project /\ raced \in SUBSET (Project \cup Item)

\* The counter that guards the capacity is the number of documents of the
\* project, and that number respects the limit, whatever uploads race at the
\* last free place; only the unlocked read of a deletion may break it.
CapacityKept ==
    \A p \in Project \ drifted :
        /\ projects[p].count = Cardinality(DocumentsOf(p))
        /\ Cardinality(DocumentsOf(p)) <= Limit

\* A deleted project leaves no document, item, link or session behind, even
\* when uploads and creations were under way as it was deleted.
DeletionIsComplete ==
    \A p \in Project : ~Live(p) =>
        /\ DocumentsOf(p) = {} /\ ItemsOf(p) = {}
        /\ \A f \in File, i \in Item : links[<<<<p, f>>, i>>].status = "NONE"
        /\ \A s \in Session : sessions[s] # p

\* Every original file belongs to a stored document or to an upload that is
\* about to store it, or was left by a crash or by a clean-up that failed: no
\* refusal, rollback or deletion leaves one otherwise.  And whatever failed, a
\* stored document has its file until its deletion begins.
OriginalsAccounted ==
    /\ originals \subseteq {d \in Document : Stored(d)} \cup UploadsAt("saved")
    /\ leftovers # {} => faults > 0
    /\ \A d \in Document :
          Stored(d) /\ documents[d].deletion = "NONE" => d \in originals

\* A client whose page carries the current version of the project has its
\* current content on screen, unless two updates from one version raced.
PageIsCurrent ==
    \A w \in Worker :
        (/\ task[w].pc = "project_page"
         /\ Live(task[w].project) /\ projects[task[w].project].version = task[w].ver
         /\ task[w].project \notin raced)
        => projects[task[w].project].rev = task[w].rev

\* Every document that counts for an item was linked by someone who saw the
\* matching fields the item has now, although items change while links are
\* confirmed, unless two updates of the item raced; and no link outlives its
\* item or its document.
FulfilmentIsEarned ==
    /\ \A i \in Item : \A f \in FulfilledBy(i) :
          i \in raced \/ links[<<<<items[i].project, f>>, i>>].basis = items[i].match
    /\ \A l \in Link : links[l].status # "NONE" =>
          items[l[2]].project = l[1][1] /\ Stored(l[1])

\* An upload waits on the event loop for a project row that can only become
\* free on that loop: an upload or a refused request holds the row, or a write
\* shares it that waits for a row which a refused request keeps.
LoopStuck ==
    /\ loop # None /\ task[loop].pc = "claiming"
    /\ LET p == task[loop].project
       IN \/ projectLock[p] # None /\ task[projectLock[p]].pc \in LoopPc
          \/ \E v \in Worker : /\ task[v].pc \in AuditedPc /\ task[v].project = p
                               /\ ~RowsFree(task[v].rows)

\* Every accepted request is answered, or the event loop stands still.
AnsweredUnlessStuck == \A w \in Worker : Busy(w) ~> ~Busy(w) \/ LoopStuck

-----------------------------------------------------------------------------
\* The same client rule as the service states it: an old version never
\* overwrites newer content of the project.
StaleUpdatesConflict ==
    [][\A w \in Worker :
          CommitUpdate(w) /\ projects # projects'
              => task[w].rev = projects[task[w].project].rev]_vars
=============================================================================
