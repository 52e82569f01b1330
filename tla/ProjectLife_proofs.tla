-------------------------- MODULE ProjectLife_proofs --------------------------
(***************************************************************************)
(* What holds of projects, their documents and their checklists for any     *)
(* number of clients, projects, files and items, any limit and any number   *)
(* of requests and crashes.                                                 *)
(***************************************************************************)
EXTENDS ProjectLife, FiniteSetTheorems, TLAPS

USE NoneAssumption, InhabitedAssumption, LimitAssumption, ProjectBoundAssumption

-----------------------------------------------------------------------------
Pc == BusyPc \cup PagePc \cup {"idle"}

LEMMA IdleType == Idle \in Task
BY DEF Idle, Task

\* A handler only ever changes its own record.
LEMMA BecomeType ==
    ASSUME task \in [Worker -> Task], NEW w \in Worker, NEW r \in Task, Become(w, r)
    PROVE  /\ task' \in [Worker -> Task]
           /\ task'[w] = r
           /\ \A v \in Worker \ {w} : task'[v] = task[v]
BY DEF Become

LEMMA FinishType ==
    ASSUME task \in [Worker -> Task], NEW w \in Worker, Finish(w)
    PROVE  /\ task' \in [Worker -> Task]
           /\ task'[w] = Idle
           /\ \A v \in Worker \ {w} : task'[v] = task[v]
BY BecomeType, IdleType DEF Finish

LEMMA GotoType ==
    ASSUME task \in [Worker -> Task], NEW w \in Worker, NEW pc \in Pc, Goto(w, pc)
    PROVE  /\ task' \in [Worker -> Task]
           /\ task'[w] = [task[w] EXCEPT !.pc = pc]
           /\ \A v \in Worker \ {w} : task'[v] = task[v]
BY DEF Goto, Task, Pc

\* The rows a creation starts from.
LEMMA RowTypes ==
    /\ NoItem \in ItemRow /\ NoLink \in LinkRow /\ NoDocument \in DocumentRow
BY IdleType DEF NoItem, NoLink, NoDocument, ItemRow, LinkRow, DocumentRow, Task

\* The rows of a request that is accepted and leaves everything else alone.
LEMMA AcceptType ==
    ASSUME TypeOK, NEW w \in Worker, NEW kind, Accept(w, kind)
    PROVE  served' \in Nat /\ faults' = faults
BY DEF TypeOK, Accept

\* Rows stay rows when some of their columns are written.
LEMMA ProjectRowTypes ==
    ASSUME NEW row \in ProjectRow
    PROVE  /\ \A n \in Name, v \in Nat :
                 [row EXCEPT !.name = n, !.version = v, !.rev = @ + 1] \in ProjectRow
           /\ \A c \in 0 .. Limit : [row EXCEPT !.count = c] \in ProjectRow
           /\ [row EXCEPT !.state = "DELETED", !.name = None] \in ProjectRow
           /\ Grown(row) \in ProjectRow
<1>1. row.version + 1 \in Nat /\ row.rev + 1 \in Nat
  BY DEF ProjectRow
<1>2. \A n \in Name, v \in Nat, u \in Nat :
         [row EXCEPT !.name = n, !.version = v, !.rev = u] \in ProjectRow
  BY DEF ProjectRow
<1>3. \A v \in Nat, u \in Nat : [row EXCEPT !.version = v, !.rev = u] \in ProjectRow
  BY DEF ProjectRow
<1>4. Grown(row) \in ProjectRow
  BY <1>1, <1>3 DEF Grown
<1>5. \A n \in Name, v \in Nat :
         [row EXCEPT !.name = n, !.version = v, !.rev = @ + 1] \in ProjectRow
  BY <1>1, <1>2
<1>6. \A c \in 0 .. Limit : [row EXCEPT !.count = c] \in ProjectRow
  BY DEF ProjectRow
<1>7. [row EXCEPT !.state = "DELETED", !.name = None] \in ProjectRow
  BY DEF ProjectRow
<1> QED
  BY <1>4, <1>5, <1>6, <1>7

LEMMA DocumentRowTypes ==
    ASSUME NEW row \in DocumentRow
    PROVE  /\ \A x \in {"NONE", "RUNNING", "FAILED"} :
                 [row EXCEPT !.deletion = x] \in DocumentRow
           /\ [row EXCEPT !.status = "NONE", !.deletion = "NONE"] \in DocumentRow
           /\ [row EXCEPT !.status = IF @ = "DRAFT" THEN "CONFIRMED" ELSE "DRAFT",
                          !.version = @ + 1] \in DocumentRow
           /\ [status |-> "DRAFT", version |-> row.version + 1, deletion |-> "NONE"]
                 \in DocumentRow
<1>1. row.version + 1 \in Nat
  BY DEF DocumentRow
<1>2. \A s \in {"NONE", "DRAFT", "CONFIRMED"}, v \in Nat :
         [row EXCEPT !.status = s, !.version = v] \in DocumentRow
  BY DEF DocumentRow
<1>3. [row EXCEPT !.status = IF @ = "DRAFT" THEN "CONFIRMED" ELSE "DRAFT",
                  !.version = @ + 1] \in DocumentRow
  BY <1>1, <1>2
<1>4. \A x \in {"NONE", "RUNNING", "FAILED"} : [row EXCEPT !.deletion = x] \in DocumentRow
  BY DEF DocumentRow
<1>5. [row EXCEPT !.status = "NONE", !.deletion = "NONE"] \in DocumentRow
  BY DEF DocumentRow
<1>6. [status |-> "DRAFT", version |-> row.version + 1, deletion |-> "NONE"] \in DocumentRow
  BY <1>1 DEF DocumentRow
<1> QED
  BY <1>3, <1>4, <1>5, <1>6

\* The writes to one document row.
DocumentChanges(d) ==
    /\ \A x \in {"NONE", "RUNNING", "FAILED"} :
          [documents EXCEPT ![d].deletion = x] \in [Document -> DocumentRow]
    /\ [documents EXCEPT ![d].status = "NONE", ![d].deletion = "NONE"]
          \in [Document -> DocumentRow]
    /\ [documents EXCEPT ![d].status = IF @ = "DRAFT" THEN "CONFIRMED" ELSE "DRAFT",
                         ![d].version = @ + 1] \in [Document -> DocumentRow]
    /\ [documents EXCEPT ![d] =
           [status |-> "DRAFT", version |-> @.version + 1, deletion |-> "NONE"]]
          \in [Document -> DocumentRow]

LEMMA DocumentChangeTypes ==
    ASSUME documents \in [Document -> DocumentRow], NEW d \in Document
    PROVE  DocumentChanges(d)
<1> DEFINE row == documents[d]
           with(r) == [documents EXCEPT ![d] = r]
<1>1. row \in DocumentRow /\ \A r \in DocumentRow : with(r) \in [Document -> DocumentRow]
  OBVIOUS
<1>2. \A x \in {"NONE", "RUNNING", "FAILED"} :
         [documents EXCEPT ![d].deletion = x] = with([row EXCEPT !.deletion = x])
  OBVIOUS
<1>3. [documents EXCEPT ![d].status = "NONE", ![d].deletion = "NONE"]
          = with([row EXCEPT !.status = "NONE", !.deletion = "NONE"])
  OBVIOUS
<1>4. [documents EXCEPT ![d].status = IF @ = "DRAFT" THEN "CONFIRMED" ELSE "DRAFT",
                        ![d].version = @ + 1]
          = with([row EXCEPT !.status = IF @ = "DRAFT" THEN "CONFIRMED" ELSE "DRAFT",
                             !.version = @ + 1])
  OBVIOUS
<1>5. [documents EXCEPT ![d] =
           [status |-> "DRAFT", version |-> @.version + 1, deletion |-> "NONE"]]
          = with([status |-> "DRAFT", version |-> row.version + 1, deletion |-> "NONE"])
  OBVIOUS
<1> HIDE DEF row, with
<1> QED
  BY <1>1, <1>2, <1>3, <1>4, <1>5, DocumentRowTypes DEF DocumentChanges

\* What handlers write to their own record.
LEMMA TaskTypes ==
    ASSUME NEW record \in Task
    PROVE  /\ \A n \in Name : [record EXCEPT !.pc = "updating", !.name = n] \in Task
           /\ \A s \in Session : [record EXCEPT !.todo = @ \ {s}] \in Task
           /\ \A c \in 0 .. Limit, pc \in Pc :
                 [record EXCEPT !.count = c, !.pc = pc] \in Task
           /\ \A m \in Match, n \in Match :
                 [record EXCEPT !.pc = "item_updating", !.match = m, !.new = n] \in Task
<1>1. \A n \in Name : [record EXCEPT !.pc = "updating", !.name = n] \in Task
  BY DEF Task, BusyPc
<1>2. \A s \in Session : [record EXCEPT !.todo = @ \ {s}] \in Task
  BY DEF Task
<1>3. \A c \in 0 .. Limit, pc \in Pc : [record EXCEPT !.count = c, !.pc = pc] \in Task
  BY DEF Task, Pc
<1>4. \A m \in Match, n \in Match :
         [record EXCEPT !.pc = "item_updating", !.match = m, !.new = n] \in Task
  BY DEF Task, BusyPc
<1> QED
  BY <1>1, <1>2, <1>3, <1>4

\* The steps of a request that shares a project or keeps a row: they write
\* nothing but its own record.
WaitStep(w) ==
    \/ RefuseOnDocument(w) \/ BeginRetryParse(w) \/ CommitRetryParse(w)
    \/ AuditItemUpdate(w) \/ DeleteItem(w) \/ RefuseLink(w) \/ DeleteLink(w)
    \/ CloseRefusedRows(w)
WaitPc == AuditedPc \cup {"row_refused", "idle"}
OnlyWaits(w) ==
    /\ task' \in [Worker -> Task] /\ task'[w].pc \in WaitPc
    /\ \A v \in Worker \ {w} : task'[v] = task[v]
    /\ task[w].pc \in {"idle", "retrying", "item_updating", "link_page", "row_refused"}
    /\ served' \in Nat
    /\ UNCHANGED <<projects, files, checklist, agent, locks, faults, observers>>

LEMMA WaitSteps ==
    ASSUME TypeOK, NEW w \in Worker, WaitStep(w)
    PROVE  OnlyWaits(w)
<1>0. /\ task \in [Worker -> Task] /\ task[w] \in Task /\ Idle \in Task /\ Idle.pc = "idle"
      /\ task[w].project \in Project /\ task[w].file \in File /\ task[w].item \in Item
      /\ items \in [Item -> ItemRow] /\ served \in Nat
  BY IdleType DEF TypeOK, Task, Idle
<1>1. \A p \in Project, rows \in SUBSET Row :
         LET record == [Idle EXCEPT !.pc = "row_refused", !.project = p, !.rows = rows]
         IN record \in Task /\ record.pc = "row_refused"
  BY <1>0 DEF Task, BusyPc
<1>2. ASSUME NEW r \in Task, r.pc \in WaitPc, Become(w, r)
      PROVE  /\ task' \in [Worker -> Task] /\ task'[w].pc \in WaitPc
             /\ \A v \in Worker \ {w} : task'[v] = task[v]
  BY <1>0, <1>2, BecomeType
<1>3. ASSUME Finish(w)
      PROVE  /\ task' \in [Worker -> Task] /\ task'[w].pc \in WaitPc
             /\ \A v \in Worker \ {w} : task'[v] = task[v]
  BY <1>0, <1>2, <1>3 DEF Finish, WaitPc
<1>4. ASSUME NEW p \in Project, NEW rows \in SUBSET Row, RefuseKeeping(w, p, rows)
      PROVE  /\ task' \in [Worker -> Task] /\ task'[w].pc \in WaitPc
             /\ \A v \in Worker \ {w} : task'[v] = task[v]
  BY <1>1, <1>2, <1>4 DEF RefuseKeeping, WaitPc
<1>5. CASE RefuseOnDocument(w)
  <2>1. PICK d \in Document : RefuseKeeping(w, d[1], {d})
    BY <1>5 DEF RefuseOnDocument
  <2>2. d[1] \in Project /\ {d} \in SUBSET Row
    BY DEF Document, Row
  <2>3. task[w].pc = "idle" /\ served' = served + 1 /\ faults' = faults
    BY <1>5 DEF RefuseOnDocument, Accept
  <2> QED
    BY <1>0, <1>4, <1>5, <2>1, <2>2, <2>3 DEF RefuseOnDocument, OnlyWaits
<1>6. CASE BeginRetryParse(w)
  <2>1. PICK d \in Document :
           Become(w, [Idle EXCEPT !.pc = "retrying", !.project = d[1],
                         !.file = d[2], !.rows = {d}])
    BY <1>6 DEF BeginRetryParse
  <2>2. d[1] \in Project /\ d[2] \in File /\ {d} \in SUBSET Row
    BY DEF Document, Row
  <2> DEFINE record == [Idle EXCEPT !.pc = "retrying", !.project = d[1],
                           !.file = d[2], !.rows = {d}]
  <2>3. record \in Task /\ record.pc \in WaitPc
    BY <1>0, <2>2 DEF Task, BusyPc, AuditedPc, WaitPc
  <2>4. task[w].pc = "idle" /\ served' = served + 1 /\ faults' = faults
    BY <1>6 DEF BeginRetryParse, Accept
  <2>5. Become(w, record)
    BY <2>1
  <2> HIDE DEF record
  <2> QED
    BY <1>0, <1>2, <1>6, <2>3, <2>4, <2>5 DEF BeginRetryParse, OnlyWaits
<1>7. CASE CommitRetryParse(w) \/ CloseRefusedRows(w)
  BY <1>0, <1>3, <1>7 DEF CommitRetryParse, CloseRefusedRows, OnlyWaits, bounds
<1>8. CASE AuditItemUpdate(w)
  <2> DEFINE record == [task[w] EXCEPT !.pc = "item_audited", !.rows = {task[w].item}]
  <2>1. record \in Task /\ record.pc \in WaitPc
    BY <1>0 DEF Task, BusyPc, AuditedPc, WaitPc, Row
  <2> QED
    BY <1>0, <1>2, <1>8, <2>1 DEF AuditItemUpdate, OnlyWaits, bounds
<1>9. CASE DeleteItem(w)
  <2>1. PICK i \in Item :
           /\ items[i].project # None
           /\ Become(w, [Idle EXCEPT !.pc = "item_deleting", !.item = i,
                            !.project = items[i].project, !.rows = {i}])
    BY <1>9 DEF DeleteItem
  <2> DEFINE record == [Idle EXCEPT !.pc = "item_deleting", !.item = i,
                           !.project = items[i].project, !.rows = {i}]
  <2>2. items[i].project \in Project
    BY <1>0, <2>1 DEF ItemRow
  <2>3. record \in Task /\ record.pc \in WaitPc
    BY <1>0, <2>2 DEF Task, BusyPc, AuditedPc, WaitPc, Row
  <2>4. task[w].pc = "idle" /\ served' = served + 1 /\ faults' = faults
    BY <1>9 DEF DeleteItem, Accept
  <2>5. Become(w, record)
    BY <2>1
  <2> HIDE DEF record
  <2> QED
    BY <1>0, <1>2, <1>9, <2>3, <2>4, <2>5 DEF DeleteItem, OnlyWaits
<1>10. CASE RefuseLink(w)
  <2> DEFINE d == <<task[w].project, task[w].file>>
             i == task[w].item
             rows == {e \in {d} : Stored(e)}
                     \cup {j \in {i} : DocumentAsSeen(w) /\ items[j].project # None}
                     \cup {l \in {<<d, i>>} : DocumentAsSeen(w) /\ ItemAsSeen(w)}
  <2>1. rows \in SUBSET Row
    BY <1>0 DEF Row, Document, Link
  <2>2. task[w].pc = "link_page" /\ RefuseKeeping(w, task[w].project, rows)
    BY <1>10 DEF RefuseLink
  <2> HIDE DEF rows
  <2> QED
    BY <1>0, <1>4, <1>10, <2>1, <2>2 DEF RefuseLink, OnlyWaits, bounds
<1>11. CASE DeleteLink(w)
  <2>1. PICK l \in Link :
           Become(w, [Idle EXCEPT !.pc = "link_deleting", !.item = l[2],
                         !.project = l[1][1], !.file = l[1][2], !.rows = {l}])
    BY <1>11 DEF DeleteLink
  <2> DEFINE record == [Idle EXCEPT !.pc = "link_deleting", !.item = l[2],
                           !.project = l[1][1], !.file = l[1][2], !.rows = {l}]
  <2>2. l[2] \in Item /\ l[1][1] \in Project /\ l[1][2] \in File
    BY DEF Link, Document
  <2>3. record \in Task /\ record.pc \in WaitPc
    BY <1>0, <2>2 DEF Task, BusyPc, AuditedPc, WaitPc, Row
  <2>4. task[w].pc = "idle" /\ served' = served + 1 /\ faults' = faults
    BY <1>11 DEF DeleteLink, Accept
  <2>5. Become(w, record)
    BY <2>1
  <2> HIDE DEF record
  <2> QED
    BY <1>0, <1>2, <1>11, <2>3, <2>4, <2>5 DEF DeleteLink, OnlyWaits
<1> QED
  BY <1>5, <1>6, <1>7, <1>8, <1>9, <1>10, <1>11 DEF WaitStep

LEMMA WaitType ==
    ASSUME TypeOK, NEW w \in Worker, OnlyWaits(w)
    PROVE  TypeOK'
BY DEF TypeOK, OnlyWaits, files, checklist, agent, locks, observers

-----------------------------------------------------------------------------
\* The files a project starts with are files, and no more than it may hold.
LEMMA StartFits ==
    ASSUME NEW start \in SUBSET StartFiles
    PROVE  Cardinality(start) \in 0 .. Limit /\ start \subseteq File
<1>1. IsFiniteSet(StartFiles)
  BY StartAssumption, FileAssumption, FS_Subset
<1>2. /\ Cardinality(start) <= Cardinality(StartFiles)
      /\ Cardinality(start) \in Nat /\ Cardinality(StartFiles) \in Nat
  BY <1>1, FS_Subset, FS_CardinalityType
<1> QED
  BY <1>2, StartAssumption

LEMMA TypeInit == Init => TypeOK
<1> SUFFICES ASSUME Init PROVE TypeOK
  OBVIOUS
<1>1. PICK p \in Project, i \in Item, s \in Session, n \in Name,
           start \in SUBSET StartFiles, live \in BOOLEAN, confirmed \in BOOLEAN,
           linked \in BOOLEAN, talked \in BOOLEAN :
           Init!(p, i, s, n, start, live, confirmed, linked, talked)
  BY DEF Init
<1>2. Cardinality(start) \in 0 .. Limit /\ start \subseteq File
  BY StartFits
<1>3. projects \in [Project -> ProjectRow]
  BY <1>1, <1>2 DEF ProjectRow
<1>4. documents \in [Document -> DocumentRow]
  BY <1>1 DEF DocumentRow, NoDocument
<1>5. originals \in SUBSET Document /\ leftovers \in SUBSET Document
  BY <1>1, <1>2 DEF Document
<1>6. items \in [Item -> ItemRow]
  BY <1>1, RowTypes DEF ItemRow
<1>7. links \in [Link -> LinkRow]
  BY <1>1, RowTypes DEF LinkRow
<1> QED
  BY <1>1, <1>3, <1>4, <1>5, <1>6, <1>7, IdleType DEF TypeOK
\* Requests for projects and their sessions.
LEMMA TypeManage ==
    ASSUME TypeOK, NEW w \in Worker,
           ManageRequest(w) \/ ManageStep(w) \/ FailProjectDeletion(w)
    PROVE  TypeOK'
<1> USE DEF TypeOK, files, checklist, agent, locks, observers, bounds
<1>1. CASE CreateProject(w)
  <2>1. PICK p \in Project, n \in Name, demo \in SUBSET Item :
           CreateProject(w)!2!(p, n, demo)
    BY <1>1 DEF CreateProject
  <2>2. projects' \in [Project -> ProjectRow]
    BY <2>1 DEF ProjectRow
  <2>3. items' \in [Item -> ItemRow]
    BY <2>1, RowTypes DEF ItemRow
  <2> QED
    BY <1>1, <2>2, <2>3, AcceptType DEF CreateProject
<1>2. CASE OpenProjectPage(w)
  <2>1. PICK p \in Project :
           Become(w, [Idle EXCEPT !.pc = "project_page", !.project = p,
                         !.ver = projects[p].version, !.rev = projects[p].rev])
    BY <1>2 DEF OpenProjectPage
  <2>2. [Idle EXCEPT !.pc = "project_page", !.project = p,
             !.ver = projects[p].version, !.rev = projects[p].rev] \in Task
    BY IdleType DEF Task, ProjectRow, PagePc
  <2>3. task' \in [Worker -> Task]
    BY <2>1, <2>2, BecomeType
  <2> QED
    BY <1>2, <2>3, AcceptType DEF OpenProjectPage
<1>3. CASE LeavePage(w)
  BY <1>3, FinishType DEF LeavePage
<1>4. CASE ReadForUpdate(w)
  <2>1. task[w] \in Task
    OBVIOUS
  <2>2. task' \in [Worker -> Task]
    BY <1>4, <2>1, TaskTypes, BecomeType, FinishType DEF ReadForUpdate
  <2> QED
    BY <1>4, <2>2 DEF ReadForUpdate
<1>5. CASE OpenSession(w)
  BY <1>5, AcceptType DEF OpenSession
<1>6. CASE LockEmpty(w)
  <2>1. PICK p \in Project :
           /\ Lock(w, p)
           /\ Become(w, [Idle EXCEPT !.pc = "clearing", !.project = p,
                            !.todo = {s \in Session : sessions[s] = p}])
    BY <1>6 DEF LockEmpty
  <2>2. [Idle EXCEPT !.pc = "clearing", !.project = p,
             !.todo = {s \in Session : sessions[s] = p}] \in Task
    BY IdleType DEF Task, BusyPc
  <2>3. task' \in [Worker -> Task]
    BY <2>1, <2>2, BecomeType
  <2> QED
    BY <1>6, <2>1, <2>3, AcceptType DEF LockEmpty, Lock
<1>7. CASE CommitUpdate(w)
  <2> DEFINE p == task[w].project
             row == [projects[p] EXCEPT !.name = task[w].name,
                         !.version = task[w].ver + 1, !.rev = @ + 1]
  <2>1. /\ p \in Project /\ projects[p] \in ProjectRow /\ projects \in [Project -> ProjectRow]
        /\ task[w].name \in Name /\ task[w].ver + 1 \in Nat
    BY DEF Task
  <2>2. row \in ProjectRow
    BY <2>1, ProjectRowTypes
  <2>3. \/ projects' = projects
        \/ projects' = [projects EXCEPT ![p].name = task[w].name,
                            ![p].version = task[w].ver + 1, ![p].rev = @ + 1]
    BY <1>7 DEF CommitUpdate
  <2>4. projects' = projects \/ projects' = [projects EXCEPT ![p] = row]
    BY <2>1, <2>3
  <2>5. projects' \in [Project -> ProjectRow]
    <3> HIDE DEF row, p
    <3> QED
      BY <2>1, <2>2, <2>4
  <2>6. raced' \in SUBSET (Project \cup Item)
    BY <1>7, <2>1 DEF CommitUpdate
  <2> QED
    BY <1>7, <2>5, <2>6, FinishType DEF CommitUpdate
<1>8. CASE ClearThread(w)
  <2>1. task[w] \in Task /\ task[w].todo \subseteq Session
    BY DEF Task
  <2>2. task' \in [Worker -> Task]
    BY <1>8, <2>1, TaskTypes, BecomeType DEF ClearThread
  <2> QED
    BY <1>8, <2>2 DEF ClearThread
<1>9. CASE CommitProjectDeletion(w)
  <2>1. task[w].project \in Project
    BY DEF Task
  <2>2. projects' \in [Project -> ProjectRow]
    BY <1>9, <2>1 DEF CommitProjectDeletion, ProjectRow
  <2>3. items' \in [Item -> ItemRow]
    BY <1>9 DEF CommitProjectDeletion, ItemRow, Gone
  <2> QED
    BY <1>9, <2>1, <2>2, <2>3, FinishType DEF CommitProjectDeletion, Release
<1>10. CASE FailProjectDeletion(w)
  BY <1>10, FinishType DEF FailProjectDeletion, Release
<1>11. CASE RefuseDeletion(w)
  <2>1. PICK p \in Project :
           /\ Lock(w, p)
           /\ Become(w, [Idle EXCEPT !.pc = "refusing", !.project = p])
    BY <1>11 DEF RefuseDeletion
  <2>2. [Idle EXCEPT !.pc = "refusing", !.project = p] \in Task
    BY IdleType DEF Task, BusyPc, UploadPc, LoopPc
  <2>3. task' \in [Worker -> Task]
    BY <2>1, <2>2, BecomeType
  <2> QED
    BY <1>11, <2>1, <2>3, AcceptType DEF RefuseDeletion, Lock
<1> QED
  BY <1>1, <1>2, <1>3, <1>4, <1>5, <1>6, <1>7, <1>8, <1>9, <1>10, <1>11
     DEF ManageRequest, ManageStep

\* Uploads, removals and reviews of documents.
LEMMA TypeUpload ==
    ASSUME TypeOK, NEW w \in Worker,
           task[w].pc = "saved" => task[w].count < Limit,
           \/ UploadRequest(w) \/ UploadStep(w) \/ CloseRefused(w)
           \/ FailSave(w) \/ FailUpload(w) \/ FailRemoval(w)
    PROVE  TypeOK'
<1> USE DEF TypeOK, files, checklist, agent, locks, observers, bounds
<1>0. /\ task[w] \in Task /\ task[w].project \in Project /\ task[w].file \in File
      /\ <<task[w].project, task[w].file>> \in Document
      /\ projects[task[w].project] \in ProjectRow
      /\ documents[<<task[w].project, task[w].file>>] \in DocumentRow
  BY DEF Task, Document
<1> DEFINE p == task[w].project
           d == <<p, task[w].file>>
<1>01. \A c \in 0 .. Limit :
          [projects EXCEPT ![p].count = c] \in [Project -> ProjectRow]
  <2>1. \A c \in 0 .. Limit : [projects[p] EXCEPT !.count = c] \in ProjectRow
    BY <1>0, ProjectRowTypes
  <2> QED
    BY <1>0, <2>1
<1>02. DocumentChanges(d)
  BY <1>0, DocumentChangeTypes
<1>1. CASE BeginUpload(w)
  <2>1. \A q \in Project, f \in File :
           [Idle EXCEPT !.pc = "hashed", !.project = q, !.file = f] \in Task
    BY IdleType DEF Task, BusyPc, UploadPc
  <2>2. task' \in [Worker -> Task]
    BY <1>1, <2>1, BecomeType DEF BeginUpload
  <2> QED
    BY <1>1, <2>2, AcceptType DEF BeginUpload
<1>2. CASE ClaimProject(w)
  BY <1>2, GotoType DEF ClaimProject, Pc, BusyPc, UploadPc, LoopPc
<1>3. CASE JudgeUpload(w)
  <2>1. \A pc \in {"refusing", "saving"} :
           [task[w] EXCEPT !.count = projects[task[w].project].count, !.pc = pc] \in Task
    BY <1>0, TaskTypes DEF Pc, BusyPc, UploadPc, LoopPc, ProjectRow
  <2>2. task' \in [Worker -> Task]
    BY <1>3, <2>1, BecomeType, FinishType DEF JudgeUpload
  <2> QED
    BY <1>3, <2>2 DEF JudgeUpload, Lock
<1>4. CASE SaveOriginal(w)
  BY <1>0, <1>4, GotoType DEF SaveOriginal, Pc, BusyPc, UploadPc, LoopPc
<1>5. CASE CommitUpload(w)
  <2>1. task[w].count + 1 \in 0 .. Limit
    BY <1>5 DEF CommitUpload, Task
  <2>2. projects' \in [Project -> ProjectRow]
    BY <1>01, <1>5, <2>1 DEF CommitUpload
  <2>3. documents' \in [Document -> DocumentRow]
    BY <1>02, <1>5 DEF CommitUpload, DocumentChanges
  <2> QED
    BY <1>0, <1>5, <2>2, <2>3, FinishType DEF CommitUpload, Release
<1>6. CASE FailSave(w)
  <2>1. leftovers' \in SUBSET Document /\ faults' \in Nat
    BY <1>0, <1>6 DEF FailSave, CleanedUpOrLeft
  <2> QED
    BY <1>6, <2>1, GotoType DEF FailSave, Pc, BusyPc, UploadPc, LoopPc
<1>7. CASE FailUpload(w)
  <2>1. leftovers' \in SUBSET Document /\ faults' \in Nat
    BY <1>0, <1>7 DEF FailUpload, CleanedUpOrLeft
  <2> QED
    BY <1>7, <2>1, FinishType DEF FailUpload, Release, CleanUpSavedFile
<1>8. CASE CloseRefused(w)
  BY <1>8, FinishType DEF CloseRefused, HolderAfterClose
<1>9. CASE BeginRemoval(w)
  <2>1. PICK q \in Project, f \in File :
           /\ documents' = [documents EXCEPT ![<<q, f>>].deletion = "RUNNING"]
           /\ originals' = originals \ {<<q, f>>}
           /\ Become(w, [Idle EXCEPT !.pc = "removing", !.project = q, !.file = f])
    BY <1>9 DEF BeginRemoval
  <2>2. [Idle EXCEPT !.pc = "removing", !.project = q, !.file = f] \in Task
    BY IdleType DEF Task, BusyPc
  <2>3. task' \in [Worker -> Task]
    BY <2>1, <2>2, BecomeType
  <2>4. documents' \in [Document -> DocumentRow]
    BY <2>1, DocumentChangeTypes DEF DocumentChanges, Document
  <2> QED
    BY <1>9, <2>1, <2>3, <2>4, AcceptType DEF BeginRemoval
<1>10. CASE FailRemoval(w)
  <2>1. documents' \in [Document -> DocumentRow]
    BY <1>02, <1>10 DEF FailRemoval, DocumentChanges
  <2> QED
    BY <1>10, <2>1, FinishType DEF FailRemoval
<1>11. CASE ReadCounter(w)
  <2>1. [task[w] EXCEPT !.pc = "uncounting",
             !.count = projects[task[w].project].count] \in Task
    BY <1>0 DEF Task, BusyPc, ProjectRow
  <2> QED
    BY <1>11, <2>1, BecomeType DEF ReadCounter
<1>12. CASE CommitRemoval(w)
  <2>1. documents' \in [Document -> DocumentRow]
    BY <1>02, <1>12 DEF CommitRemoval, DocumentChanges
  <2>2. links' \in [Link -> LinkRow]
    BY <1>12, RowTypes DEF CommitRemoval
  <2>3. CounterAfterRemoval(task[w].count, projects[task[w].project].count) \in 0 .. Limit
    BY <1>0 DEF CounterAfterRemoval, Task, ProjectRow
  <2>4. projects' \in [Project -> ProjectRow]
    BY <1>01, <1>12, <2>3 DEF CommitRemoval
  <2>5. drifted' \in SUBSET Project
    BY <1>0, <1>12 DEF CommitRemoval
  <2> QED
    BY <1>12, <2>1, <2>2, <2>4, <2>5, FinishType DEF CommitRemoval
<1>13. CASE Review(w)
  <2>1. PICK e \in Document : documents' = [documents EXCEPT
             ![e].status = IF @ = "DRAFT" THEN "CONFIRMED" ELSE "DRAFT",
             ![e].version = @ + 1]
    BY <1>13 DEF Review
  <2>2. documents' \in [Document -> DocumentRow]
    BY <2>1, DocumentChangeTypes DEF DocumentChanges
  <2> QED
    BY <1>13, <2>2, AcceptType DEF Review
<1>14. CASE RefuseOnDocument(w) \/ BeginRetryParse(w) \/ CommitRetryParse(w)
  BY <1>14, WaitSteps, WaitType DEF WaitStep
<1> QED
  BY <1>1, <1>2, <1>3, <1>4, <1>5, <1>6, <1>7, <1>8, <1>9, <1>10, <1>11, <1>12, <1>13, <1>14
     DEF UploadRequest, UploadStep

\* Items and links.
LEMMA TypeChecklist ==
    ASSUME TypeOK, NEW w \in Worker, ChecklistRequest(w) \/ ChecklistStep(w)
    PROVE  TypeOK'
<1> USE DEF TypeOK, files, checklist, agent, locks, observers, bounds
<1>0. /\ task[w] \in Task /\ task[w].project \in Project /\ task[w].file \in File
      /\ task[w].item \in Item /\ task[w].match \in Match /\ task[w].new \in Match
      /\ task[w].ver \in Nat
  BY DEF Task
<1>1. CASE CreateItem(w)
  <2> DEFINE p == task[w].project
  <2>1. Grown(projects[p]) \in ProjectRow
    BY <1>0, ProjectRowTypes
  <2>2. projects' \in [Project -> ProjectRow]
    BY <1>0, <1>1, <2>1 DEF CreateItem
  <2>3. \A i \in Item, m \in Match :
           [items EXCEPT ![i] = [project |-> p, version |-> 1, match |-> m]]
               \in [Item -> ItemRow]
    BY <1>0 DEF ItemRow
  <2>4. items' \in [Item -> ItemRow]
    BY <1>1, <2>3 DEF CreateItem
  <2> QED
    BY <1>1, <2>2, <2>4, FinishType DEF CreateItem
<1>2. CASE OpenItemPage(w)
  <2>1. PICK i \in {j \in Item : items[j].project # None} :
           Become(w, [Idle EXCEPT !.pc = "item_page", !.item = i,
                         !.project = items[i].project,
                         !.ver = items[i].version, !.match = items[i].match])
    BY <1>2 DEF OpenItemPage
  <2>2. items[i].project \in Project /\ items[i].version \in Nat /\ items[i].match \in Match
    BY DEF ItemRow
  <2>3. [Idle EXCEPT !.pc = "item_page", !.item = i,
             !.project = items[i].project,
             !.ver = items[i].version, !.match = items[i].match] \in Task
    BY <2>2, IdleType DEF Task, PagePc
  <2>4. task' \in [Worker -> Task]
    BY <2>1, <2>3, BecomeType
  <2> QED
    BY <1>2, <2>4, AcceptType DEF OpenItemPage
<1>3. CASE ReadItem(w)
  <2>1. items[task[w].item].match \in Match
    BY <1>0 DEF ItemRow
  <2>2. task' \in [Worker -> Task]
    BY <1>0, <1>3, <2>1, TaskTypes, BecomeType, FinishType DEF ReadItem
  <2> QED
    BY <1>3, <2>2 DEF ReadItem
<1>4. CASE CommitItemDeletion(w)
  <2>1. \A i \in Item : [items EXCEPT ![i] = Gone(@)] \in [Item -> ItemRow]
    BY DEF Gone, ItemRow
  <2>2. items' \in [Item -> ItemRow] /\ links' \in [Link -> LinkRow]
    BY <1>0, <1>4, <2>1, RowTypes DEF CommitItemDeletion
  <2> QED
    BY <1>4, <2>2, FinishType DEF CommitItemDeletion
<1>5. CASE OpenLinkPage(w)
  <2>1. PICK i \in Item, f \in File :
           /\ items[i].project # None
           /\ Become(w, [Idle EXCEPT !.pc = "link_page", !.item = i,
                            !.project = items[i].project, !.file = f,
                            !.ver = items[i].version, !.match = items[i].match,
                            !.dver = documents[<<items[i].project, f>>].version])
    BY <1>5 DEF OpenLinkPage
  <2>2. /\ items[i].project \in Project /\ items[i].version \in Nat /\ items[i].match \in Match
        /\ documents[<<items[i].project, f>>].version \in Nat
    BY <2>1 DEF ItemRow, Document, DocumentRow
  <2>3. [Idle EXCEPT !.pc = "link_page", !.item = i,
             !.project = items[i].project, !.file = f,
             !.ver = items[i].version, !.match = items[i].match,
             !.dver = documents[<<items[i].project, f>>].version] \in Task
    BY <2>2, IdleType DEF Task, PagePc
  <2>4. task' \in [Worker -> Task]
    BY <2>1, <2>3, BecomeType
  <2> QED
    BY <1>5, <2>4, AcceptType DEF OpenLinkPage
<1>6. CASE CreateLink(w)
  <2> DEFINE row == [status |-> "CONFIRMED", basis |-> task[w].match]
  <2>0. row \in LinkRow
    BY <1>0 DEF LinkRow
  <2> HIDE DEF row
  <2>1. links' \in [Link -> LinkRow]
    <3>1. links' = links \/ \E l : links' = [links EXCEPT ![l] = row]
      BY <1>6 DEF CreateLink, row
    <3> QED
      BY <2>0, <3>1
  <2> QED
    BY <1>6, <2>1, FinishType DEF CreateLink
<1>7. CASE CommitLinkDeletion(w)
  <2>1. links' \in [Link -> LinkRow]
    BY <1>7, RowTypes DEF CommitLinkDeletion
  <2> QED
    BY <1>7, <2>1, FinishType DEF CommitLinkDeletion
<1>8. CASE CommitItemUpdate(w)
  <2> DEFINE i == task[w].item
             changed == Rematched(w)
             row == [items[i] EXCEPT !.version = task[w].ver + 1,
                        !.match = IF changed THEN task[w].new ELSE @]
  <2>1. items[i] \in ItemRow /\ task[w].ver + 1 \in Nat
    BY <1>0
  <2>2. row \in ItemRow
    BY <1>0, <2>1 DEF ItemRow
  <2>3. \/ items' = items
        \/ items' = [items EXCEPT ![i].version = task[w].ver + 1,
                        ![i].match = IF changed THEN task[w].new ELSE @]
    BY <1>8 DEF CommitItemUpdate
  <2>4. items' = items \/ items' = [items EXCEPT ![i] = row]
    BY <1>0, <2>3
  <2>5. items' \in [Item -> ItemRow]
    <3> HIDE DEF row, i
    <3> QED
      BY <1>0, <2>2, <2>4 DEF i
  <2>6. Invalidated(i) \in [Link -> LinkRow]
    BY DEF Invalidated, LinkRow
  <2>7. links' \in [Link -> LinkRow] /\ raced' \in SUBSET (Project \cup Item)
    BY <1>0, <1>8, <2>6 DEF CommitItemUpdate
  <2> QED
    BY <1>8, <2>5, <2>7, FinishType DEF CommitItemUpdate
<1>9. CASE AuditItemUpdate(w) \/ DeleteItem(w) \/ RefuseLink(w) \/ DeleteLink(w)
  BY <1>9, WaitSteps, WaitType DEF WaitStep
<1> QED
  BY <1>1, <1>2, <1>3, <1>4, <1>5, <1>6, <1>7, <1>8, <1>9
     DEF ChecklistRequest, ItemRequest, LinkRequest, ChecklistStep

LEMMA TypeCrash == TypeOK /\ Crash => TypeOK'
<1> SUFFICES ASSUME TypeOK, Crash PROVE TypeOK'
  OBVIOUS
<1>1. \A pc : UploadsAt(pc) \in SUBSET Document
  BY DEF TypeOK, Task, UploadsAt, Document
<1>2. originals' \in SUBSET Document /\ leftovers' \in SUBSET Document
  BY <1>1 DEF TypeOK, Crash
<1> QED
  BY <1>2, IdleType DEF TypeOK, Crash, checklist, agent, observers

-----------------------------------------------------------------------------
Target(w) == <<task[w].project, task[w].file>>

\* Who keeps the row of a project FOR UPDATE finds it as he has judged it: an
\* upload its counter and that its document is not there yet, a deletion the
\* project without documents.
HoldPc == {"saving", "saved", "refusing", "clearing"}
Holds(w) ==
    task[w].pc \in HoldPc =>
        /\ projectLock[task[w].project] = w
        /\ Live(task[w].project)
        /\ task[w].pc \in {"saving", "saved"} =>
              /\ ~Stored(Target(w))
              /\ task[w].count = projects[task[w].project].count
              /\ task[w].count < Limit
        /\ task[w].pc = "clearing" => DocumentsOf(task[w].project) = {}
HoldInv == \A w \in Worker : Holds(w)

LEMMA TypeNext ==
    ASSUME TypeOK, HoldInv, [Next]_vars
    PROVE  TypeOK'
<1>1. CASE \E w \in Worker : Request(w) \/ Step(w) \/ Failure(w)
  <2>1. PICK w \in Worker : Request(w) \/ Step(w) \/ Failure(w)
    BY <1>1
  <2>2. task[w].pc = "saved" => task[w].count < Limit
    BY DEF HoldInv, Holds, HoldPc
  <2> QED
    BY <2>1, <2>2, TypeManage, TypeUpload, TypeChecklist, WaitSteps, WaitType
       DEF Request, Step, Failure, WaitStep
<1>2. CASE UNCHANGED vars
  BY <1>2 DEF TypeOK, vars, files, checklist, agent, locks, bounds, observers
<1> QED
  BY <1>1, <1>2, TypeCrash DEF Next

\* What a step leaves as it is for those who keep a row.
Untouched(q) ==
    /\ projectLock'[q] = projectLock[q]
    /\ projects'[q].state = projects[q].state /\ projects'[q].count = projects[q].count
    /\ \A f \in File : documents'[<<q, f>>].status # "NONE" => Stored(<<q, f>>)

HoldKept(w) ==
    /\ \A v \in Worker \ {w} : task'[v] = task[v]
    /\ \A v \in Worker \ {w} : task[v].pc \in HoldPc => Untouched(task[v].project)
    /\ Holds(w)'

LEMMA HoldStep ==
    ASSUME TypeOK, HoldInv, NEW w \in Worker, HoldKept(w)
    PROVE  HoldInv'
<1> SUFFICES ASSUME NEW v \in Worker \ {w} PROVE Holds(v)'
  BY DEF HoldInv, HoldKept
<1> SUFFICES ASSUME task[v].pc \in HoldPc PROVE Holds(v)'
  BY DEF HoldKept, Holds
<1>1. task'[v] = task[v] /\ Untouched(task[v].project) /\ Holds(v)
  BY DEF HoldKept, HoldInv
<1>2. task[v].project \in Project /\ task[v].file \in File
  BY DEF TypeOK, Task
<1> QED
  BY <1>1, <1>2 DEF Holds, Untouched, Live, Target, DocumentsOf, Stored

-----------------------------------------------------------------------------
\* Most steps touch neither locks nor counters nor the presence of documents,
\* and the handler keeps no row after them.
Calm(w) ==
    /\ task[w].pc \notin HoldPc /\ task'[w].pc \notin HoldPc
    /\ \A v \in Worker \ {w} : task'[v] = task[v]
    /\ projectLock' = projectLock /\ drifted' = drifted
    /\ \A q \in Project : /\ projects'[q].state = projects[q].state
                          /\ projects'[q].count = projects[q].count
    /\ \A q \in Project, f \in File : Stored(<<q, f>>)' = Stored(<<q, f>>)
CalmStep(w) ==
    \/ OpenProjectPage(w) \/ LeavePage(w) \/ ReadForUpdate(w) \/ OpenSession(w)
    \/ CommitUpdate(w)
    \/ BeginUpload(w) \/ ClaimProject(w) \/ BeginRemoval(w) \/ FailRemoval(w)
    \/ ReadCounter(w) \/ Review(w) \/ WaitStep(w)
    \/ ChecklistRequest(w) \/ ChecklistStep(w)

\* The record of a handler that has just begun or come to its end.
LEMMA StartedTask ==
    /\ Idle.pc \notin HoldPc
    /\ \A pc \in Pc \ HoldPc : [Idle EXCEPT !.pc = pc].pc \notin HoldPc
BY DEF Idle, HoldPc, Pc

\* The status of an operation says nothing of the presence of the document.
LEMMA DeletionOnly ==
    ASSUME documents \in [Document -> DocumentRow], NEW d \in Document, NEW x,
           documents' = [documents EXCEPT ![d].deletion = x]
    PROVE  \A e \in Document : Stored(e)' = Stored(e)
<1> SUFFICES ASSUME NEW e \in Document PROVE documents'[e].status = documents[e].status
  BY DEF Stored
<1>1. documents[e] \in DocumentRow
  OBVIOUS
<1>2. documents'[e] = documents[e] \/ documents'[e] = [documents[e] EXCEPT !.deletion = x]
  OBVIOUS
<1> QED
  BY <1>1, <1>2 DEF DocumentRow

LEMMA CalmSteps ==
    ASSUME TypeOK, NEW w \in Worker, CalmStep(w)
    PROVE  Calm(w)
<1> USE DEF files, checklist, agent, locks, observers, bounds, Calm, HoldPc, PagePc
<1>0. /\ task \in [Worker -> Task] /\ task[w].project \in Project
      /\ projects \in [Project -> ProjectRow] /\ documents \in [Document -> DocumentRow]
      /\ items \in [Item -> ItemRow]
      /\ Idle \in Task /\ Idle.pc = "idle"
  BY IdleType DEF TypeOK, Task, Idle
<1>1. CASE OpenProjectPage(w)
  BY <1>0, <1>1 DEF OpenProjectPage, Accept, Become, Task, Stored
<1>2. CASE LeavePage(w)
  BY <1>0, <1>2 DEF LeavePage, Finish, Become, Stored
<1>3. CASE ReadForUpdate(w)
  <2>1. \/ \E n \in Name : Become(w, [task[w] EXCEPT !.pc = "updating", !.name = n])
        \/ Become(w, Idle)
    BY <1>3 DEF ReadForUpdate, Finish
  <2>2. \A n \in Name : [task[w] EXCEPT !.pc = "updating", !.name = n].pc = "updating"
    BY <1>0 DEF Task
  <2>3. \A r : Become(w, r) => task'[w] = r /\ \A v \in Worker \ {w} : task'[v] = task[v]
    BY <1>0 DEF Become
  <2>4. task'[w].pc \in {"updating", "idle"} /\ \A v \in Worker \ {w} : task'[v] = task[v]
    BY <1>0, <2>1, <2>2, <2>3
  <2> QED
    BY <1>3, <2>4 DEF ReadForUpdate, Stored
<1>4. CASE OpenSession(w)
  BY <1>0, <1>4 DEF OpenSession, Accept, Stored
<1>5. CASE CommitUpdate(w)
  <2>1. \A q \in Project : /\ projects'[q].state = projects[q].state
                           /\ projects'[q].count = projects[q].count
    BY <1>0, <1>5 DEF CommitUpdate, ProjectRow
  <2> QED
    BY <1>0, <1>5, <2>1 DEF CommitUpdate, Finish, Become, Stored
<1>6. CASE BeginUpload(w)
  BY <1>0, <1>6 DEF BeginUpload, Accept, Become, Task, Stored
<1>7. CASE ClaimProject(w)
  BY <1>0, <1>7 DEF ClaimProject, Goto, Task, Stored
<1>8. CASE BeginRemoval(w)
  <2>1. PICK p \in Project, f \in File :
           /\ documents' = [documents EXCEPT ![<<p, f>>].deletion = "RUNNING"]
           /\ Become(w, [Idle EXCEPT !.pc = "removing", !.project = p, !.file = f])
    BY <1>8 DEF BeginRemoval
  <2>2. \A q \in Project, g \in File : Stored(<<q, g>>)' = Stored(<<q, g>>)
    BY <1>0, <2>1, DeletionOnly DEF Document
  <2>3. task'[w].pc = "removing" /\ \A v \in Worker \ {w} : task'[v] = task[v]
    BY <1>0, <2>1 DEF Become, Task
  <2> QED
    BY <1>8, <2>2, <2>3 DEF BeginRemoval, Accept
<1>9. CASE FailRemoval(w)
  <2>1. \A q \in Project, g \in File : Stored(<<q, g>>)' = Stored(<<q, g>>)
    BY <1>0, <1>9, DeletionOnly DEF FailRemoval, Document, Task
  <2> QED
    BY <1>0, <1>9, <2>1 DEF FailRemoval, Finish, Become
<1>10. CASE ReadCounter(w)
  BY <1>0, <1>10 DEF ReadCounter, Become, Task, Stored
<1>11. CASE Review(w)
  BY <1>0, <1>11 DEF Review, Accept, Stored, Document, DocumentRow
<1>12. CASE CreateItem(w)
  <2>1. \A q \in Project : /\ projects'[q].state = projects[q].state
                           /\ projects'[q].count = projects[q].count
    <3>1. \A q \in Project : /\ Grown(projects[q]).state = projects[q].state
                             /\ Grown(projects[q]).count = projects[q].count
      BY <1>0 DEF Grown, ProjectRow
    <3>2. \/ projects' = projects
          \/ projects' = [projects EXCEPT ![task[w].project] = Grown(projects[task[w].project])]
      BY <1>12 DEF CreateItem
    <3> QED
      BY <1>0, <3>1, <3>2
  <2> QED
    BY <1>0, <1>12, <2>1 DEF CreateItem, Finish, Become, Stored
<1>13. CASE OpenItemPage(w)
  BY <1>0, <1>13 DEF OpenItemPage, Accept, Become, Task, Stored
<1>14. CASE ReadItem(w)
  <2>1. \/ \E a \in Match, b \in Match :
              Become(w, [task[w] EXCEPT !.pc = "item_updating", !.match = a, !.new = b])
        \/ Become(w, Idle)
    <3>1. items[task[w].item].match \in Match
      BY DEF TypeOK, Task, ItemRow
    <3> QED
      BY <1>14, <3>1 DEF ReadItem, Finish
  <2>2. \A a \in Match, b \in Match :
           [task[w] EXCEPT !.pc = "item_updating", !.match = a, !.new = b].pc = "item_updating"
    BY <1>0 DEF Task
  <2>3. \A r : Become(w, r) => task'[w] = r /\ \A v \in Worker \ {w} : task'[v] = task[v]
    BY <1>0 DEF Become
  <2>4. task'[w].pc \in {"item_updating", "idle"} /\ \A v \in Worker \ {w} : task'[v] = task[v]
    <3>1. CASE Become(w, Idle)
      BY <1>0, <2>3, <3>1
    <3>2. CASE ~Become(w, Idle)
      <4>1. PICK a \in Match, b \in Match :
               Become(w, [task[w] EXCEPT !.pc = "item_updating", !.match = a, !.new = b])
        BY <2>1, <3>2
      <4>2. task'[w] = [task[w] EXCEPT !.pc = "item_updating", !.match = a, !.new = b]
        BY <2>3, <4>1
      <4> QED
        BY <2>2, <2>3, <4>1, <4>2
    <3> QED
      BY <3>1, <3>2
  <2> QED
    BY <1>14, <2>4 DEF ReadItem, Stored
<1>15. CASE CommitItemDeletion(w)
  BY <1>0, <1>15 DEF CommitItemDeletion, Finish, Become, Stored
<1>16. CASE OpenLinkPage(w)
  BY <1>0, <1>16 DEF OpenLinkPage, Accept, Become, Task, Stored
<1>17. CASE CreateLink(w)
  BY <1>0, <1>17 DEF CreateLink, Finish, Become, Stored
<1>18. CASE CommitLinkDeletion(w)
  BY <1>0, <1>18 DEF CommitLinkDeletion, Finish, Become, Stored
<1>19. CASE CommitItemUpdate(w)
  <2>1. task[w].pc \in {"item_updating", "item_audited"}
    BY <1>19 DEF CommitItemUpdate
  <2> QED
    BY <1>0, <1>19, <2>1 DEF CommitItemUpdate, Finish, Become, Stored
<1>20. CASE WaitStep(w)
  BY <1>20, WaitSteps DEF OnlyWaits, WaitPc, AuditedPc, Stored
<1> QED
  BY <1>1, <1>2, <1>3, <1>4, <1>5, <1>6, <1>7, <1>8, <1>9, <1>10, <1>11, <1>12,
     <1>13, <1>14, <1>15, <1>16, <1>17, <1>18, <1>19, <1>20
     DEF CalmStep, ChecklistRequest, ItemRequest, LinkRequest, ChecklistStep, WaitStep

-----------------------------------------------------------------------------
\* A step that changes one project, whose row nobody else keeps.
OnlyProject(p) ==
    /\ \A q \in Project \ {p} :
          /\ projectLock'[q] = projectLock[q]
          /\ projects'[q].state = projects[q].state /\ projects'[q].count = projects[q].count
    /\ \A q \in Project \ {p}, f \in File : Stored(<<q, f>>)' => Stored(<<q, f>>)
Others(w) == \A v \in Worker \ {w} : task'[v] = task[v]

LEMMA OneProject ==
    ASSUME TypeOK, HoldInv, NEW w \in Worker, NEW p \in Project, OnlyProject(p), Others(w),
           projectLock[p] \in {None, w} \/ ~Live(p), Holds(w)'
    PROVE  HoldInv'
<1>1. ASSUME NEW v \in Worker \ {w}, task[v].pc \in HoldPc
      PROVE  Untouched(task[v].project)
  <2>1. task[v].project \in Project /\ task[v].project # p
    BY <1>1 DEF HoldInv, Holds, TypeOK, Task
  <2> QED
    BY <2>1 DEF OnlyProject, Untouched, Stored
<1> QED
  BY <1>1, HoldStep DEF HoldKept, Others

LEMMA HoldCalm ==
    ASSUME TypeOK, HoldInv, NEW w \in Worker, Calm(w)
    PROVE  HoldInv'
<1>1. ASSUME NEW v \in Worker \ {w}, task[v].pc \in HoldPc
      PROVE  Untouched(task[v].project)
  BY <1>1 DEF Calm, Untouched, TypeOK, Task, Stored
<1> QED
  BY <1>1, HoldStep DEF HoldKept, Calm, Holds

LEMMA HoldManage ==
    ASSUME TypeOK, HoldInv, NEW w \in Worker,
           \/ CreateProject(w) \/ LockEmpty(w) \/ RefuseDeletion(w) \/ ClearThread(w)
           \/ CommitProjectDeletion(w) \/ FailProjectDeletion(w)
    PROVE  HoldInv'
<1> USE DEF files, checklist, agent, locks, observers, bounds
<1>0. /\ task \in [Worker -> Task] /\ task[w] \in Task /\ task[w].project \in Project
      /\ projects \in [Project -> ProjectRow] /\ projectLock \in [Project -> Worker \cup {None}]
      /\ Idle \in Task /\ Idle.pc \notin HoldPc
  BY IdleType, StartedTask DEF TypeOK, Task
<1>1. CASE CreateProject(w)
  <2>1. PICK p \in Project, n \in Name, demo \in SUBSET Item :
           CreateProject(w)!2!(p, n, demo)
    BY <1>1 DEF CreateProject
  <2>2. ~Live(p)
    BY <2>1 DEF Live
  <2>3. OnlyProject(p)
    BY <1>0, <1>1, <2>1 DEF CreateProject, OnlyProject, Stored
  <2>4. Others(w) /\ task'[w].pc = "idle"
    BY <1>0, <1>1 DEF CreateProject, Accept, Others
  <2>5. Holds(w)'
    BY <2>4 DEF Holds, HoldPc
  <2> QED
    BY <2>2, <2>3, <2>4, <2>5, OneProject
<1>2. CASE LockEmpty(w)
  <2>1. PICK p \in Project : LockEmpty(w)!2!(p)
    BY <1>2 DEF LockEmpty
  <2> DEFINE record == [Idle EXCEPT !.pc = "clearing", !.project = p,
                           !.todo = {s \in Session : sessions[s] = p}]
  <2>2. record.pc = "clearing" /\ record.project = p
    BY <1>0 DEF Task
  <2>3. task'[w] = record /\ Others(w)
    BY <1>0, <2>1 DEF Become, Others
  <2>4. projectLock'[p] = w /\ OnlyProject(p)
    BY <1>0, <1>2, <2>1 DEF LockEmpty, Lock, OnlyProject, Stored
  <2>5. projectLock[p] = None /\ Live(p) /\ DocumentsOf(p) = {}
    BY <2>1 DEF EmptyAndFree, Free, Unlocked
  <2>6. Live(p)' /\ (DocumentsOf(p) = {})'
    BY <1>2, <2>5 DEF LockEmpty, Live, DocumentsOf, Stored
  <2> HIDE DEF record
  <2>7. Holds(w)'
    BY <2>2, <2>3, <2>4, <2>6 DEF Holds
  <2> QED
    BY <2>3, <2>4, <2>5, <2>7, OneProject
<1>3. CASE ClearThread(w)
  <2>1. PICK s \in task[w].todo : Become(w, [task[w] EXCEPT !.todo = @ \ {s}])
    BY <1>3 DEF ClearThread
  <2>2. /\ task'[w].pc = "clearing" /\ task[w].pc = "clearing"
        /\ task'[w].project = task[w].project /\ Others(w)
    BY <1>0, <1>3, <2>1 DEF ClearThread, Become, Task, Others
  <2>3. Holds(w)'
    BY <1>3, <2>2 DEF HoldInv, Holds, HoldPc, ClearThread, Live, DocumentsOf, Stored
  <2>4. OnlyProject(task[w].project) /\ projectLock[task[w].project] = w
    BY <1>3, <2>2 DEF ClearThread, OnlyProject, Stored, HoldInv, Holds, HoldPc
  <2> QED
    BY <1>0, <2>2, <2>3, <2>4, OneProject
<1>4. CASE CommitProjectDeletion(w)
  <2>1. projectLock[task[w].project] = w
    BY <1>4 DEF CommitProjectDeletion, HoldInv, Holds, HoldPc
  <2>2. OnlyProject(task[w].project)
    BY <1>0, <1>4 DEF CommitProjectDeletion, Release, OnlyProject, Stored
  <2>3. Others(w) /\ Holds(w)'
    BY <1>0, <1>4, FinishType DEF CommitProjectDeletion, Others, Holds
  <2> QED
    BY <1>0, <2>1, <2>2, <2>3, OneProject
<1>5. CASE FailProjectDeletion(w)
  <2>1. projectLock[task[w].project] = w
    BY <1>5 DEF FailProjectDeletion, HoldInv, Holds, HoldPc
  <2>2. OnlyProject(task[w].project)
    BY <1>0, <1>5 DEF FailProjectDeletion, Release, OnlyProject, Stored
  <2>3. Others(w) /\ Holds(w)'
    BY <1>0, <1>5, FinishType DEF FailProjectDeletion, Others, Holds
  <2> QED
    BY <1>0, <2>1, <2>2, <2>3, OneProject
<1>6. CASE RefuseDeletion(w)
  <2>1. PICK p \in Project : RefuseDeletion(w)!2!(p)
    BY <1>6 DEF RefuseDeletion
  <2> DEFINE record == [Idle EXCEPT !.pc = "refusing", !.project = p]
  <2>2. record.pc = "refusing" /\ record.project = p
    BY <1>0 DEF Task
  <2>3. task'[w] = record /\ Others(w)
    BY <1>0, <2>1 DEF Become, Others
  <2>4. projectLock'[p] = w /\ OnlyProject(p)
    BY <1>0, <1>6, <2>1 DEF RefuseDeletion, Lock, OnlyProject, Stored
  <2>5. projectLock[p] = None /\ Live(p)
    BY <2>1 DEF Free, Unlocked
  <2>6. Live(p)'
    BY <1>6, <2>5 DEF RefuseDeletion, Live
  <2> HIDE DEF record
  <2>7. Holds(w)'
    BY <2>2, <2>3, <2>4, <2>6 DEF Holds
  <2> QED
    BY <2>3, <2>4, <2>5, <2>7, OneProject
<1> QED
  BY <1>1, <1>2, <1>3, <1>4, <1>5, <1>6

LEMMA HoldUpload ==
    ASSUME TypeOK, HoldInv, NEW w \in Worker,
           \/ JudgeUpload(w) \/ SaveOriginal(w) \/ FailSave(w) \/ CommitUpload(w)
           \/ FailUpload(w) \/ CloseRefused(w) \/ CommitRemoval(w)
    PROVE  HoldInv'
<1> USE DEF files, checklist, agent, locks, observers, bounds
<1> DEFINE p == task[w].project
           d == <<p, task[w].file>>
<1>0. /\ task \in [Worker -> Task] /\ task[w] \in Task /\ p \in Project /\ d \in Document
      /\ projects \in [Project -> ProjectRow] /\ projectLock \in [Project -> Worker \cup {None}]
      /\ documents \in [Document -> DocumentRow]
      /\ Idle \in Task /\ Idle.pc \notin HoldPc
  BY IdleType, StartedTask DEF TypeOK, Task, Document
<1>1. CASE JudgeUpload(w)
  <2>1. CASE ~Live(p)
    <3>1. task'[w].pc \notin HoldPc /\ Others(w)
      BY <1>0, <1>1, <2>1 DEF JudgeUpload, Claimed, Finish, Become, Others
    <3>2. projectLock' = projectLock
      BY <1>1, <2>1 DEF JudgeUpload, Claimed
    <3>3. OnlyProject(p)
      BY <1>1, <3>2 DEF JudgeUpload, OnlyProject, Stored
    <3> QED
      BY <1>0, <2>1, <3>1, <3>3, OneProject DEF Holds
  <2>2. CASE Live(p)
    <3> DEFINE refused == projects[p].count >= Limit \/ Stored(d)
               record == [task[w] EXCEPT !.count = projects[p].count,
                             !.pc = IF refused THEN "refusing" ELSE "saving"]
    <3>1. Unlocked(p) /\ Lock(w, p) /\ Become(w, record)
      BY <1>1, <2>2 DEF JudgeUpload, Claimed, Free
    <3>2. /\ record.project = p /\ record.file = task[w].file
          /\ record.count = projects[p].count
          /\ record.pc = IF refused THEN "refusing" ELSE "saving"
      BY <1>0 DEF Task
    <3>3. task'[w] = record /\ Others(w)
      BY <1>0, <3>1 DEF Become, Others
    <3>4. projectLock'[p] = w /\ projectLock[p] = None /\ OnlyProject(p)
      BY <1>0, <1>1, <3>1 DEF JudgeUpload, Lock, Unlocked, OnlyProject, Stored
    <3>5. projects' = projects /\ documents' = documents
      BY <1>1 DEF JudgeUpload
    <3>6. projects[p].count \in Nat
      BY <1>0 DEF ProjectRow
    <3>7. Holds(w)'
      <4> SUFFICES ASSUME TRUE PROVE
            /\ projectLock'[p] = w
            /\ Live(p)
            /\ ~refused => ~Stored(d) /\ projects[p].count < Limit
        BY <3>2, <3>3, <3>5 DEF Holds, Target, Live, Stored
      <4> QED
        BY <2>2, <3>4, <3>6
    <3> QED
      BY <1>0, <3>3, <3>4, <3>7, OneProject
  <2> QED
    BY <2>1, <2>2
<1>2. CASE SaveOriginal(w) \/ FailSave(w)
  <2>1. /\ task[w].pc = "saving" /\ projectLock' = projectLock
        /\ projects' = projects /\ documents' = documents
        /\ Goto(w, "saved") \/ Goto(w, "refusing")
    BY <1>2 DEF SaveOriginal, FailSave
  <2>2. /\ task'[w].pc \in {"saved", "refusing"} /\ task'[w].project = p
        /\ task'[w].file = task[w].file /\ task'[w].count = task[w].count
        /\ Others(w)
    BY <1>0, <2>1 DEF Goto, Others, Task
  <2>3. Holds(w) /\ projectLock[p] = w
    BY <2>1 DEF HoldInv, Holds, HoldPc
  <2>4. Holds(w)'
    BY <2>1, <2>2, <2>3 DEF Holds, HoldPc, Live, Stored, Target
  <2>5. OnlyProject(p)
    BY <2>1 DEF OnlyProject, Stored
  <2> QED
    BY <1>0, <2>2, <2>3, <2>4, <2>5, OneProject
<1>3. CASE CommitUpload(w) \/ FailUpload(w) \/ CloseRefused(w)
  <2>1. /\ task[w].pc \in {"saved", "refusing"} /\ Finish(w)
        /\ projectLock' = [projectLock EXCEPT ![p] = None]
        /\ projects' = projects \/ projects' = [projects EXCEPT ![p].count = task[w].count + 1]
        /\ documents' = documents \/ \E r : documents' = [documents EXCEPT ![d] = r]
    BY <1>3 DEF CommitUpload, FailUpload, CloseRefused, Release, HolderAfterClose
  <2>2. projectLock[p] = w
    BY <2>1 DEF HoldInv, Holds, HoldPc
  <2>3. Others(w) /\ Holds(w)'
    BY <1>0, <2>1, FinishType DEF Others, Holds
  <2>4. \A q \in Project \ {p}, f \in File : documents'[<<q, f>>] = documents[<<q, f>>]
    BY <1>0, <2>1 DEF Document
  <2>5. OnlyProject(p)
    BY <1>0, <2>1, <2>4 DEF OnlyProject, Stored
  <2> QED
    BY <1>0, <2>2, <2>3, <2>5, OneProject
<1>4. CASE CommitRemoval(w)
  <2>1. projectLock[p] = None
    BY <1>4 DEF CommitRemoval, Unlocked
  <2>2. Others(w) /\ Holds(w)'
    BY <1>0, <1>4, FinishType DEF CommitRemoval, Others, Holds
  <2>3. \A q \in Project \ {p}, f \in File : documents'[<<q, f>>] = documents[<<q, f>>]
    BY <1>0, <1>4 DEF CommitRemoval, Document
  <2>4. OnlyProject(p)
    BY <1>0, <1>4, <2>3 DEF CommitRemoval, OnlyProject, Stored
  <2> QED
    BY <1>0, <2>1, <2>2, <2>4, OneProject
<1> QED
  BY <1>1, <1>2, <1>3, <1>4

\* A crash and the beginning leave nobody in a transaction.
LEMMA HoldCrash == TypeOK /\ Crash => HoldInv'
<1> SUFFICES ASSUME TypeOK, Crash, NEW w \in Worker PROVE task'[w].pc \notin HoldPc
  BY DEF HoldInv, Holds
<1>1. Idle.pc \notin HoldPc /\ HoldPc \subseteq BusyPc
  BY StartedTask DEF HoldPc, BusyPc, UploadPc, LoopPc
<1>2. task'[w] = IF Busy(w) THEN Idle ELSE task[w]
  BY DEF Crash
<1> QED
  BY <1>1, <1>2 DEF Busy

LEMMA HoldInit == Init => HoldInv
BY StartedTask DEF Init, HoldInv, Holds

LEMMA Steps ==
    ASSUME NEW w \in Worker, Request(w) \/ Step(w) \/ Failure(w)
    PROVE  \/ CalmStep(w)
           \/ CreateProject(w) \/ LockEmpty(w) \/ RefuseDeletion(w) \/ ClearThread(w)
           \/ CommitProjectDeletion(w) \/ FailProjectDeletion(w)
           \/ JudgeUpload(w) \/ SaveOriginal(w) \/ FailSave(w) \/ CommitUpload(w)
           \/ FailUpload(w) \/ CloseRefused(w) \/ CommitRemoval(w)
BY DEF Request, Step, Failure, CalmStep, WaitStep, ManageRequest, ManageStep,
       UploadRequest, UploadStep

LEMMA HoldNext ==
    ASSUME TypeOK, HoldInv, [Next]_vars
    PROVE  HoldInv'
<1>1. CASE \E w \in Worker : Request(w) \/ Step(w) \/ Failure(w)
  <2>1. PICK w \in Worker : Request(w) \/ Step(w) \/ Failure(w)
    BY <1>1
  <2>2. CASE CalmStep(w)
    BY <2>2, CalmSteps, HoldCalm
  <2> QED
    BY <2>1, <2>2, Steps, HoldManage, HoldUpload
<1>2. CASE UNCHANGED vars
  BY <1>2 DEF HoldInv, Holds, Live, Stored, Target, DocumentsOf, vars, files, locks
<1> QED
  BY <1>1, <1>2, HoldCrash DEF Next

\* Every row, every record of a request and every lock stays in its domain, and
\* in particular no counter leaves 0 .. Limit, although an upload writes one
\* more than it has read: nobody else can have written the row meanwhile.
THEOREM TypeCorrect == Spec => []TypeOK
<1>1. Init => TypeOK /\ HoldInv
  BY TypeInit, HoldInit
<1>2. TypeOK /\ HoldInv /\ [Next]_vars => (TypeOK /\ HoldInv)'
  BY TypeNext, HoldNext
<1> QED
  BY <1>1, <1>2, PTL DEF Spec

-----------------------------------------------------------------------------
\* A deletion under way owns its document: it is still stored, its operation
\* is RUNNING, and nobody else is deleting it.
RemovePc == {"removing", "uncounting"}
Removes(w) ==
    task[w].pc \in RemovePc =>
        /\ Stored(Target(w)) /\ documents[Target(w)].deletion = "RUNNING"
        /\ \A v \in Worker \ {w} : task[v].pc \in RemovePc => Target(v) # Target(w)
RemoveInv == \A w \in Worker : Removes(w)

\* Where a handler may come to: a deletion is only begun by BeginRemoval, a
\* page only opened by its request.
LEMMA Moves ==
    ASSUME TypeOK, NEW w \in Worker, Request(w) \/ Step(w) \/ Failure(w)
    PROVE  /\ Others(w)
           /\ BeginRemoval(w) \/ ReadCounter(w) \/ task'[w].pc \notin RemovePc
           /\ SaveOriginal(w) \/ task'[w].pc # "saved"
           /\ OpenProjectPage(w) \/ task'[w].pc # "project_page"
           /\ OpenLinkPage(w) \/ task'[w].pc # "link_page"
<1>0. /\ task \in [Worker -> Task] /\ task[w] \in Task
      /\ Idle \in Task /\ Idle.pc = "idle"
  BY IdleType DEF TypeOK, Idle
<1>1. CASE CreateProject(w) \/ OpenSession(w) \/ Review(w)
  BY <1>1 DEF CreateProject, OpenSession, Review, Accept, Others, RemovePc
<1>2. CASE Finish(w)
  BY <1>0, <1>2 DEF Finish, Become, Others, RemovePc
<1>5. CASE OpenProjectPage(w)
  <2>1. task'[w].pc = "project_page" /\ Others(w)
    BY <1>0, <1>5 DEF OpenProjectPage, Become, Task, Others
  <2> QED
    BY <1>5, <2>1 DEF RemovePc
<1>6. CASE ReadForUpdate(w)
  <2>1. \A n \in Name : [task[w] EXCEPT !.pc = "updating", !.name = n].pc = "updating"
    BY <1>0 DEF Task
  <2>2. \/ Finish(w)
        \/ \E n \in Name : Become(w, [task[w] EXCEPT !.pc = "updating", !.name = n])
    BY <1>6 DEF ReadForUpdate
  <2>3. \A r : Become(w, r) => task'[w] = r /\ Others(w)
    BY <1>0 DEF Become, Others
  <2> QED
    BY <1>2, <2>1, <2>2, <2>3 DEF RemovePc
<1>7. CASE LockEmpty(w)
  BY <1>0, <1>7 DEF LockEmpty, Become, Task, Others, RemovePc
<1>8. CASE ClearThread(w)
  BY <1>0, <1>8 DEF ClearThread, Become, Task, Others, RemovePc
<1>9. CASE BeginUpload(w)
  BY <1>0, <1>9 DEF BeginUpload, Become, Task, Others, RemovePc
<1>10. CASE ClaimProject(w) \/ SaveOriginal(w) \/ FailSave(w)
  BY <1>0, <1>10 DEF ClaimProject, SaveOriginal, FailSave, Goto, Task, Others, RemovePc
<1>11. CASE JudgeUpload(w)
  <2>1. \A c, pc : [task[w] EXCEPT !.count = c, !.pc = pc].pc = pc
    BY <1>0 DEF Task
  <2>2. Finish(w) \/ \E c, pc : Become(w, [task[w] EXCEPT !.count = c, !.pc = pc])
                                /\ pc \in {"refusing", "saving"}
    BY <1>11 DEF JudgeUpload
  <2>3. \A r : Become(w, r) => task'[w] = r /\ Others(w)
    BY <1>0 DEF Become, Others
  <2> QED
    BY <1>2, <2>1, <2>2, <2>3 DEF RemovePc
<1>12. CASE BeginRemoval(w)
  <2>1. task'[w].pc = "removing" /\ Others(w)
    BY <1>0, <1>12 DEF BeginRemoval, Become, Task, Others
  <2> QED
    BY <1>12, <2>1 DEF RemovePc
<1>13. CASE ReadCounter(w)
  BY <1>0, <1>13 DEF ReadCounter, Become, Task, Others
<1>14. CASE OpenItemPage(w)
  BY <1>0, <1>14 DEF OpenItemPage, Become, Task, Others, RemovePc
<1>15. CASE OpenLinkPage(w)
  <2>1. task'[w].pc = "link_page" /\ Others(w)
    BY <1>0, <1>15 DEF OpenLinkPage, Become, Task, Others
  <2> QED
    BY <1>15, <2>1 DEF RemovePc
<1>16. CASE ReadItem(w)
  <2>1. \A a, b \in Match :
           [task[w] EXCEPT !.pc = "item_updating", !.match = a, !.new = b].pc = "item_updating"
    BY <1>0 DEF Task
  <2>2. items[task[w].item].match \in Match
    BY <1>0 DEF TypeOK, Task, ItemRow
  <2>3. \/ Finish(w)
        \/ \E a, b \in Match :
              Become(w, [task[w] EXCEPT !.pc = "item_updating", !.match = a, !.new = b])
    BY <1>16, <2>2 DEF ReadItem
  <2>4. \A r : Become(w, r) => task'[w] = r /\ Others(w)
    BY <1>0 DEF Become, Others
  <2>5. CASE ~Finish(w)
    <3>1. PICK a, b \in Match :
             Become(w, [task[w] EXCEPT !.pc = "item_updating", !.match = a, !.new = b])
      BY <2>3, <2>5
    <3>2. task'[w] = [task[w] EXCEPT !.pc = "item_updating", !.match = a, !.new = b]
      BY <2>4, <3>1
    <3>3. task'[w].pc = "item_updating"
      BY <2>1, <3>2
    <3> QED
      BY <2>4, <3>1, <3>3 DEF RemovePc
  <2> QED
    BY <1>2, <2>5
<1>17. CASE \/ LeavePage(w) \/ CommitUpdate(w) \/ CommitProjectDeletion(w)
            \/ FailProjectDeletion(w) \/ CreateItem(w) \/ CreateLink(w)
            \/ CommitItemUpdate(w) \/ CommitItemDeletion(w) \/ CommitLinkDeletion(w)
            \/ CloseRefused(w) \/ CommitUpload(w)
            \/ FailUpload(w) \/ FailRemoval(w) \/ CommitRemoval(w)
  BY <1>2, <1>17 DEF LeavePage, CommitUpdate, CommitProjectDeletion, FailProjectDeletion,
     CreateItem, CreateLink, CommitItemUpdate, CommitItemDeletion, CommitLinkDeletion,
     CloseRefused, CommitUpload, FailUpload, FailRemoval, CommitRemoval
<1>18. CASE WaitStep(w)
  BY <1>18, WaitSteps DEF OnlyWaits, WaitPc, AuditedPc, Others, RemovePc
<1>19. CASE RefuseDeletion(w)
  BY <1>0, <1>19 DEF RefuseDeletion, Become, Task, Others, RemovePc
<1> QED
  BY <1>1, <1>5, <1>6, <1>7, <1>8, <1>9, <1>10, <1>11, <1>12, <1>13, <1>14, <1>15,
     <1>16, <1>17, <1>18, <1>19
     DEF Request, Step, Failure, ManageRequest, UploadRequest, ChecklistRequest,
         ItemRequest, LinkRequest, ManageStep, UploadStep, ChecklistStep, WaitStep

LEMMA RemoveStep ==
    ASSUME TypeOK, RemoveInv, NEW w \in Worker, Others(w), task'[w].pc \notin RemovePc,
           \A d \in Document :
              /\ Stored(d) /\ documents[d].deletion = "RUNNING"
              /\ task[w].pc \in RemovePc => d # Target(w)
              => documents'[d].status # "NONE" /\ documents'[d].deletion = "RUNNING"
    PROVE  RemoveInv'
<1> SUFFICES ASSUME NEW v \in Worker \ {w}, task[v].pc \in RemovePc PROVE Removes(v)'
  BY DEF RemoveInv, Removes, Others
<1>1. /\ Stored(Target(v)) /\ documents[Target(v)].deletion = "RUNNING"
      /\ \A u \in Worker \ {v} : task[u].pc \in RemovePc => Target(u) # Target(v)
  BY DEF RemoveInv, Removes
<1>2. Target(v) \in Document
  BY DEF TypeOK, Task, Target, Document
<1>3. task'[v] = task[v] /\ \A u \in Worker \ {w} : task'[u] = task[u]
  BY DEF Others
<1>4. documents'[Target(v)].status # "NONE" /\ documents'[Target(v)].deletion = "RUNNING"
  BY <1>1, <1>2
<1>5. \A u \in Worker \ {w} : Target(u)' = Target(u)
  BY <1>3 DEF Target
<1> QED
  BY <1>1, <1>3, <1>4, <1>5 DEF Removes, Stored

LEMMA RemoveNext ==
    ASSUME TypeOK, HoldInv, RemoveInv, [Next]_vars
    PROVE  RemoveInv'
<1> USE DEF files, checklist, agent, locks, observers, bounds
<1>1. ASSUME NEW w \in Worker, Request(w) \/ Step(w) \/ Failure(w)
      PROVE  RemoveInv'
  <2>0. /\ task \in [Worker -> Task] /\ task[w] \in Task /\ Target(w) \in Document
        /\ documents \in [Document -> DocumentRow]
    BY DEF TypeOK, Task, Target, Document
  <2>1. Others(w)
    BY <1>1, Moves
  <2>2. CASE BeginRemoval(w)
    <3>1. PICK p \in Project, f \in File : BeginRemoval(w)!2!(p, f)
      BY <2>2 DEF BeginRemoval
    <3> DEFINE d == <<p, f>>
    <3>2. /\ documents'[d].deletion = "RUNNING" /\ documents'[d].status = documents[d].status
          /\ \A e \in Document \ {d} : documents'[e] = documents[e]
      BY <2>0, <3>1 DEF Document, DocumentRow
    <3>3. task'[w].pc = "removing" /\ task'[w].project = p /\ task'[w].file = f
      BY <2>0, <3>1, IdleType DEF Become, Task
    <3>4. Target(w)' = d /\ documents'[d].status # "NONE"
      BY <3>1, <3>2, <3>3 DEF Target, Stored
    <3>5. ASSUME NEW v \in Worker \ {w}, task'[v].pc \in RemovePc
          PROVE  /\ Target(v)' = Target(v) /\ Target(v) # d /\ Target(v) \in Document
                 /\ Stored(Target(v)) /\ documents[Target(v)].deletion = "RUNNING"
                 /\ \A u \in Worker \ {v} : task[u].pc \in RemovePc => Target(u) # Target(v)
      <4>1. task'[v] = task[v]
        BY <2>1 DEF Others
      <4>2. Removes(v)
        BY DEF RemoveInv
      <4> QED
        BY <3>1, <3>5, <4>1, <4>2 DEF Removes, Target, TypeOK, Task, Document
    <3>6. Removes(w)'
      BY <3>2, <3>4, <3>5 DEF Removes, Stored
    <3>7. ASSUME NEW v \in Worker \ {w}, task'[v].pc \in RemovePc
          PROVE  Removes(v)'
      <4>1. documents'[Target(v)] = documents[Target(v)]
        BY <3>2, <3>5, <3>7
      <4>2. \A u \in Worker \ {v} : task'[u].pc \in RemovePc => Target(u)' # Target(v)
        <5> SUFFICES ASSUME NEW u \in Worker \ {v}, task'[u].pc \in RemovePc
                     PROVE  Target(u)' # Target(v)
          OBVIOUS
        <5>1. CASE u = w
          BY <3>4, <3>5, <3>7, <5>1
        <5>2. CASE u # w
          BY <2>1, <3>5, <3>7, <5>2 DEF Others
        <5> QED
          BY <5>1, <5>2
      <4> QED
        BY <3>5, <3>7, <4>1, <4>2 DEF Removes, Stored
    <3> QED
      BY <3>6, <3>7 DEF RemoveInv, Removes
  <2>3. CASE ReadCounter(w)
    <3>1. /\ task'[w].pc \in RemovePc /\ task[w].pc \in RemovePc
          /\ task'[w].project = task[w].project /\ task'[w].file = task[w].file
          /\ documents' = documents
      BY <2>0, <2>3 DEF ReadCounter, Become, Task, RemovePc
    <3>2. \A v \in Worker : Target(v)' = Target(v)
                            /\ (task'[v].pc \in RemovePc <=> task[v].pc \in RemovePc)
      BY <2>1, <3>1 DEF Others, Target
    <3> QED
      BY <3>1, <3>2 DEF RemoveInv, Removes, Stored
  <2>4. CASE ~BeginRemoval(w) /\ ~ReadCounter(w)
    <3>1. task'[w].pc \notin RemovePc
      BY <1>1, <2>4, Moves
    <3>2. CASE CommitUpload(w)
      <4>1. ~Stored(Target(w)) /\ \A d \in Document \ {Target(w)} : documents'[d] = documents[d]
        BY <2>0, <3>2 DEF HoldInv, Holds, HoldPc, CommitUpload, Target
      <4> QED
        BY <2>1, <3>1, <4>1, RemoveStep DEF Stored
    <3>3. CASE FailRemoval(w) \/ CommitRemoval(w)
      <4>1. /\ task[w].pc \in RemovePc
            /\ \A d \in Document \ {Target(w)} : documents'[d] = documents[d]
        BY <2>0, <3>3 DEF FailRemoval, CommitRemoval, Target, RemovePc
      <4> QED
        BY <2>1, <3>1, <4>1, RemoveStep DEF Stored
    <3>4. CASE Review(w)
      <4>1. PICK e \in Document : documents' = [documents EXCEPT
               ![e].status = IF @ = "DRAFT" THEN "CONFIRMED" ELSE "DRAFT",
               ![e].version = @ + 1]
        BY <3>4 DEF Review
      <4>2. \A d \in Document : /\ documents'[d].deletion = documents[d].deletion
                                /\ Stored(d) => documents'[d].status # "NONE"
        BY <2>0, <4>1 DEF DocumentRow, Stored
      <4> QED
        BY <2>1, <3>1, <4>2, RemoveStep DEF Stored
    <3>5. CASE documents' = documents
      BY <2>1, <3>1, <3>5, RemoveStep DEF Stored
    <3>6. \/ documents' = documents \/ WaitStep(w)
          \/ CommitUpload(w) \/ FailRemoval(w) \/ CommitRemoval(w) \/ Review(w)
      BY <1>1, <2>4 DEF WaitStep, Request, Step, Failure, ManageRequest, UploadRequest,
         ChecklistRequest, ItemRequest, LinkRequest, ManageStep, UploadStep, ChecklistStep,
         CreateProject, OpenProjectPage, LeavePage, ReadForUpdate, OpenSession, LockEmpty,
         RefuseDeletion,
         CommitUpdate, ClearThread, CommitProjectDeletion, FailProjectDeletion, BeginUpload,
         ClaimProject, JudgeUpload, SaveOriginal, FailSave, FailUpload, CloseRefused,
         CreateItem, OpenItemPage, ReadItem, CommitItemDeletion, OpenLinkPage, CreateLink,
         CommitLinkDeletion, CommitItemUpdate
    <3>7. WaitStep(w) => documents' = documents
      BY WaitSteps DEF OnlyWaits
    <3> QED
      BY <3>2, <3>3, <3>4, <3>5, <3>6, <3>7
  <2> QED
    BY <2>2, <2>3, <2>4
<1>2. CASE Crash
  <2>1. \A w \in Worker : task'[w].pc \notin RemovePc
    BY <1>2 DEF Crash, Busy, BusyPc, RemovePc, Idle
  <2> QED
    BY <2>1 DEF RemoveInv, Removes
<1>3. CASE UNCHANGED vars
  BY <1>3 DEF RemoveInv, Removes, Stored, Target, vars
<1> QED
  BY <1>1, <1>2, <1>3 DEF Next

LEMMA RemoveInit == Init => RemoveInv
BY DEF Init, RemoveInv, Removes, RemovePc, Idle

-----------------------------------------------------------------------------
\* No link outlives its item or its document, and nothing outlives its project.
LinkInv ==
    \A l \in Link : links[l].status # "NONE" =>
        items[l[2]].project = l[1][1] /\ Stored(l[1])
DeadInv ==
    \A p \in Project : ~Live(p) =>
        /\ DocumentsOf(p) = {} /\ ItemsOf(p) = {}
        /\ \A s \in Session : sessions[s] # p

\* Nobody has changed which projects are live or which documents are there.
SameRows ==
    /\ \A q \in Project : projects'[q].state = projects[q].state
    /\ \A d \in Document : Stored(d)' = Stored(d)

LEMMA SameLive == SameRows => \A q \in Project : /\ Live(q)' = Live(q)
                                                 /\ DocumentsOf(q)' = DocumentsOf(q)
<1> SUFFICES ASSUME SameRows, NEW q \in Project
             PROVE  Live(q)' = Live(q) /\ DocumentsOf(q)' = DocumentsOf(q)
  OBVIOUS
<1>1. Live(q)' = Live(q)
  BY DEF SameRows, Live
<1>2. \A f \in File : Stored(<<q, f>>)' = Stored(<<q, f>>)
  BY DEF SameRows, Document
<1> QED
  BY <1>1, <1>2 DEF DocumentsOf

\* An item keeps its project, or is fresh and joins a live one, or is gone.
ItemMoves ==
    \A i \in Item :
       \/ items'[i].project = items[i].project
       \/ items[i].project = None /\ items'[i].project \in Project
             /\ projects'[items'[i].project].state = "LIVE"
       \/ items'[i].project = None /\ \A l \in Link : l[2] = i => links'[l].status = "NONE"
LinkMoves ==
    \A l \in Link : links'[l].status # "NONE" =>
       \/ links[l].status # "NONE"
       \/ items[l[2]].project = l[1][1] /\ Stored(l[1])
SessionMoves ==
    \A s \in Session :
       \/ sessions'[s] = sessions[s] \/ sessions'[s] = None
       \/ sessions'[s] \in Project /\ projects'[sessions'[s]].state = "LIVE"

LEMMA RowStep ==
    ASSUME TypeOK, LinkInv, DeadInv, SameRows, ItemMoves, LinkMoves, SessionMoves
    PROVE  LinkInv' /\ DeadInv'
<1>1. LinkInv'
  <2> SUFFICES ASSUME NEW l \in Link, links'[l].status # "NONE"
               PROVE  items'[l[2]].project = l[1][1] /\ Stored(l[1])'
    BY DEF LinkInv
  <2>1. l[2] \in Item /\ l[1] \in Document /\ l[1][1] \in Project
    BY DEF Link, Document
  <2>2. items[l[2]].project = l[1][1] /\ Stored(l[1])
    BY DEF LinkMoves, LinkInv
  <2>3. items'[l[2]].project = items[l[2]].project
    BY <2>1, <2>2 DEF ItemMoves
  <2> QED
    BY <2>1, <2>2, <2>3 DEF SameRows
<1>2. DeadInv'
  <2> SUFFICES ASSUME NEW q \in Project, ~Live(q)'
               PROVE  /\ DocumentsOf(q)' = {}
                      /\ \A i \in Item : items'[i].project # q
                      /\ \A s \in Session : sessions'[s] # q
    BY DEF DeadInv, ItemsOf
  <2>1. ~Live(q) /\ DocumentsOf(q)' = DocumentsOf(q) /\ projects'[q].state # "LIVE"
    BY SameLive DEF Live
  <2>2. /\ DocumentsOf(q) = {} /\ \A i \in Item : items[i].project # q
        /\ \A s \in Session : sessions[s] # q
    BY <2>1 DEF DeadInv, ItemsOf
  <2> QED
    BY <2>1, <2>2 DEF ItemMoves, SessionMoves
<1> QED
  BY <1>1, <1>2

\* The steps that only touch items, links and sessions.
LEMMA RowCalm ==
    ASSUME TypeOK, LinkInv, DeadInv, NEW w \in Worker, CalmStep(w)
    PROVE  LinkInv' /\ DeadInv'
<1> USE DEF files, checklist, agent, locks, observers, bounds
<1>0. /\ task[w] \in Task /\ task[w].project \in Project /\ task[w].item \in Item
      /\ task[w].file \in File /\ <<task[w].project, task[w].file>> \in Document
      /\ items \in [Item -> ItemRow] /\ links \in [Link -> LinkRow]
      /\ sessions \in [Session -> Project \cup {None}]
      /\ projects \in [Project -> ProjectRow]
  BY DEF TypeOK, Task, Document
<1>1. SameRows
  BY CalmSteps DEF Calm, SameRows, Document
<1>2. CASE OpenSession(w)
  <2>1. ItemMoves /\ LinkMoves
    BY <1>2 DEF OpenSession, ItemMoves, LinkMoves
  <2>2. SessionMoves
    BY <1>0, <1>2 DEF OpenSession, SessionMoves, Live
  <2> QED
    BY <1>1, <2>1, <2>2, RowStep
<1>3. CASE CreateItem(w)
  <2>1. SessionMoves /\ LinkMoves
    BY <1>3 DEF CreateItem, SessionMoves, LinkMoves
  <2>2. items' = items
        \/ /\ Live(task[w].project)
           /\ \E i \in Item, m \in Match :
                 /\ items[i] = NoItem
                 /\ items' = [items EXCEPT ![i] =
                                 [project |-> task[w].project, version |-> 1, match |-> m]]
    BY <1>3 DEF CreateItem, Fresh
  <2>3. ItemMoves
    BY <1>0, <1>1, <2>2 DEF ItemMoves, SameRows, Live, NoItem
  <2> QED
    BY <1>1, <2>1, <2>3, RowStep
<1>4. CASE CommitItemDeletion(w)
  <2>1. SessionMoves
    BY <1>4 DEF CommitItemDeletion, SessionMoves
  <2>2. LinkMoves
    BY <1>0, <1>4 DEF CommitItemDeletion, LinkMoves, NoLink
  <2>3. PICK i \in Item :
           /\ items' = [items EXCEPT ![i] = Gone(@)]
           /\ links' = [l \in Link |-> IF l[2] = i THEN NoLink ELSE links[l]]
    BY <1>0, <1>4 DEF CommitItemDeletion
  <2>4. ItemMoves
    BY <1>0, <2>3 DEF ItemMoves, Gone, ItemRow, NoLink
  <2> QED
    BY <1>1, <2>1, <2>2, <2>4, RowStep
<1>5. CASE CreateLink(w)
  <2>1. SessionMoves /\ ItemMoves
    BY <1>5 DEF CreateLink, SessionMoves, ItemMoves
  <2>2. LinkMoves
    <3> DEFINE d == <<task[w].project, task[w].file>>
               i == task[w].item
    <3>1. \/ links' = links
          \/ /\ documents[d].status = "CONFIRMED" /\ items[i].project = task[w].project
             /\ \E r : links' = [links EXCEPT ![<<d, i>>] = r]
      BY <1>5 DEF CreateLink, Linkable, DocumentAsSeen, ItemAsSeen
    <3> QED
      BY <1>0, <3>1 DEF LinkMoves, Stored, Link
  <2> QED
    BY <1>1, <2>1, <2>2, RowStep
<1>6. CASE CommitLinkDeletion(w)
  <2>1. SessionMoves /\ ItemMoves
    BY <1>6 DEF CommitLinkDeletion, SessionMoves, ItemMoves
  <2>2. LinkMoves
    BY <1>0, <1>6 DEF CommitLinkDeletion, LinkMoves, NoLink
  <2> QED
    BY <1>1, <2>1, <2>2, RowStep
<1>7. CASE CommitItemUpdate(w)
  <2>1. SessionMoves
    BY <1>7 DEF CommitItemUpdate, SessionMoves
  <2>2. links' = links \/ links' = Invalidated(task[w].item)
    BY <1>7 DEF CommitItemUpdate
  <2>3. LinkMoves
    BY <1>0, <2>2 DEF LinkMoves, Invalidated, LinkRow
  <2>4. \A i \in Item : items'[i].project = items[i].project
    BY <1>0, <1>7 DEF CommitItemUpdate, ItemRow
  <2> QED
    BY <1>1, <2>1, <2>3, <2>4, RowStep DEF ItemMoves
<1>8. CASE items' = items /\ links' = links /\ sessions' = sessions
  <2>1. SessionMoves /\ ItemMoves /\ LinkMoves
    BY <1>8 DEF SessionMoves, ItemMoves, LinkMoves
  <2> QED
    BY <1>1, <2>1, RowStep
<1>9. CASE WaitStep(w)
  BY <1>8, <1>9, WaitSteps DEF OnlyWaits
<1> QED
  BY <1>2, <1>3, <1>4, <1>5, <1>6, <1>7, <1>8, <1>9
     DEF WaitStep, CalmStep, OpenProjectPage, LeavePage, ReadForUpdate, CommitUpdate, BeginUpload,
         ClaimProject, BeginRemoval, FailRemoval, ReadCounter, Review,
         ChecklistRequest, ItemRequest, LinkRequest, ChecklistStep, OpenItemPage,
         ReadItem, OpenLinkPage

\* The steps that create and delete a project or a document.
LEMMA RowDeep ==
    ASSUME TypeOK, HoldInv, RemoveInv, LinkInv, DeadInv, NEW w \in Worker,
           \/ CreateProject(w) \/ CommitProjectDeletion(w)
           \/ CommitUpload(w) \/ CommitRemoval(w)
    PROVE  LinkInv' /\ DeadInv'
<1> USE DEF files, checklist, agent, locks, observers, bounds
<1>0. /\ task[w] \in Task /\ task[w].project \in Project /\ Target(w) \in Document
      /\ items \in [Item -> ItemRow] /\ links \in [Link -> LinkRow]
      /\ sessions \in [Session -> Project \cup {None}]
      /\ projects \in [Project -> ProjectRow]
      /\ documents \in [Document -> DocumentRow]
  BY DEF TypeOK, Task, Document, Target
<1>1. \A l \in Link : l[1] \in Document /\ l[2] \in Item /\ l[1][1] \in Project
                      /\ l[1][2] \in File /\ l[1] = <<l[1][1], l[1][2]>>
  BY DEF Link, Document
<1>2. CASE CreateProject(w)
  <2>1. PICK p \in Project, n \in Name, demo \in SUBSET Item :
           CreateProject(w)!2!(p, n, demo)
    BY <1>2 DEF CreateProject
  <2>2. /\ documents' = documents /\ links' = links /\ sessions' = sessions
        /\ \A q \in Project \ {p} : Live(q)' = Live(q)
        /\ Live(p)'
    BY <1>0, <1>2, <2>1 DEF CreateProject, Live
  <2>3. \A i \in Item : \/ items'[i] = items[i]
                        \/ i \in demo /\ items'[i].project = p /\ items[i].project = None
    BY <1>0, <2>1 DEF Fresh, NoItem
  <2>4. LinkInv'
    <3> SUFFICES ASSUME NEW l \in Link, links[l].status # "NONE"
                 PROVE  items'[l[2]].project = l[1][1] /\ documents'[l[1]].status # "NONE"
      BY <2>2 DEF LinkInv, Stored
    <3>1. items[l[2]].project = l[1][1] /\ documents[l[1]].status # "NONE"
      BY DEF LinkInv, Stored
    <3> QED
      BY <1>1, <2>2, <2>3, <3>1
  <2>5. DeadInv'
    <3> SUFFICES ASSUME NEW q \in Project, ~Live(q)'
                 PROVE  /\ DocumentsOf(q)' = {} /\ \A i \in Item : items'[i].project # q
                        /\ \A s \in Session : sessions'[s] # q
      BY DEF DeadInv, ItemsOf
    <3>1. q # p /\ ~Live(q)
      BY <2>2
    <3>2. /\ DocumentsOf(q) = {} /\ \A i \in Item : items[i].project # q
          /\ \A s \in Session : sessions[s] # q
      BY <3>1 DEF DeadInv, ItemsOf
    <3> QED
      BY <2>2, <2>3, <3>1, <3>2 DEF DocumentsOf, Stored
  <2> QED
    BY <2>4, <2>5
<1>3. CASE CommitProjectDeletion(w)
  <2> DEFINE p == task[w].project
  <2>1. /\ documents' = documents /\ links' = links
        /\ \A q \in Project \ {p} : projects'[q] = projects[q]
        /\ \A s \in Session : sessions'[s] = IF sessions[s] = p THEN None ELSE sessions[s]
        /\ \A i \in Item : items'[i] = IF items[i].project = p THEN Gone(items[i]) ELSE items[i]
    BY <1>0, <1>3 DEF CommitProjectDeletion
  <2>2. DocumentsOf(p) = {}
    BY <1>3 DEF CommitProjectDeletion, HoldInv, Holds, HoldPc
  <2>3. \A i \in Item : Gone(items[i]).project = None
    BY <1>0 DEF Gone, ItemRow
  <2>4. LinkInv'
    <3> SUFFICES ASSUME NEW l \in Link, links[l].status # "NONE"
                 PROVE  items'[l[2]].project = l[1][1] /\ documents'[l[1]].status # "NONE"
      BY <2>1 DEF LinkInv, Stored
    <3>1. items[l[2]].project = l[1][1] /\ documents[l[1]].status # "NONE"
      BY DEF LinkInv, Stored
    <3>2. l[1][1] # p
      BY <1>1, <2>2, <3>1 DEF DocumentsOf, Stored
    <3> QED
      BY <1>1, <2>1, <3>1, <3>2
  <2>5. DeadInv'
    <3> SUFFICES ASSUME NEW q \in Project, ~Live(q)'
                 PROVE  /\ DocumentsOf(q)' = {} /\ \A i \in Item : items'[i].project # q
                        /\ \A s \in Session : sessions'[s] # q
      BY DEF DeadInv, ItemsOf
    <3>1. q # p => ~Live(q)
      BY <2>1 DEF Live
    <3>2. DocumentsOf(q) = {}
      BY <2>2, <3>1 DEF DeadInv
    <3>3. q # p => /\ \A i \in Item : items[i].project # q
                   /\ \A s \in Session : sessions[s] # q
      BY <3>1 DEF DeadInv, ItemsOf
    <3> QED
      BY <2>1, <2>3, <3>2, <3>3 DEF DocumentsOf, Stored
  <2> QED
    BY <2>4, <2>5
<1>4. CASE CommitUpload(w)
  <2>1. /\ items' = items /\ links' = links /\ sessions' = sessions
        /\ \A d \in Document \ {Target(w)} : documents'[d] = documents[d]
        /\ documents'[Target(w)].status = "DRAFT"
        /\ \A q \in Project : projects'[q].state = projects[q].state
    BY <1>0, <1>4 DEF CommitUpload, Target, ProjectRow
  <2>2. Live(task[w].project)
    BY <1>4 DEF CommitUpload, HoldInv, Holds, HoldPc
  <2>3. LinkInv'
    BY <1>1, <2>1 DEF LinkInv, Stored
  <2>4. DeadInv'
    <3> SUFFICES ASSUME NEW q \in Project, ~Live(q)'
                 PROVE  /\ DocumentsOf(q)' = {} /\ \A i \in Item : items'[i].project # q
                        /\ \A s \in Session : sessions'[s] # q
      BY DEF DeadInv, ItemsOf
    <3>1. ~Live(q)
      BY <2>1 DEF Live
    <3>2. \A f \in File : documents'[<<q, f>>] = documents[<<q, f>>]
      BY <2>1, <2>2, <3>1 DEF Document, Target
    <3> QED
      BY <2>1, <3>1, <3>2 DEF DeadInv, ItemsOf, DocumentsOf, Stored
  <2> QED
    BY <2>3, <2>4
<1>5. CASE CommitRemoval(w)
  <2>1. /\ items' = items /\ sessions' = sessions
        /\ \A d \in Document \ {Target(w)} : documents'[d] = documents[d]
        /\ \A l \in Link : links'[l] = IF l[1] = Target(w) THEN NoLink ELSE links[l]
        /\ \A q \in Project : projects'[q].state = projects[q].state
    BY <1>0, <1>5 DEF CommitRemoval, Target, ProjectRow
  <2>2. documents'[Target(w)].status = "NONE"
    BY <1>0, <1>5 DEF CommitRemoval, Target, DocumentRow
  <2>3. LinkInv'
    BY <1>1, <2>1 DEF LinkInv, Stored, NoLink
  <2>4. DeadInv'
    BY <2>1, <2>2 DEF DeadInv, DocumentsOf, Stored, ItemsOf, Live, Document
  <2> QED
    BY <2>3, <2>4
<1> QED
  BY <1>2, <1>3, <1>4, <1>5

LEMMA RowNext ==
    ASSUME TypeOK, HoldInv, RemoveInv, LinkInv, DeadInv, [Next]_vars
    PROVE  LinkInv' /\ DeadInv'
<1> USE DEF files, checklist, agent, locks, observers, bounds
<1>1. CASE UNCHANGED <<projects, documents, items, links, sessions>>
  BY <1>1 DEF LinkInv, DeadInv, DocumentsOf, ItemsOf, Stored, Live
<1>2. CASE \E w \in Worker : Request(w) \/ Step(w) \/ Failure(w)
  <2>1. PICK w \in Worker : Request(w) \/ Step(w) \/ Failure(w)
    BY <1>2
  <2>2. CASE \/ LockEmpty(w) \/ RefuseDeletion(w) \/ ClearThread(w)
             \/ FailProjectDeletion(w) \/ JudgeUpload(w) \/ SaveOriginal(w)
             \/ FailSave(w) \/ FailUpload(w) \/ CloseRefused(w)
    BY <1>1, <2>2 DEF LockEmpty, RefuseDeletion, ClearThread, FailProjectDeletion, JudgeUpload,
       SaveOriginal, FailSave, FailUpload, CloseRefused
  <2> QED
    BY <2>1, <2>2, Steps, RowCalm, RowDeep
<1> QED
  BY <1>1, <1>2 DEF Next, Crash, vars

LEMMA RowInit == Init => LinkInv /\ DeadInv
<1> SUFFICES ASSUME Init PROVE LinkInv /\ DeadInv
  OBVIOUS
<1>1. PICK p \in Project, i \in Item, s \in Session, n \in Name,
           start \in SUBSET StartFiles, live \in BOOLEAN, confirmed \in BOOLEAN,
           linked \in BOOLEAN, talked \in BOOLEAN :
           Init!(p, i, s, n, start, live, confirmed, linked, talked)
  BY DEF Init
<1>2. \A d \in Document : Stored(d) => d[1] = p /\ d[2] \in start /\ live
  BY <1>1 DEF Stored, NoDocument
<1>3. LinkInv
  <2> SUFFICES ASSUME NEW l \in Link, links[l].status # "NONE"
               PROVE  items[l[2]].project = l[1][1] /\ Stored(l[1])
    BY DEF LinkInv
  <2>1. linked /\ l \in ({p} \X start) \X {i}
    BY <1>1 DEF NoLink
  <2>2. l[1] \in Document /\ l[1][1] = p /\ l[1][2] \in start /\ l[2] = i /\ live
    BY <1>1, <2>1 DEF Link
  <2>3. items[i].project = p
    BY <1>1, <2>2 DEF NoItem
  <2>4. Stored(l[1])
    BY <1>1, <2>2 DEF Stored, NoDocument
  <2> QED
    BY <2>2, <2>3, <2>4
<1>4. DeadInv
  BY <1>1, <1>2, NoneAssumption DEF DeadInv, Live, DocumentsOf, ItemsOf, NoItem, Document
<1> QED
  BY <1>3, <1>4

-----------------------------------------------------------------------------
\* The counter counts.
CountInv == \A p \in Project \ drifted : projects[p].count = Cardinality(DocumentsOf(p))

LEMMA CountNext ==
    ASSUME TypeOK, HoldInv, RemoveInv, DeadInv, CountInv, [Next]_vars
    PROVE  CountInv'
<1> USE DEF files, checklist, agent, locks, observers, bounds
<1>0. \A q \in Project : IsFiniteSet(DocumentsOf(q)) /\ Cardinality(DocumentsOf(q)) \in Nat
  <2> SUFFICES ASSUME NEW q \in Project
               PROVE  IsFiniteSet(DocumentsOf(q)) /\ Cardinality(DocumentsOf(q)) \in Nat
    OBVIOUS
  <2>1. DocumentsOf(q) \in SUBSET File
    BY DEF DocumentsOf
  <2> QED
    BY <2>1, FileAssumption, FS_Subset, FS_CardinalityType
<1>1. ASSUME drifted' = drifted, SameRows,
             \A q \in Project : projects'[q].count = projects[q].count
      PROVE  CountInv'
  BY <1>1, SameLive DEF CountInv
<1>2. ASSUME NEW w \in Worker, CreateProject(w)
      PROVE  CountInv'
  <2>1. PICK p \in Project, n \in Name, demo \in SUBSET Item :
           CreateProject(w)!2!(p, n, demo)
    BY <1>2 DEF CreateProject
  <2>2. /\ documents' = documents /\ drifted' = drifted /\ projects'[p].count = 0
        /\ \A q \in Project \ {p} : projects'[q] = projects[q]
    BY <1>2, <2>1 DEF CreateProject, TypeOK
  <2>3. DocumentsOf(p) = {}
    BY <2>1 DEF DeadInv, Live
  <2>4. \A q \in Project : DocumentsOf(q)' = DocumentsOf(q)
    BY <2>2 DEF DocumentsOf, Stored
  <2> QED
    BY <2>2, <2>3, <2>4, FS_EmptySet DEF CountInv
<1>3. ASSUME NEW w \in Worker, CommitUpload(w) \/ CommitRemoval(w)
      PROVE  CountInv'
  <2> DEFINE p == task[w].project
             f == task[w].file
  <2>0. /\ projects \in [Project -> ProjectRow] /\ p \in Project /\ f \in File
        /\ projects[p].count \in Nat /\ task[w].count \in Nat
        /\ documents \in [Document -> DocumentRow]
    BY DEF TypeOK, Task, ProjectRow
  <2>1. \A d \in Document \ {Target(w)} : documents'[d] = documents[d]
    BY <1>3, <2>0 DEF CommitUpload, CommitRemoval, Target
  <2>2. \A q \in Project \ {p} : projects'[q] = projects[q] /\ DocumentsOf(q)' = DocumentsOf(q)
    BY <1>3, <2>0, <2>1 DEF CommitUpload, CommitRemoval, DocumentsOf, Stored, Target, Document
  <2>3. \A g \in File \ {f} : documents'[<<p, g>>] = documents[<<p, g>>]
    BY <2>0, <2>1 DEF Target, Document
  <2> DEFINE after == {g \in File : documents'[<<p, g>>].status # "NONE"}
  <2>4. \A q \in Project : q = p => DocumentsOf(q)' = after
    BY DEF DocumentsOf, Stored
  <2>5. CASE CommitUpload(w)
    <3>1. f \notin DocumentsOf(p) /\ task[w].count = projects[p].count
      BY <2>5 DEF CommitUpload, HoldInv, Holds, HoldPc, Target, DocumentsOf
    <3>2. documents'[<<p, f>>].status = "DRAFT"
      BY <2>0, <2>5 DEF CommitUpload, Document
    <3>3. after = DocumentsOf(p) \cup {f}
      BY <2>0, <2>3, <3>2 DEF DocumentsOf, Stored
    <3>4. projects'[p].count = projects[p].count + 1 /\ drifted' = drifted
      BY <2>0, <2>5, <3>1 DEF CommitUpload, ProjectRow
    <3>5. Cardinality(after) = Cardinality(DocumentsOf(p)) + 1
      BY <1>0, <2>0, <3>1, <3>3, FS_AddElement
    <3> HIDE DEF after, p, f
    <3> QED
      BY <2>0, <2>2, <2>4, <3>4, <3>5 DEF CountInv
  <2>6. CASE CommitRemoval(w)
    <3>1. f \in DocumentsOf(p)
      BY <2>0, <2>6 DEF CommitRemoval, RemoveInv, Removes, RemovePc, Target, DocumentsOf
    <3>2. documents'[<<p, f>>].status = "NONE"
      BY <2>0, <2>6 DEF CommitRemoval, Document, DocumentRow
    <3>3. after = DocumentsOf(p) \ {f}
      BY <2>0, <2>3, <3>2 DEF DocumentsOf, Stored
    <3>4. Cardinality(after) = Cardinality(DocumentsOf(p)) - 1
      <4>1. IsFiniteSet(DocumentsOf(p))
        BY <1>0, <2>0
      <4> HIDE DEF p, f, after
      <4>2. Cardinality(DocumentsOf(p) \ {f}) = Cardinality(DocumentsOf(p)) - 1
        BY <3>1, <4>1, FS_RemoveElement
      <4> QED
        BY <3>3, <4>2
    <3>5. DocumentsOf(p) # {} => Cardinality(DocumentsOf(p)) # 0
      BY <1>0, <2>0, FS_EmptySet
    <3>6. /\ projects'[p].count = CounterAfterRemoval(task[w].count, projects[p].count)
          /\ drifted' = IF task[w].count = projects[p].count THEN drifted ELSE drifted \cup {p}
      BY <2>0, <2>6 DEF CommitRemoval, ProjectRow
    <3>7. p \notin drifted' => Cardinality(after) = projects'[p].count
      BY <1>0, <2>0, <3>1, <3>4, <3>5, <3>6 DEF CountInv, CounterAfterRemoval
    <3>8. drifted \subseteq drifted'
      BY <3>6
    <3> HIDE DEF after, p, f
    <3> QED
      BY <2>0, <2>2, <2>4, <3>7, <3>8 DEF CountInv
  <2> QED
    BY <1>3, <2>5, <2>6
<1>4. ASSUME NEW w \in Worker, CalmStep(w)
      PROVE  CountInv'
  BY <1>1, <1>4, CalmSteps DEF Calm, SameRows, Document
<1>5. ASSUME NEW w \in Worker, CommitProjectDeletion(w)
      PROVE  CountInv'
  <2>1. /\ documents' = documents /\ drifted' = drifted
        /\ \A q \in Project : projects'[q].count = projects[q].count
    BY <1>5 DEF CommitProjectDeletion, TypeOK, ProjectRow
  <2> QED
    BY <2>1 DEF CountInv, DocumentsOf, Stored
<1>6. CASE UNCHANGED <<projects, documents, drifted>>
  BY <1>6 DEF CountInv, DocumentsOf, Stored
<1>7. CASE \E w \in Worker : Request(w) \/ Step(w) \/ Failure(w)
  <2>1. PICK w \in Worker : Request(w) \/ Step(w) \/ Failure(w)
    BY <1>7
  <2>2. CASE \/ LockEmpty(w) \/ RefuseDeletion(w) \/ ClearThread(w)
             \/ FailProjectDeletion(w) \/ JudgeUpload(w) \/ SaveOriginal(w)
             \/ FailSave(w) \/ FailUpload(w) \/ CloseRefused(w)
    BY <1>6, <2>2 DEF LockEmpty, RefuseDeletion, ClearThread, FailProjectDeletion, JudgeUpload,
       SaveOriginal, FailSave, FailUpload, CloseRefused
  <2> QED
    BY <1>2, <1>3, <1>4, <1>5, <2>1, <2>2, Steps
<1> QED
  BY <1>6, <1>7 DEF Next, Crash, vars

LEMMA CountInit == Init => CountInv
<1> SUFFICES ASSUME Init, NEW q \in Project
             PROVE  projects[q].count = Cardinality(DocumentsOf(q))
  BY DEF CountInv
<1>1. PICK p \in Project, i \in Item, s \in Session, n \in Name,
           start \in SUBSET StartFiles, live \in BOOLEAN, confirmed \in BOOLEAN,
           linked \in BOOLEAN, talked \in BOOLEAN :
           Init!(p, i, s, n, start, live, confirmed, linked, talked)
  BY DEF Init
<1>2. projects[q].count = IF q = p THEN Cardinality(start) ELSE 0
  BY <1>1
<1>3. DocumentsOf(q) = IF q = p THEN start ELSE {}
  BY <1>1, StartFits DEF DocumentsOf, Stored, Document, NoDocument
<1> QED
  BY <1>2, <1>3, FS_EmptySet

-----------------------------------------------------------------------------
LifeInv == TypeOK /\ HoldInv /\ RemoveInv /\ LinkInv /\ DeadInv /\ CountInv

LEMMA LifeHolds == Spec => []LifeInv
<1>1. Init => LifeInv
  BY TypeInit, HoldInit, RemoveInit, RowInit, CountInit DEF LifeInv
<1>2. LifeInv /\ [Next]_vars => LifeInv'
  BY TypeNext, HoldNext, RemoveNext, RowNext, CountNext DEF LifeInv
<1> QED
  BY <1>1, <1>2, PTL DEF Spec

\* The counter of a project whose counter no deletion has written from a stale
\* read is the number of its documents, and stays within the limit: an upload
\* adds one to the value it has judged under the lock, and a deletion takes one
\* away for a document that nobody else is deleting.
THEOREM CounterCounts == Spec => []CapacityKept
<1>1. LifeInv => CapacityKept
  BY DEF LifeInv, TypeOK, CountInv, CapacityKept, ProjectRow
<1> QED
  BY <1>1, LifeHolds, PTL

\* A project that is not live has no document, item, link or session, since
\* whoever adds one must see it live, and whoever deletes it holds its row from
\* the moment it was found empty to the commit.
THEOREM NothingIsLeftBehind == Spec => []DeletionIsComplete
<1>1. LifeInv => DeletionIsComplete
  BY DEF LifeInv, DeletionIsComplete, LinkInv, DeadInv, DocumentsOf, Link, Document
<1> QED
  BY <1>1, LifeHolds, PTL

-----------------------------------------------------------------------------
\* An original belongs to a stored document or to the upload that has saved it,
\* and what is left over was left by a fault; a deletion under way has removed
\* its own.
OriginalInv ==
    /\ faults = 0 => leftovers = {}
    /\ \A d \in originals :
          Stored(d) \/ \E w \in Worker : task[w].pc = "saved" /\ Target(w) = d
    /\ \A d \in Document : Stored(d) /\ documents[d].deletion = "NONE" => d \in originals
    /\ \A w \in Worker : task[w].pc = "saved" => Target(w) \in originals
    /\ \A w \in Worker : task[w].pc \in RemovePc => Target(w) \notin originals

\* Two uploads that have saved their files are for different projects.
LEMMA SavedAlone ==
    ASSUME HoldInv, NEW w \in Worker, NEW v \in Worker,
           task[w].pc = "saved", task[v].pc = "saved", Target(v) = Target(w)
    PROVE  v = w
BY DEF HoldInv, Holds, HoldPc, Target

LEMMA OriginalStep ==
    ASSUME TypeOK, HoldInv, RemoveInv, OriginalInv, NEW w \in Worker,
           Request(w) \/ Step(w) \/ Failure(w)
    PROVE  OriginalInv'
<1> USE DEF files, checklist, agent, locks, observers, bounds
<1>0. /\ task \in [Worker -> Task] /\ task[w] \in Task
      /\ \A v \in Worker : Target(v) \in Document
      /\ documents \in [Document -> DocumentRow] /\ originals \subseteq Document
  BY DEF TypeOK, Task, Target, Document
<1>00. faults' = 0 => faults = 0 /\ leftovers' = leftovers
  <2>1. CASE FailSave(w) \/ FailUpload(w)
    BY <2>1 DEF FailSave, FailUpload, CleanedUpOrLeft, TypeOK
  <2>2. CASE WaitStep(w)
    BY <2>2, WaitSteps DEF OnlyWaits
  <2>3. CASE faults' = faults /\ leftovers' = leftovers
    BY <2>3
  <2>4. \/ FailSave(w) \/ FailUpload(w) \/ WaitStep(w)
        \/ faults' = faults /\ leftovers' = leftovers
    BY DEF WaitStep, Request, Step, Failure, ManageRequest, UploadRequest,
       ChecklistRequest, ItemRequest, LinkRequest, ManageStep, UploadStep, ChecklistStep,
       CreateProject, OpenProjectPage, LeavePage, ReadForUpdate, OpenSession, LockEmpty,
       RefuseDeletion, CommitUpdate, ClearThread, CommitProjectDeletion,
       FailProjectDeletion, BeginUpload, ClaimProject, JudgeUpload, SaveOriginal,
       CommitUpload, CloseRefused, BeginRemoval, FailRemoval, ReadCounter, CommitRemoval,
       Review, CreateItem, OpenItemPage, ReadItem, CommitItemDeletion, OpenLinkPage,
       CreateLink, CommitLinkDeletion, CommitItemUpdate, Accept
  <2> QED
    BY <2>1, <2>2, <2>3, <2>4
<1>01. Finish(w) => task'[w].pc \notin RemovePc /\ task'[w].pc # "saved"
  <2>1. Idle.pc = "idle"
    BY DEF Idle
  <2> QED
    BY <1>0, <2>1, FinishType DEF RemovePc
<1>1. /\ \A v \in Worker \ {w} : Target(v)' = Target(v) /\ task'[v].pc = task[v].pc
      /\ BeginRemoval(w) \/ ReadCounter(w) \/ task'[w].pc \notin RemovePc
      /\ SaveOriginal(w) \/ task'[w].pc # "saved"
  BY Moves DEF Others, Target
<1>2. \A v \in Worker : /\ task[v].pc = "saved" => ~Stored(Target(v))
                        /\ task[v].pc \in RemovePc => Stored(Target(v))
  BY DEF HoldInv, Holds, HoldPc, RemoveInv, Removes
<1>3. "saved" \notin RemovePc
  BY DEF RemovePc
<1>4. CASE CommitUpload(w)
  <2>1. /\ task[w].pc = "saved" /\ originals' = originals
        /\ documents'[Target(w)].status = "DRAFT"
        /\ \A d \in Document \ {Target(w)} : documents'[d] = documents[d]
    BY <1>0, <1>4 DEF CommitUpload, Target
  <2>2. task'[w].pc \notin RemovePc /\ task'[w].pc # "saved"
    BY <1>01, <1>4 DEF CommitUpload
  <2> QED
    BY <1>0, <1>00, <1>1, <2>1, <2>2 DEF OriginalInv, Stored
<1>5. CASE FailUpload(w)
  <2>1. /\ task[w].pc = "saved" /\ originals' = originals \ {Target(w)}
        /\ documents' = documents
    BY <1>5 DEF FailUpload, CleanUpSavedFile, Target
  <2>2. task'[w].pc \notin RemovePc /\ task'[w].pc # "saved"
    BY <1>01, <1>5 DEF FailUpload
  <2>3. \A v \in Worker \ {w} : task[v].pc = "saved" => Target(v) # Target(w)
    BY <2>1, SavedAlone
  <2> QED
    BY <1>0, <1>00, <1>1, <1>2, <2>1, <2>2, <2>3 DEF OriginalInv, Stored
<1>6. CASE SaveOriginal(w)
  <2>1. /\ task[w].pc = "saving" /\ originals' = originals \cup {Target(w)}
        /\ documents' = documents
    BY <1>6 DEF SaveOriginal, Target
  <2>2. task'[w].pc = "saved" /\ Target(w)' = Target(w)
    BY <1>0, <1>6 DEF SaveOriginal, Goto, Task, Target
  <2>3. ~Stored(Target(w))
    BY <2>1 DEF HoldInv, Holds, HoldPc
  <2> QED
    BY <1>0, <1>00, <1>1, <1>2, <1>3, <2>1, <2>2, <2>3 DEF OriginalInv, Stored
<1>7. CASE BeginRemoval(w)
  <2>1. PICK p \in Project, f \in File : BeginRemoval(w)!2!(p, f)
    BY <1>7 DEF BeginRemoval
  <2> DEFINE d == <<p, f>>
  <2>2. /\ documents'[d].deletion = "RUNNING"
        /\ \A e \in Document : documents'[e].status = documents[e].status
        /\ \A e \in Document \ {d} : documents'[e] = documents[e]
    BY <1>0, <2>1 DEF Document, DocumentRow
  <2>3. /\ task[w].pc = "idle" /\ task'[w].pc = "removing" /\ Target(w)' = d
        /\ d \in Document /\ Stored(d)
        /\ originals' = originals \ {d}
    BY <1>0, <1>7, <2>1, IdleType DEF BeginRemoval, Accept, Become, Task, Target, Document
  <2> HIDE DEF d
  <2> QED
    BY <1>0, <1>00, <1>1, <1>2, <2>2, <2>3 DEF OriginalInv, Stored
<1>8. CASE ReadCounter(w)
  <2>1. /\ task'[w].pc \in RemovePc /\ task[w].pc \in RemovePc
        /\ documents' = documents /\ originals' = originals
    BY <1>0, <1>8 DEF ReadCounter, Become, Task, RemovePc
  <2>2. Target(w)' = Target(w)
    BY <1>0, <1>8 DEF ReadCounter, Become, Task, Target
  <2> QED
    BY <1>0, <1>00, <1>1, <1>3, <2>1, <2>2 DEF OriginalInv, Stored
<1>9. CASE FailRemoval(w) \/ CommitRemoval(w)
  <2>1. /\ task[w].pc \in RemovePc /\ originals' = originals
        /\ \A e \in Document \ {Target(w)} : documents'[e] = documents[e]
        /\ \/ documents'[Target(w)].status = "NONE"
           \/ documents'[Target(w)].deletion = "FAILED"
    BY <1>0, <1>9 DEF FailRemoval, CommitRemoval, Target, RemovePc, DocumentRow
  <2>2. task'[w].pc \notin RemovePc /\ task'[w].pc # "saved"
    BY <1>01, <1>9 DEF FailRemoval, CommitRemoval
  <2> QED
    BY <1>0, <1>00, <1>1, <1>3, <2>1, <2>2 DEF OriginalInv, Stored
<1>10. CASE Review(w)
  <2>1. PICK e \in Document :
           /\ Stored(e)
           /\ documents' = [documents EXCEPT
                 ![e].status = IF @ = "DRAFT" THEN "CONFIRMED" ELSE "DRAFT",
                 ![e].version = @ + 1]
    BY <1>10 DEF Review
  <2>2. \A d \in Document : /\ documents'[d].deletion = documents[d].deletion
                            /\ Stored(d) <=> documents'[d].status # "NONE"
    BY <1>0, <2>1 DEF DocumentRow, Stored
  <2>3. /\ task' = task /\ originals' = originals
        /\ task[w].pc = "idle"
    BY <1>10 DEF Review, Accept
  <2> QED
    BY <1>0, <1>00, <1>1, <2>2, <2>3 DEF OriginalInv, Stored, RemovePc
<1>11. CASE /\ documents' = documents /\ originals' = originals
            /\ task[w].pc # "saved"
            /\ task'[w].pc \notin RemovePc /\ task'[w].pc # "saved"
  BY <1>0, <1>00, <1>1, <1>11 DEF OriginalInv, Stored
<1>12. \/ CommitUpload(w) \/ FailUpload(w) \/ SaveOriginal(w) \/ BeginRemoval(w)
       \/ ReadCounter(w) \/ FailRemoval(w) \/ CommitRemoval(w) \/ Review(w)
       \/ WaitStep(w)
       \/ /\ documents' = documents /\ originals' = originals
          /\ task[w].pc # "saved"
  BY DEF WaitStep, Request, Step, Failure, ManageRequest, UploadRequest,
     ChecklistRequest, ItemRequest, LinkRequest, ManageStep, UploadStep, ChecklistStep,
     CreateProject, OpenProjectPage, LeavePage, ReadForUpdate, OpenSession, LockEmpty,
     RefuseDeletion, CommitUpdate, ClearThread, CommitProjectDeletion, FailProjectDeletion, BeginUpload,
     ClaimProject, JudgeUpload, FailSave, CloseRefused,
     CreateItem, OpenItemPage, ReadItem, CommitItemDeletion, OpenLinkPage, CreateLink,
     CommitLinkDeletion, CommitItemUpdate, Accept, PagePc
<1>13. WaitStep(w) => /\ documents' = documents /\ originals' = originals
                      /\ task[w].pc # "saved"
  BY WaitSteps DEF OnlyWaits
<1> QED
  BY <1>1, <1>4, <1>5, <1>6, <1>7, <1>8, <1>9, <1>10, <1>11, <1>12, <1>13

LEMMA OriginalNext ==
    ASSUME TypeOK, HoldInv, RemoveInv, OriginalInv, [Next]_vars
    PROVE  OriginalInv'
<1>1. CASE Crash
  <2>1. /\ documents' = documents /\ faults' # 0
        /\ originals' = originals \ UploadsAt("saved")
    BY <1>1 DEF Crash, TypeOK
  <2>2. \A w \in Worker : task'[w].pc \notin RemovePc /\ task'[w].pc # "saved"
    BY <1>1 DEF Crash, Busy, BusyPc, UploadPc, LoopPc, RemovePc, Idle
  <2>3. \A d \in UploadsAt("saved") : ~Stored(d)
    BY DEF UploadsAt, HoldInv, Holds, HoldPc, Target
  <2>4. \A w \in Worker : task[w].pc = "saved" => Target(w) \in UploadsAt("saved")
    BY DEF UploadsAt, Target
  <2>5. originals \subseteq Document
    BY DEF TypeOK
  <2> QED
    BY <2>1, <2>2, <2>3, <2>4, <2>5 DEF OriginalInv, Stored
<1>2. CASE UNCHANGED vars
  BY <1>2 DEF OriginalInv, Stored, Target, vars, files, bounds
<1> QED
  BY <1>1, <1>2, OriginalStep DEF Next

LEMMA OriginalInit == Init => OriginalInv
<1> SUFFICES ASSUME Init PROVE OriginalInv
  OBVIOUS
<1>1. PICK p \in Project, i \in Item, s \in Session, n \in Name,
           start \in SUBSET StartFiles, live \in BOOLEAN, confirmed \in BOOLEAN,
           linked \in BOOLEAN, talked \in BOOLEAN :
           Init!(p, i, s, n, start, live, confirmed, linked, talked)
  BY DEF Init
<1>2. \A d \in Document : Stored(d) <=> d \in originals
  BY <1>1 DEF Stored, Document, NoDocument
<1>3. originals \subseteq Document /\ leftovers = {}
  BY <1>1, StartFits DEF Document
<1> QED
  BY <1>1, <1>2, <1>3 DEF OriginalInv, RemovePc, Idle

-----------------------------------------------------------------------------
\* What a client saw is what there is, unless the version has gone on since.
PageInv ==
    \A w \in Worker :
        LET p == task[w].project
        IN task[w].pc = "project_page" /\ p \notin raced =>
              /\ projects[p].state # "UNUSED"
              /\ task[w].ver <= projects[p].version
              /\ task[w].ver = projects[p].version => task[w].rev = projects[p].rev
LinkPageInv ==
    \A w \in Worker :
        LET i == task[w].item
        IN task[w].pc = "link_page" /\ i \notin raced =>
              /\ task[w].ver <= items[i].version
              /\ task[w].ver = items[i].version => task[w].match = items[i].match
\* A valid link was confirmed for the matching fields its item has now.
BasisInv ==
    \A l \in Link : links[l].status = "CONFIRMED" /\ l[2] \notin raced =>
        links[l].basis = items[l[2]].match

\* Content changes with its version, except by a raced update.
ProjectVersions ==
    /\ raced \subseteq raced'
    /\ \A q \in Project :
          \/ q \in raced' \/ projects[q].state = "UNUSED"
          \/ /\ projects'[q].state # "UNUSED"
             /\ \/ projects[q].version < projects'[q].version
                \/ /\ projects'[q].version = projects[q].version
                   /\ projects'[q].rev = projects[q].rev
ItemVersions ==
    /\ raced \subseteq raced'
    /\ \A i \in Item :
          \/ i \in raced'
          \/ items[i].version < items'[i].version
          \/ items'[i].version = items[i].version /\ items'[i].match = items[i].match
\* A valid link is an old one whose item has kept its matching fields.
LinkVersions ==
    /\ raced \subseteq raced'
    /\ \A l \in Link : links'[l].status = "CONFIRMED" =>
          \/ l[2] \in raced'
          \/ links'[l] = links[l] /\ items'[l[2]].match = items[l[2]].match
          \/ links'[l].basis = items'[l[2]].match

LEMMA ProjectVersionsGrow ==
    ASSUME TypeOK, NEW w \in Worker, Request(w) \/ Step(w) \/ Failure(w)
    PROVE  ProjectVersions
<1> USE DEF files, checklist, agent, locks, observers, bounds
<1>0. projects \in [Project -> ProjectRow] /\ task[w].project \in Project /\ task[w].ver \in Nat
  BY DEF TypeOK, Task
<1>00. \A q \in Project : projects[q].version < projects[q].version + 1
  BY <1>0 DEF ProjectRow
<1>1. CASE CreateProject(w)
  BY <1>0, <1>1 DEF CreateProject, ProjectVersions
<1>2. CASE CommitUpdate(w)
  <2> DEFINE p == task[w].project
  <2>1. CASE projects' = projects /\ raced' = raced
    BY <2>1 DEF ProjectVersions
  <2>2. CASE ~(projects' = projects /\ raced' = raced)
    <3>1. /\ Live(p)
          /\ projects' = [projects EXCEPT ![p].name = task[w].name,
                             ![p].version = task[w].ver + 1, ![p].rev = @ + 1]
          /\ raced' = IF projects[p].version = task[w].ver THEN raced ELSE raced \cup {p}
      BY <1>2, <2>2 DEF CommitUpdate
    <3>2. projects'[p].version = task[w].ver + 1 /\ projects'[p].state = "LIVE"
      BY <1>0, <3>1 DEF ProjectRow, Live
    <3>3. \A q \in Project \ {p} : projects'[q] = projects[q]
      BY <1>0, <3>1
    <3>4. projects[p].version < task[w].ver + 1 \/ p \in raced'
      BY <1>0, <1>00, <3>1
    <3> HIDE DEF p
    <3> QED
      BY <3>1, <3>2, <3>3, <3>4 DEF ProjectVersions
  <2> QED
    BY <2>1, <2>2
<1>3. CASE CommitProjectDeletion(w) \/ CommitUpload(w) \/ CommitRemoval(w)
  <2>1. raced' = raced
    BY <1>3 DEF CommitProjectDeletion, CommitUpload, CommitRemoval
  <2>2. \A q \in Project : /\ projects'[q].version = projects[q].version
                           /\ projects'[q].rev = projects[q].rev
                           /\ projects'[q].state \in {projects[q].state, "DELETED"}
    BY <1>0, <1>3 DEF CommitProjectDeletion, CommitUpload, CommitRemoval, ProjectRow
  <2> QED
    BY <2>1, <2>2 DEF ProjectVersions
<1>4. CASE CreateItem(w)
  <2> DEFINE p == task[w].project
  <2>1. /\ raced' = raced
        /\ projects' = projects \/ projects' = [projects EXCEPT ![p] = Grown(projects[p])]
    BY <1>0, <1>4 DEF CreateItem
  <2>2. Grown(projects[p]).version = projects[p].version + 1
        /\ Grown(projects[p]).state = projects[p].state
    BY <1>0 DEF Grown, ProjectRow
  <2>3. projects' = projects
        \/ /\ projects'[p].version = projects[p].version + 1
           /\ projects'[p].state = projects[p].state
           /\ \A q \in Project \ {p} : projects'[q] = projects[q]
    BY <1>0, <2>1, <2>2
  <2> HIDE DEF p
  <2> QED
    BY <1>00, <2>1, <2>3 DEF ProjectVersions
<1>5. CASE projects' = projects /\ raced \subseteq raced'
  BY <1>5 DEF ProjectVersions
<1>6. CASE CommitItemUpdate(w)
  <2>1. projects' = projects /\ raced \subseteq raced'
    BY <1>6 DEF CommitItemUpdate
  <2> QED
    BY <1>5, <2>1
<1>7. CASE WaitStep(w)
  BY <1>5, <1>7, WaitSteps DEF OnlyWaits
<1> QED
  BY <1>1, <1>2, <1>3, <1>4, <1>5, <1>6, <1>7
     DEF WaitStep, Request, Step, Failure, ManageRequest, UploadRequest,
     ChecklistRequest, ItemRequest, LinkRequest, ManageStep, UploadStep, ChecklistStep,
     OpenProjectPage, LeavePage, ReadForUpdate, OpenSession, LockEmpty,
     RefuseDeletion, ClearThread, FailProjectDeletion, BeginUpload, ClaimProject, JudgeUpload,
     SaveOriginal, FailSave, FailUpload, CloseRefused, BeginRemoval, FailRemoval,
     ReadCounter, Review, OpenItemPage, ReadItem, CommitItemDeletion, OpenLinkPage,
     CreateLink, CommitLinkDeletion

LEMMA PageStep ==
    ASSUME TypeOK, TypeOK', PageInv, NEW w \in Worker, Request(w) \/ Step(w) \/ Failure(w)
    PROVE  PageInv'
<1> SUFFICES ASSUME NEW v \in Worker, task'[v].pc = "project_page", task'[v].project \notin raced'
             PROVE  LET p == task'[v].project
                    IN /\ projects'[p].state # "UNUSED"
                       /\ task'[v].ver <= projects'[p].version
                       /\ task'[v].ver = projects'[p].version => task'[v].rev = projects'[p].rev
  BY DEF PageInv
<1>1. CASE v # w
  <2>1. task'[v] = task[v] /\ raced \subseteq raced'
    BY <1>1, Moves, ProjectVersionsGrow DEF Others, ProjectVersions
  <2> DEFINE p == task[v].project
  <2>2. /\ p \in Project /\ task[v].ver \in Nat
        /\ projects[p].version \in Nat /\ projects'[p].version \in Nat
    BY DEF TypeOK, Task, ProjectRow
  <2>3. /\ projects[p].state # "UNUSED" /\ task[v].ver <= projects[p].version
        /\ task[v].ver = projects[p].version => task[v].rev = projects[p].rev
    BY <2>1 DEF PageInv
  <2>4. /\ projects'[p].state # "UNUSED"
        /\ \/ projects[p].version < projects'[p].version
           \/ /\ projects'[p].version = projects[p].version
              /\ projects'[p].rev = projects[p].rev
    BY <2>1, <2>2, <2>3, ProjectVersionsGrow DEF ProjectVersions
  <2> HIDE DEF p
  <2>5. projects'[p].version > projects[p].version => projects'[p].version > task[v].ver
    BY <2>2, <2>3
  <2>6. /\ task[v].ver <= projects'[p].version
        /\ task[v].ver = projects'[p].version => task[v].rev = projects'[p].rev
    BY <2>2, <2>3, <2>4
  <2> QED
    BY <2>1, <2>4, <2>6 DEF p
<1>2. CASE v = w
  <2>1. OpenProjectPage(w)
    BY <1>2, Moves
  <2>2. PICK p \in {q \in Project : Live(q)} :
           Become(w, [Idle EXCEPT !.pc = "project_page", !.project = p,
                         !.ver = projects[p].version, !.rev = projects[p].rev])
    BY <2>1 DEF OpenProjectPage
  <2>3. /\ task'[w].project = p /\ task'[w].ver = projects[p].version
        /\ task'[w].rev = projects[p].rev
    BY <2>2, IdleType DEF Become, TypeOK, Task
  <2>4. projects' = projects /\ projects[p].version \in Nat
    BY <2>1 DEF OpenProjectPage, TypeOK, ProjectRow
  <2> QED
    BY <1>2, <2>2, <2>3, <2>4 DEF Live
<1> QED
  BY <1>1, <1>2

\* The steps that write items or links.
LEMMA ItemVersionsGrow ==
    ASSUME TypeOK, LinkInv, LinkPageInv, NEW w \in Worker, Request(w) \/ Step(w) \/ Failure(w)
    PROVE  ItemVersions /\ LinkVersions
<1> USE DEF files, checklist, agent, locks, observers, bounds
<1>0. /\ task[w].project \in Project /\ task[w].item \in Item /\ task[w].ver \in Nat
      /\ <<<<task[w].project, task[w].file>>, task[w].item>> \in Link
      /\ items \in [Item -> ItemRow] /\ links \in [Link -> LinkRow]
  BY DEF TypeOK, Task, Link, Document
<1>00. /\ \A i \in Item : items[i].version < items[i].version + 1
       /\ \A l \in Link : l[1][1] \in Project /\ l[2] \in Item
  BY <1>0 DEF ItemRow, Link, Document
<1>01. \A i \in Item, l \in Link : Fresh(i) /\ l[2] = i => links[l].status = "NONE"
  BY <1>00 DEF LinkInv, Fresh, NoItem
<1>1. CASE CreateProject(w) \/ CreateItem(w)
  <2>1. links' = links /\ raced' = raced
    BY <1>1 DEF CreateProject, CreateItem
  <2>2. \A i \in Item : \/ items'[i] = items[i]
                        \/ Fresh(i) /\ items'[i].version = 1
    <3>1. CASE CreateProject(w)
      <4>1. PICK p \in Project, n \in Name, demo \in SUBSET Item :
               CreateProject(w)!2!(p, n, demo)
        BY <3>1 DEF CreateProject
      <4> QED
        BY <1>0, <4>1, RowTypes DEF ItemRow
    <3>2. CASE CreateItem(w)
      BY <1>0, <3>2 DEF CreateItem
    <3> QED
      BY <1>1, <3>1, <3>2
  <2>3. \A i \in Item : Fresh(i) => items[i].version = 0
    BY DEF Fresh, NoItem
  <2> QED
    BY <1>00, <1>01, <2>1, <2>2, <2>3 DEF ItemVersions, LinkVersions
<1>2. CASE CommitProjectDeletion(w) \/ CommitItemDeletion(w)
  <2>1. \A i \in Item : items'[i] \in {items[i], Gone(items[i])}
    BY <1>0, <1>2 DEF CommitProjectDeletion, CommitItemDeletion
  <2>2. \A i \in Item : items'[i].version = items[i].version /\ items'[i].match = items[i].match
    BY <1>0, <2>1 DEF Gone, ItemRow
  <2>3. \A l \in Link : links'[l] \in {links[l], NoLink}
    BY <1>0, <1>2 DEF CommitProjectDeletion, CommitItemDeletion
  <2>4. raced' = raced
    BY <1>2 DEF CommitProjectDeletion, CommitItemDeletion
  <2> QED
    BY <1>00, <2>2, <2>3, <2>4 DEF ItemVersions, LinkVersions, NoLink
<1>3. CASE CommitItemUpdate(w)
  <2> DEFINE i == task[w].item
             changed == Rematched(w)
  <2>1. CASE items' = items /\ links' = links /\ raced' = raced
    BY <2>1 DEF ItemVersions, LinkVersions
  <2>2. CASE ~(items' = items /\ links' = links /\ raced' = raced)
    <3>1. /\ items' = [items EXCEPT ![i].version = task[w].ver + 1,
                          ![i].match = IF changed THEN task[w].new ELSE @]
          /\ links' = IF changed THEN Invalidated(i) ELSE links
          /\ raced' = IF items[i].version = task[w].ver THEN raced ELSE raced \cup {i}
      BY <1>3, <2>2 DEF CommitItemUpdate
    <3>2. /\ \A j \in Item \ {i} : items'[j] = items[j]
          /\ items'[i].version = task[w].ver + 1
          /\ ~changed => items'[i].match = items[i].match
      BY <1>0, <3>1 DEF ItemRow
    <3>3. \A l \in Link : links'[l].status = "CONFIRMED" =>
             links'[l] = links[l] /\ (changed => l[2] # i)
      BY <1>0, <3>1 DEF Invalidated, LinkRow
    <3>4. items[i].version < items'[i].version \/ i \in raced'
      BY <1>0, <1>00, <3>1, <3>2
    <3>5. raced \subseteq raced'
      BY <3>1
    <3> HIDE DEF i, changed
    <3>6. ItemVersions
      BY <3>2, <3>4, <3>5 DEF ItemVersions
    <3>7. LinkVersions
      BY <1>00, <3>2, <3>3, <3>5 DEF LinkVersions
    <3> QED
      BY <3>6, <3>7
  <2> QED
    BY <2>1, <2>2
<1>4. CASE CreateLink(w)
  <2> DEFINE i == task[w].item
             l == <<<<task[w].project, task[w].file>>, i>>
  <2>1. items' = items /\ raced' = raced
    BY <1>4 DEF CreateLink
  <2>2. \/ links' = links
        \/ /\ items[i].version = task[w].ver
           /\ links' = [links EXCEPT ![l] = [status |-> "CONFIRMED", basis |-> task[w].match]]
    BY <1>4 DEF CreateLink, Linkable, ItemAsSeen
  <2>3. items[i].version = task[w].ver => i \in raced \/ task[w].match = items[i].match
    BY <1>4 DEF LinkPageInv, CreateLink
  <2>4. l \in Link /\ l[2] = i
    BY <1>0
  <2> HIDE DEF i, l
  <2>5. \/ links' = links
        \/ /\ i \in raced \/ links'[l].basis = items[i].match
           /\ \A k \in Link \ {l} : links'[k] = links[k]
    BY <1>0, <2>2, <2>3, <2>4
  <2> QED
    BY <2>1, <2>4, <2>5 DEF ItemVersions, LinkVersions
<1>5. CASE CommitLinkDeletion(w) \/ CommitRemoval(w)
  <2>1. items' = items /\ raced' = raced
    BY <1>5 DEF CommitLinkDeletion, CommitRemoval
  <2>2. \A l \in Link : links'[l] \in {links[l], NoLink}
    BY <1>0, <1>5 DEF CommitLinkDeletion, CommitRemoval
  <2> QED
    BY <2>1, <2>2 DEF ItemVersions, LinkVersions, NoLink
<1>6. CASE items' = items /\ links' = links /\ raced \subseteq raced'
  BY <1>6 DEF ItemVersions, LinkVersions
<1>7. CASE CommitUpdate(w)
  <2>1. items' = items /\ links' = links /\ raced \subseteq raced'
    BY <1>7 DEF CommitUpdate
  <2> QED
    BY <1>6, <2>1
<1>8. CASE WaitStep(w)
  BY <1>6, <1>8, WaitSteps DEF OnlyWaits
<1> QED
  BY <1>1, <1>2, <1>3, <1>4, <1>5, <1>6, <1>7, <1>8
     DEF WaitStep, Request, Step, Failure, ManageRequest, UploadRequest,
     ChecklistRequest, ItemRequest, LinkRequest, ManageStep, UploadStep, ChecklistStep,
     OpenProjectPage, LeavePage, ReadForUpdate, OpenSession, LockEmpty,
     RefuseDeletion, ClearThread, FailProjectDeletion, BeginUpload, ClaimProject, JudgeUpload,
     SaveOriginal, FailSave, CommitUpload, FailUpload, CloseRefused, BeginRemoval,
     FailRemoval, ReadCounter, Review, OpenItemPage, ReadItem, OpenLinkPage

LEMMA LinkPageStep ==
    ASSUME TypeOK, TypeOK', LinkInv, LinkPageInv, NEW w \in Worker,
           Request(w) \/ Step(w) \/ Failure(w)
    PROVE  LinkPageInv'
<1> SUFFICES ASSUME NEW v \in Worker, task'[v].pc = "link_page", task'[v].item \notin raced'
             PROVE  LET i == task'[v].item
                    IN /\ task'[v].ver <= items'[i].version
                       /\ task'[v].ver = items'[i].version => task'[v].match = items'[i].match
  BY DEF LinkPageInv
<1>1. CASE v # w
  <2>1. task'[v] = task[v] /\ raced \subseteq raced'
    BY <1>1, Moves, ItemVersionsGrow DEF Others, ItemVersions
  <2> DEFINE i == task[v].item
  <2>2. /\ i \in Item /\ task[v].ver \in Nat
        /\ items[i].version \in Nat /\ items'[i].version \in Nat
    BY DEF TypeOK, Task, ItemRow
  <2>3. /\ task[v].ver <= items[i].version
        /\ task[v].ver = items[i].version => task[v].match = items[i].match
    BY <2>1 DEF LinkPageInv
  <2>4. \/ items[i].version < items'[i].version
        \/ items'[i].version = items[i].version /\ items'[i].match = items[i].match
    BY <2>1, <2>2, ItemVersionsGrow DEF ItemVersions
  <2> HIDE DEF i
  <2>5. /\ task[v].ver <= items'[i].version
        /\ task[v].ver = items'[i].version => task[v].match = items'[i].match
    BY <2>2, <2>3, <2>4
  <2> QED
    BY <2>1, <2>5 DEF i
<1>2. CASE v = w
  <2>1. OpenLinkPage(w)
    BY <1>2, Moves
  <2>2. PICK i \in Item, f \in File :
           Become(w, [Idle EXCEPT !.pc = "link_page", !.item = i,
                         !.project = items[i].project, !.file = f,
                         !.ver = items[i].version, !.match = items[i].match,
                         !.dver = documents[<<items[i].project, f>>].version])
    BY <2>1 DEF OpenLinkPage
  <2>3. /\ task'[w].item = i /\ task'[w].ver = items[i].version
        /\ task'[w].match = items[i].match
    BY <2>2, IdleType DEF Become, TypeOK, Task
  <2>4. items' = items /\ items[i].version \in Nat
    BY <2>1 DEF OpenLinkPage, checklist, TypeOK, ItemRow
  <2> QED
    BY <1>2, <2>3, <2>4
<1> QED
  BY <1>1, <1>2

SeenInv == PageInv /\ LinkPageInv /\ BasisInv

LEMMA SeenNext ==
    ASSUME TypeOK, HoldInv, LinkInv, SeenInv, [Next]_vars
    PROVE  SeenInv'
<1>0. TypeOK'
  BY TypeNext
<1>1. ASSUME NEW w \in Worker, Request(w) \/ Step(w) \/ Failure(w)
      PROVE  SeenInv'
  <2>1. ItemVersions /\ LinkVersions
    BY <1>1, ItemVersionsGrow DEF SeenInv
  <2>2. \A l \in Link : l[2] \in Item
    BY DEF Link
  <2>3. BasisInv'
    BY <2>1, <2>2 DEF BasisInv, SeenInv, LinkVersions
  <2> QED
    BY <1>0, <1>1, <2>3, PageStep, LinkPageStep DEF SeenInv
<1>2. CASE Crash
  <2>1. \A v \in Worker : task'[v].pc \in PagePc => task'[v] = task[v]
    BY <1>2 DEF Crash, Idle, PagePc
  <2>2. /\ projects' = projects /\ items' = items /\ links' = links /\ raced' = raced
        /\ "project_page" \in PagePc /\ "link_page" \in PagePc
    BY <1>2 DEF Crash, checklist, observers, PagePc
  <2> QED
    BY <2>1, <2>2 DEF SeenInv, PageInv, LinkPageInv, BasisInv
<1>3. CASE UNCHANGED vars
  BY <1>3 DEF SeenInv, PageInv, LinkPageInv, BasisInv, vars, checklist, observers
<1> QED
  BY <1>1, <1>2, <1>3 DEF Next

LEMMA SeenInit == Init => SeenInv
<1> SUFFICES ASSUME Init PROVE SeenInv
  OBVIOUS
<1>1. \A l \in Link : links[l].basis = Idle.match
  BY DEF Init, NoLink
<1>2. \A i \in Item : items[i].match = Idle.match
  BY DEF Init, NoItem
<1>3. BasisInv
  BY <1>1, <1>2 DEF BasisInv, Link
<1> QED
  BY <1>3 DEF Init, SeenInv, PageInv, LinkPageInv, Idle

-----------------------------------------------------------------------------
WholeInv == LifeInv /\ OriginalInv /\ SeenInv

LEMMA WholeHolds == Spec => []WholeInv
<1>1. Init => WholeInv
  BY TypeInit, HoldInit, RemoveInit, RowInit, CountInit, OriginalInit, SeenInit
     DEF WholeInv, LifeInv
<1>2. WholeInv /\ [Next]_vars => WholeInv'
  BY TypeNext, HoldNext, RemoveNext, RowNext, CountNext, OriginalNext, SeenNext
     DEF WholeInv, LifeInv
<1> QED
  BY <1>1, <1>2, PTL DEF Spec

\* Whatever crashes or cannot be cleaned up, no stored document loses its
\* original before its deletion begins, and an original without a document
\* belongs to the upload that keeps the project row to store it; what else lies
\* in the upload directory was left by a crash or by a clean-up that failed.
THEOREM FilesAreAccounted == Spec => []OriginalsAccounted
<1>1. WholeInv => OriginalsAccounted
  BY DEF WholeInv, LifeInv, TypeOK, OriginalInv, OriginalsAccounted, UploadsAt, Target
<1> QED
  BY <1>1, WholeHolds, PTL

\* A client whose page has the current version has the current content, unless
\* two updates of the project from one version were both written.
THEOREM PagesAreCurrent == Spec => []PageIsCurrent
<1>1. WholeInv => PageIsCurrent
  BY DEF WholeInv, SeenInv, PageInv, PageIsCurrent
<1> QED
  BY <1>1, WholeHolds, PTL

\* Every document an item is fulfilled by was linked for the matching fields the
\* item has now, and no link outlives its item or its document.
THEOREM LinksAreEarned == Spec => []FulfilmentIsEarned
<1>1. WholeInv => FulfilmentIsEarned
  <2> SUFFICES ASSUME WholeInv PROVE FulfilmentIsEarned
    OBVIOUS
  <2>1. ASSUME NEW i \in Item, NEW f \in FulfilledBy(i)
        PROVE  i \in raced \/ links[<<<<items[i].project, f>>, i>>].basis = items[i].match
    <3> DEFINE d == <<items[i].project, f>>
    <3>1. d \in Document /\ links[<<d, i>>].status = "CONFIRMED"
      BY DEF FulfilledBy
    <3>2. <<d, i>> \in Link /\ <<d, i>>[2] = i
      BY <3>1 DEF Link
    <3> HIDE DEF d
    <3> QED
      BY <3>1, <3>2 DEF WholeInv, SeenInv, BasisInv, d
  <2> QED
    BY <2>1 DEF FulfilmentIsEarned, WholeInv, LifeInv, LinkInv
<1> QED
  BY <1>1, WholeHolds, PTL
=============================================================================
