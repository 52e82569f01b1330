---------------------------- MODULE ProjectRecord ----------------------------
(***************************************************************************)
(* The projects of one user as the service stores them: project rows with   *)
(* their document counter, document rows and original files, checklist      *)
(* items and links, the sessions of the archive agent with their checkpoint *)
(* threads, and the HTTP requests at work on them.  Every commit, every     *)
(* call of an external store and every wait is a step of its own.           *)
(***************************************************************************)
EXTENDS Naturals, FiniteSets

CONSTANTS
    Worker,        \* the requests and their clients, at most one request each
    Project, Name, File, Item, Match, Session,
    None,          \* no worker, no name, no project
    LargeFile,     \* the files spooled to disk while they are received
    Limit,         \* documents a project may hold (100 in the code)
    StartFiles,    \* the files a project may hold at the start
    Kinds,         \* the kinds of request the clients of this instance send
    MaxRequests,   \* bound on the requests accepted in a behaviour
    MaxFaults      \* bound on crashes and on clean-ups that fail

RequestKind == {"create_project", "edit_project", "delete_project",
                "open_session", "upload", "delete_document", "review",
                "retry_parse",
                "create_item", "edit_item", "delete_item", "link", "unlink",
                "send", "register", "login", "refresh", "logout"}

ASSUME NoneAssumption ==
    None \notin Worker \cup Project \cup Name \cup Item \cup Session
ASSUME ProjectItemAssumption == Project \cap Item = {}
ASSUME InhabitedAssumption ==
    /\ Project # {} /\ Name # {} /\ File # {}
    /\ Item # {} /\ Match # {} /\ Session # {}
ASSUME FileAssumption == IsFiniteSet(File) /\ LargeFile \subseteq File
ASSUME LimitAssumption == Limit \in Nat \ {0}
ASSUME StartAssumption == StartFiles \subseteq File /\ Cardinality(StartFiles) <= Limit
ASSUME ProjectBoundAssumption ==
    MaxRequests \in Nat /\ MaxFaults \in Nat /\ Kinds \subseteq RequestKind

VARIABLES
    projects,    \* the projects rows
    documents,   \* the documents rows with the status of their archive rows
    originals,   \* the original files of stored or half-made documents
    leftovers,   \* the originals whose document will never have a row
    items,       \* the checklist_items rows
    links,       \* the checklist_links rows
    sessions,    \* the agent_sessions rows: the project each belongs to
    threads,     \* the sessions that have a checkpoint thread in SQLite
    projectLock, \* per project, who keeps its row FOR UPDATE between steps
    loop,        \* the async handler that occupies the event loop
    task,        \* per worker, its program counter and what it has read
    served,      \* requests accepted so far
    faults,      \* crashes and failed clean-ups so far
    drifted,     \* observer: projects whose counter was written from a stale read
    raced        \* observer: projects and items written from a stale read

checklist == <<items, links>>
agent == <<sessions, threads>>
files == <<documents, originals, leftovers>>
locks == <<projectLock, loop>>
observers == <<drifted, raced>>
bounds == <<served, faults>>
vars == <<projects, files, checklist, agent, locks, task, bounds, observers>>

-----------------------------------------------------------------------------
Document == Project \X File
Link == Document \X Item
\* The archive row of a document, an item row, a link row.
Row == Document \cup Item \cup Link

ProjectRow ==
    [state : {"UNUSED", "LIVE", "DELETED"}, name : Name \cup {None},
     version : Nat, rev : Nat, count : 0 .. Limit]
\* deletion: the status of its DELETE operation.
DocumentRow ==
    [status : {"NONE", "DRAFT", "CONFIRMED"}, version : Nat,
     deletion : {"NONE", "RUNNING", "FAILED"}]
ItemRow == [project : Project \cup {None}, version : Nat, match : Match]
LinkRow == [status : {"NONE", "CONFIRMED", "INVALIDATED"}, basis : Match]

LoopPc == {"claiming", "saving", "saved", "refusing"}
UploadPc == LoopPc \cup {"hashed"}
\* The audit row is in the transaction, the row it is about is not yet: its
\* foreign key shares the project row until the commit.
AuditedPc == {"item_audited", "item_deleting", "link_deleting", "retrying"}
BusyPc == UploadPc \cup AuditedPc \cup
          {"row_refused", "updating", "clearing", "item_updating", "removing",
           "uncounting", "sending", "refreshing", "revoking"}
\* A client that is looking at a page has no request in the service.
PagePc == {"project_page", "item_page", "link_page"}
Task ==
    [pc : BusyPc \cup PagePc \cup {"idle"}, project : Project, file : File,
     item : Item, name : Name, ver : Nat, rev : Nat, dver : Nat,
     match : Match, new : Match, count : 0 .. Limit, todo : SUBSET Session,
     rows : SUBSET Row]
Idle ==
    [pc |-> "idle", project |-> CHOOSE p \in Project : TRUE,
     file |-> CHOOSE f \in File : TRUE, item |-> CHOOSE i \in Item : TRUE,
     name |-> CHOOSE n \in Name : TRUE, ver |-> 0, rev |-> 0, dver |-> 0,
     match |-> CHOOSE m \in Match : TRUE, new |-> CHOOSE m \in Match : TRUE,
     count |-> 0, todo |-> {}, rows |-> {}]

Busy(w) == task[w].pc \in BusyPc
Live(p) == projects[p].state = "LIVE"
Stored(d) == documents[d].status # "NONE"
DocumentsOf(p) == {f \in File : Stored(<<p, f>>)}
ItemsOf(p) == {i \in Item : items[i].project = p}
NameTaken(n, p) == \E q \in Project \ {p} : Live(q) /\ projects[q].name = n
NoDocument == [status |-> "NONE", version |-> 0, deletion |-> "NONE"]
NoItem == [project |-> None, version |-> 0, match |-> Idle.match]
\* Identities are never used twice: the row of a deleted item keeps its
\* version, and a file uploaded again goes on from the version it had.
Gone(row) == [row EXCEPT !.project = None]
Fresh(i) == items[i] = NoItem
NoLink == [status |-> "NONE", basis |-> Idle.match]

\* Nobody keeps the project row FOR UPDATE: it may be updated, and referenced
\* by the audit row that almost every write adds.
Unlocked(p) == projectLock[p] = None
\* Nor does a foreign key share it: it may be locked FOR UPDATE.
Free(p) ==
    /\ Unlocked(p)
    /\ ~ \E w \in Worker : task[w].pc \in AuditedPc /\ task[w].project = p
\* No refused request still keeps one of these rows.
RowsFree(rows) ==
    \A w \in Worker : task[w].pc = "row_refused" => task[w].rows \cap rows = {}

Accept(w, kind) ==
    /\ kind \in Kinds
    /\ task[w].pc = "idle"
    /\ served < MaxRequests
    /\ served' = served + 1
    /\ UNCHANGED faults

Become(w, record) == task' = [task EXCEPT ![w] = record]
Goto(w, pc) == task' = [task EXCEPT ![w].pc = pc]
Finish(w) == Become(w, Idle)
Lock(w, p) == projectLock' = [projectLock EXCEPT ![p] = w]
Release(p) == projectLock' = [projectLock EXCEPT ![p] = None]

-----------------------------------------------------------------------------
\* A request refused after SELECT ... FOR UPDATE raises without a rollback: it
\* keeps the rows until the exit of the session dependency, which the event
\* loop has to schedule.

\* Mutant: the session of a refused request is never closed.
HolderAfterLeak(w) == w
\* Closing the session rolls its transaction back.
HolderAfterClose(w) == None

CloseRefused(w) ==
    /\ task[w].pc = "refusing" /\ loop = None
    /\ projectLock' = [projectLock EXCEPT ![task[w].project] = HolderAfterClose(w)]
    /\ Finish(w)
    /\ UNCHANGED <<projects, files, checklist, agent, loop, bounds, observers>>

RefuseKeeping(w, p, rows) ==
    Become(w, [Idle EXCEPT !.pc = "row_refused", !.project = p, !.rows = rows])

CloseRefusedRows(w) ==
    /\ task[w].pc = "row_refused" /\ loop = None
    /\ Finish(w)
    /\ UNCHANGED <<projects, files, checklist, agent, locks, bounds, observers>>
=============================================================================
