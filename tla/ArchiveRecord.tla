---------------------------- MODULE ArchiveRecord ----------------------------
(***************************************************************************)
(* One archive document as the service stores it: its PostgreSQL rows, its  *)
(* files and its vectors in Chroma, and the HTTP request workers that       *)
(* handle it.  Every database commit and every call of an external store is *)
(* a step of its own; a worker's record holds what its handler has read and *)
(* not yet used.                                                            *)
(***************************************************************************)
EXTENDS Naturals, Sequences

CONSTANTS
    Worker,        \* the request threads of the one server process
    NoWorker,      \* value of rowLock while nobody holds the row lock
    FieldCount,    \* number of archive fields (seven ArchiveFieldName members)
    Chunks,        \* number of Final Chunks the parsed snapshot splits into
    Kinds,         \* the kinds of request the clients of this instance send
    StartReady,    \* start from a completely reviewed draft, or from the upload
    MaxRequests,   \* bound on the requests accepted in a behaviour
    MaxFaults      \* bound on process crashes and failed bookkeeping commits

RequestKind == {"parse", "suggest", "manual", "regenerate", "draft", "edit",
                "confirm", "cancel", "delete"}

ASSUME NoWorkerAssumption == NoWorker \notin Worker
ASSUME SizeAssumption == FieldCount \in Nat \ {0} /\ Chunks \in Nat \ {0}
ASSUME InstanceAssumption == Kinds \subseteq RequestKind /\ StartReady \in BOOLEAN
ASSUME BoundAssumption == MaxRequests \in Nat /\ MaxFaults \in Nat

VARIABLES
    doc,        \* the archive_documents row
    fields,     \* the archive_field_values rows, as one edited whole
    indexOps,   \* operation_status of the INDEX rows, in order of attempt
    deleteOp,   \* operation_status of the DELETE row, "NONE" without one
    files,      \* the original file and the parsed snapshot file
    vectors,    \* field revisions whose context is in the document's vectors
    rowLock,    \* who keeps the archive row FOR UPDATE between two steps
    task,       \* per worker, its program counter and what it has read
    served,     \* requests accepted so far
    faults,     \* crashes and lost bookkeeping so far
    signed,     \* observer: field revision the last confirmer had read
    disturbed   \* observer: a cancel's cleanup hit a newer formal index

rows == <<doc, fields, indexOps, deleteOp>>
stores == <<files, vectors>>
observers == <<signed, disturbed>>
bounds == <<served, faults>>
vars == <<rows, stores, rowLock, task, bounds, observers>>

-----------------------------------------------------------------------------
Status == {"UPLOADED", "PARSE_FAILED", "PARSED", "SUGGESTION_FAILED",
           "PENDING_CONFIRMATION", "PENDING_RECONFIRMATION", "CONFIRMED"}
EditableStatus == {"PENDING_CONFIRMATION", "PENDING_RECONFIRMATION"}
OperationStatus == {"RUNNING", "SUCCEEDED", "FAILED"}

ArchiveDocument ==
    [present : BOOLEAN, status : Status, version : Nat \ {0},
     snapshot : BOOLEAN, hash : BOOLEAN, chunks : {0, Chunks}]
\* rev counts the committed changes of the values; manual: a value of source
\* MANUAL is among them; pending: how many fields are PENDING_CHECK.
FieldValues ==
    [exists : BOOLEAN, rev : Nat, manual : BOOLEAN, pending : 0 .. FieldCount]
Files == [original : BOOLEAN, snapshot : BOOLEAN]

ParsePc == {"parsing", "parsed", "snapshot_written", "unlinking"}
SuggestPc == {"suggesting", "suggest_failed", "regenerating"}
IndexPc == {"building", "upserting", "upserted", "index_failing"}
DeletePc == {"clearing", "removing", "finishing", "delete_failing"}
\* The handlers a client waits for: everything but a client that is still
\* thinking over the draft it was given.
BusyPc == ParsePc \cup SuggestPc \cup IndexPc \cup DeletePc
          \cup {"reading", "editing", "confirmed", "reloaded", "cleaning"}
Task ==
    [pc : BusyPc \cup {"idle", "drafted"}, ver : Nat, rev : Nat, st : Status,
     hash : BOOLEAN, chunks : {0, Chunks}, op : Nat]
Idle == [pc |-> "idle", ver |-> 0, rev |-> 0, st |-> "UPLOADED",
         hash |-> FALSE, chunks |-> 0, op |-> 0]

Busy(w) == task[w].pc \in BusyPc
Unlocked == rowLock = NoWorker

IndexRunning == \E i \in DOMAIN indexOps : indexOps[i] = "RUNNING"
\* What the visibility blocking of DELETE leaves in the formal scope.
Visible == doc.present /\ doc.status = "CONFIRMED" /\ deleteOp = "NONE"

\* A new request: bounded, and only of the kinds this instance enables.
Accept(w, kind) ==
    /\ kind \in Kinds
    /\ task[w].pc = "idle"
    /\ served < MaxRequests
    /\ served' = served + 1
    /\ UNCHANGED faults

Become(w, record) == task' = [task EXCEPT ![w] = record]
Goto(w, pc) == task' = [task EXCEPT ![w].pc = pc]
Finish(w) == Become(w, Idle)
=============================================================================
