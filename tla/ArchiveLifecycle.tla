-------------------------- MODULE ArchiveLifecycle --------------------------
(***************************************************************************)
(* The life of one archive document under any interleaving of its requests: *)
(* intake (ArchiveParsing, ArchiveDrafting), the formal scope               *)
(* (ArchiveFormalising) and deletion (ArchiveDeleting), with crashes of the *)
(* one server process and bookkeeping commits that fail.                    *)
(***************************************************************************)
EXTENDS ArchiveParsing, ArchiveDrafting, ArchiveFormalising, ArchiveDeleting

\* A fresh upload, or a parsed document whose seven fields a user has created
\* by hand (one version) and checked one by one (one version each).
Init ==
    /\ doc = [present |-> TRUE,
              status |-> IF StartReady THEN "PENDING_CONFIRMATION" ELSE "UPLOADED",
              version |-> IF StartReady THEN FieldCount + 2 ELSE 1,
              snapshot |-> StartReady, hash |-> FALSE, chunks |-> 0]
    /\ fields = [exists |-> StartReady,
                 rev |-> IF StartReady THEN FieldCount + 1 ELSE 0,
                 manual |-> StartReady,
                 pending |-> IF StartReady THEN 0 ELSE FieldCount]
    /\ indexOps = <<>> /\ deleteOp = "NONE"
    /\ files = [original |-> TRUE, snapshot |-> StartReady]
    /\ vectors = {}
    /\ rowLock = NoWorker
    /\ task = [w \in Worker |-> Idle]
    /\ served = 0 /\ faults = 0
    /\ signed = 0 /\ disturbed = FALSE

Request(w) ==
    \/ BeginParse(w) \/ DraftRequest(w) \/ LeaveDraft(w)
    \/ FormalRequest(w) \/ DeleteRequest(w)
Step(w) == ParseStep(w) \/ DraftStep(w) \/ FormalStep(w) \/ DeleteStep(w)

\* The process dies: its handlers and its transactions are gone, committed
\* rows, files and vectors stay, and clients keep the drafts they have read.
\* main.py runs nothing on start that looks at the operation rows.
Crash ==
    /\ faults < MaxFaults
    /\ \E w \in Worker : Busy(w)
    /\ faults' = faults + 1
    /\ task' = [w \in Worker |-> IF Busy(w) THEN Idle ELSE task[w]]
    /\ rowLock' = NoWorker
    /\ UNCHANGED <<rows, stores, served, observers>>

\* The commit that would record a failure fails as well and is only logged.
LoseBookkeeping(w) ==
    /\ faults < MaxFaults
    /\ task[w].pc \in {"parsing", "suggest_failed", "index_failing", "delete_failing"}
    /\ faults' = faults + 1
    /\ Finish(w)
    /\ UNCHANGED <<rows, stores, rowLock, served, observers>>

Next ==
    \/ \E w \in Worker : Request(w) \/ Step(w) \/ LoseBookkeeping(w)
    \/ Crash

Spec == Init /\ [][Next]_vars

\* A handler that has been accepted runs on until it answers.
FairSpec == Spec /\ \A w \in Worker : WF_vars(Step(w))

-----------------------------------------------------------------------------
\* Every variable stays in its domain.
TypeOK ==
    /\ doc \in ArchiveDocument
    /\ fields \in FieldValues
    /\ indexOps \in Seq(OperationStatus)
    /\ deleteOp \in {"NONE", "RUNNING", "FAILED"}
    /\ files \in Files
    /\ vectors \in SUBSET Nat
    /\ rowLock \in Worker \cup {NoWorker}
    /\ task \in [Worker -> Task]
    /\ served \in Nat /\ faults \in Nat
    /\ signed \in Nat /\ disturbed \in BOOLEAN

\* A client whose draft carries the current version has seen the current
\* values, although read_document_draft reads the two in separate statements:
\* what every expected_version check of the service relies on.
SeenIsCurrent ==
    \A w \in Worker :
        (/\ task[w].pc \in {"drafted", "editing", "regenerating"}
         /\ doc.present /\ task[w].ver = doc.version)
        => fields.exists /\ task[w].rev = fields.rev

\* A confirmed document holds exactly the values its confirmer had on screen,
\* all of them reviewed, whatever edits, suggestions and cancellations raced.
ConfirmedAsSigned ==
    doc.present /\ doc.status = "CONFIRMED"
        => fields.exists /\ fields.rev = signed /\ fields.pending = 0

\* A request never writes over values its client has not seen: no edit,
\* confirmation or regeneration commits on a newer revision than the one read.
CommitsOnSeenRevision ==
    [][\A w \in Worker :
          EditField(w) \/ Confirm(w) \/ CommitRegenerate(w)
              => task[w].rev = fields.rev]_vars

\* The AI never overwrites a value a person has entered, although the model
\* is called between the check and the write.
AINeverOverwritesManual ==
    [][\A w \in Worker :
          PersistSuggestion(w) \/ CommitRegenerate(w) => ~fields.manual]_vars

\* Any state past parsing has the one immutable snapshot row: the late failure
\* of another parse or suggestion never leads to a draft without a source.
DraftsHaveSnapshot ==
    doc.present /\ (fields.exists \/ doc.status \notin {"UPLOADED", "PARSE_FAILED"})
        => doc.snapshot

\* One handler at a time is at work on the vectors with an operation of its
\* own, and an index and a deletion exclude each other, although the rows are
\* read, written and resolved in different transactions.
OneOperation ==
    /\ \A w \in Worker : task[w].pc \in DeletePc => deleteOp = "RUNNING"
    /\ \A w \in Worker : task[w].pc \in IndexPc =>
          task[w].op \in DOMAIN indexOps /\ indexOps[task[w].op] = "RUNNING"
    /\ \A v, w \in Worker : v # w =>
          \/ task[v].pc \notin IndexPc \cup DeletePc
          \/ task[w].pc \notin IndexPc \cup DeletePc
    /\ ~(IndexRunning /\ deleteOp = "RUNNING")

\* Once the rows are gone no vector and no original file is left behind, even
\* if an index run was under way when the deletion was asked for.
DeletionLeavesNothing == ~doc.present => vectors = {} /\ ~files.original

\* A formal document that claims chunks has its vectors, except where the
\* cleanup of an older cancellation has hit the newer index.
IndexedHasVectors ==
    Visible /\ doc.chunks > 0 => vectors # {} \/ disturbed

\* The same claim without the exception.
FinalChunksExist == Visible /\ doc.chunks > 0 => vectors # {}

\* DELETE answers "in progress" only while some handler is at work on the
\* document: a refusal is temporary.
RefusalHasOwner ==
    [][\A w \in Worker :
          RefuseDelete(w) => \E v \in Worker : task[v].pc \in IndexPc \cup DeletePc]_vars

\* Deleting a document also deletes its parsed snapshot file: once no parse is
\* at work any more, nothing of it is left.
DeletionLeavesNoSnapshot ==
    ~doc.present /\ (\A w \in Worker : task[w].pc \notin ParsePc) => ~files.snapshot

\* A stored snapshot row points to a file that is there, while the document
\* is not being deleted.
SnapshotHasFile ==
    doc.present /\ doc.snapshot /\ deleteOp = "NONE" => files.snapshot

\* The user-visible state diagram of the design, its edges between statuses.
DiagramEdge ==
    {<<"UPLOADED", "PARSED">>, <<"UPLOADED", "PARSE_FAILED">>,
     <<"PARSE_FAILED", "PARSED">>,
     <<"PARSED", "PENDING_CONFIRMATION">>, <<"PARSED", "SUGGESTION_FAILED">>,
     <<"SUGGESTION_FAILED", "PENDING_CONFIRMATION">>,
     <<"PENDING_CONFIRMATION", "CONFIRMED">>,
     <<"CONFIRMED", "PENDING_RECONFIRMATION">>,
     <<"PENDING_RECONFIRMATION", "CONFIRMED">>}

\* The stored status only moves along the documented diagram while the
\* document exists, whatever failures are recorded late.
FollowsStateDiagram ==
    [][doc'.present /\ doc'.status # doc.status
          => <<doc.status, doc'.status>> \in DiagramEdge]_vars

\* Every operation row that says RUNNING comes to say otherwise.
OperationsResolve == OperationRunning ~> ~OperationRunning

\* Every accepted request is answered: no handler waits for ever on the row
\* lock another one keeps.
RequestsAreAnswered == \A w \in Worker : Busy(w) ~> ~Busy(w)

-----------------------------------------------------------------------------
\* The promise of FormalArchive, seen through the stored rows.
phase ==
    IF ~doc.present THEN "GONE"
    ELSE IF deleteOp # "NONE" THEN "HIDDEN"
    ELSE IF doc.status = "CONFIRMED" THEN "FORMAL" ELSE "DRAFT"
shown == IF phase = "FORMAL" THEN fields.rev ELSE 0

Formal == INSTANCE FormalArchive WITH phase <- phase, shown <- shown
\* The stored document implements the abstract life in the formal scope.
ImplementsFormalArchive == Formal!FSpec
=============================================================================
