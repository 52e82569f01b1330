------------------------ MODULE EvaluationPreparation ------------------------
(***************************************************************************)
(* The preparation of the extension evaluation: it creates a schema, a      *)
(* Chroma database and directories named by the run id, starts the API on   *)
(* them, has the retrieval acceptance run, and takes everything down again  *)
(* (prepare_extension_eval in scripts/archive_world_bank_extension_eval.py) *)
(***************************************************************************)
EXTENDS AnswerBudget

VARIABLE prep   \* per invocation, how far it is and what it has to clean up

Container == {"schema", "database", "runDir"}
PrepPc == {"absent", "idle", "inspect", "schema", "path", "database", "runDir",
           "configure", "start", "ready", "retrieve", "retrieving", "stop", "logging",
           "residuals", "dispose", "dropSchema", "dropDatabase", "dropRunDir",
           "dropLogs", "verify", "artifacts", "over"}

\* made, configured, api, asked: schema_created and its companions, which the
\* finally block goes by; stopped, quiet, cleaned, disposed: what it has
\* achieved; ok, verified, entries, error: what the summary says.
Prep == [pc : PrepPc, made : SUBSET Container, configured : BOOLEAN, api : BOOLEAN,
         asked : BOOLEAN, stopped : BOOLEAN, quiet : BOOLEAN, cleaned : BOOLEAN,
         disposed : BOOLEAN, ok : BOOLEAN, verified : BOOLEAN, entries : BOOLEAN,
         error : BOOLEAN]
NewPrep(pc) ==
    [pc |-> pc, made |-> {}, configured |-> FALSE, api |-> FALSE, asked |-> FALSE,
     stopped |-> FALSE, quiet |-> FALSE, cleaned |-> FALSE, disposed |-> FALSE,
     ok |-> TRUE, verified |-> FALSE, entries |-> FALSE, error |-> FALSE]

At(w, pc) == prep[w].pc = pc
Into(w, record) == prep' = [prep EXCEPT ![w] = record]
Go(w, pc) == [prep[w] EXCEPT !.pc = pc]
Lost(w, pc) == [prep[w] EXCEPT !.pc = pc, !.error = TRUE]
Bad(w, pc) == [prep[w] EXCEPT !.pc = pc, !.ok = FALSE]
Around == UNCHANGED <<capture, batch, report>>
Alone == Around /\ UNCHANGED run
Reading == Alone /\ UNCHANGED world

\* validate_paths_absent
PathsAbsent == world.runDir = None /\ ~world.results /\ world.logDir = None

\* build_run_paths comes before everything; then settings, targets,
\* configuration and source hashes.
BeginPreparation(w) ==
    /\ At(w, "idle")
    /\ IF PathsAbsent
       THEN \/ Sound /\ Into(w, Go(w, "inspect"))
            \/ Fault /\ \E pc \in {"artifacts", "over"} : Into(w, Lost(w, pc))
       ELSE Sound /\ Into(w, Lost(w, "over"))
    /\ Reading

InspectTargets(w) ==
    /\ At(w, "inspect")
    /\ \/ /\ Sound
          /\ Into(w, IF PathsAbsent /\ world.schema = None /\ world.database = None
                     THEN Go(w, "schema") ELSE Lost(w, "artifacts"))
       \/ Fault /\ Into(w, Lost(w, "artifacts"))
    /\ Reading

\* A container is created if the name is free, and remembered if the creation
\* is answered.
Create(w, container, next) ==
    LET created == [world EXCEPT ![container] = w]
    IN IF world[container] # None
       THEN Sound /\ UNCHANGED world /\ Into(w, Lost(w, "stop"))
       ELSE \/ /\ Sound /\ world' = created
               /\ Into(w, [Go(w, next) EXCEPT !.made = @ \cup {container}])
            \/ Fault /\ world' \in {world, created} /\ Into(w, Lost(w, "stop"))

CreateSchema(w) == At(w, "schema") /\ Create(w, "schema", "path") /\ Alone
CreateDatabase(w) == At(w, "database") /\ Create(w, "database", "runDir") /\ Alone

VerifySearchPath(w) ==
    /\ At(w, "path")
    /\ (Sound /\ Into(w, Go(w, "database"))) \/ (Fault /\ Into(w, Lost(w, "stop")))
    /\ Reading

\* The runtime directory first: when the directory of the results exists
\* already it stays behind, and the run does not own it.
CreateRunDirectory(w) ==
    /\ At(w, "runDir")
    /\ LET half == [world EXCEPT !.runDir = w]
       IN IF world.runDir # None THEN Sound /\ UNCHANGED world /\ Into(w, Lost(w, "stop"))
          ELSE IF world.results THEN Sound /\ world' = half /\ Into(w, Lost(w, "stop"))
          ELSE \/ /\ Sound /\ world' = [half EXCEPT !.results = TRUE]
                  /\ Into(w, [Go(w, "configure") EXCEPT !.made = @ \cup {"runDir"}])
               \/ Fault /\ world' \in {world, half} /\ Into(w, Lost(w, "stop"))
    /\ Alone

\* Settings and engine are replaced and app.main imported, which opens the log.
ConfigureRuntime(w) ==
    /\ At(w, "configure")
    /\ LET logging == IF world.logDir = None THEN [world EXCEPT !.logDir = w] ELSE world
       IN \/ Sound /\ world' = logging /\ Into(w, [Go(w, "start") EXCEPT !.configured = TRUE])
          \/ /\ Fault /\ world' \in {world, logging}
             /\ Into(w, [Lost(w, "stop") EXCEPT !.configured = TRUE])
    /\ Alone

StartApi(w) ==
    /\ At(w, "start")
    /\ \/ Sound /\ Into(w, [Go(w, "ready") EXCEPT !.api = TRUE])
       \/ Fault /\ Into(w, Lost(w, "stop"))
    /\ Reading

WaitApiReady(w) ==
    /\ At(w, "ready")
    /\ (Sound /\ Into(w, Go(w, "retrieve"))) \/ (Fault /\ Into(w, Lost(w, "stop")))
    /\ Reading

RunRetrieval(w) ==
    /\ At(w, "retrieve")
    /\ run' = NewRun("retrieval", "aggregate")
    /\ Into(w, [Go(w, "retrieving") EXCEPT !.asked = TRUE])
    /\ UNCHANGED <<world, faults>> /\ Around

\* The dataset takes the groups the retrieval has supported, perhaps none.
BuildDataset(w) ==
    /\ At(w, "retrieving") /\ run.pc \in {"over", "refused"}
    /\ IF run.primary \/ run.failed # {} THEN Into(w, Lost(w, "stop"))
       ELSE \E some \in BOOLEAN :
               Into(w, [Go(w, "stop") EXCEPT !.entries = some, !.error = ~some])
    /\ Sound /\ Reading

PrepareStep(w) ==
    \/ BeginPreparation(w) \/ InspectTargets(w) \/ CreateSchema(w) \/ VerifySearchPath(w)
    \/ CreateDatabase(w) \/ CreateRunDirectory(w) \/ ConfigureRuntime(w) \/ StartApi(w)
    \/ WaitApiReady(w) \/ RunRetrieval(w) \/ BuildDataset(w)
=============================================================================
