--------------------------- MODULE EvaluationStores ---------------------------
(***************************************************************************)
(* The stores an acceptance run seeds through the API and has to leave      *)
(* empty (scripts/archive_*_acceptance.py), and the state of such a run:    *)
(* what it has written, what it knows it has written, and what went wrong.  *)
(***************************************************************************)
EXTENDS Naturals, Sequences, FiniteSets

CONSTANTS
    SeedProject, SeedDoc,  \* what a run seeds
    Home,                  \* the project of each seeded document
    Preparer,              \* invocations of the preparation, with one run id
    Operator, None,
    MaxFaults              \* bound on the failures of requests and stores

ASSUME HomeAssumption == Home \in [SeedDoc -> SeedProject]
ASSUME OwnerAssumption == {Operator, None} \cap Preparer = {} /\ Operator # None
ASSUME FaultAssumption == MaxFaults \in Nat

VARIABLES
    world,   \* rows, vectors, files and threads, and who made the containers
    run,     \* the acceptance run under way, or over
    faults

Owner == Preparer \cup {Operator, None}

\* The rows of one user (with logins and internal knowledge bases), the final
\* chunks, the uploaded files, the checkpoint threads, whether the local paths
\* exist, and the creator of each container the run id names.
World ==
    [user : BOOLEAN, login : BOOLEAN, bases : SUBSET SeedProject,
     projects : SUBSET SeedProject, documents : SUBSET SeedDoc,
     vectors : SUBSET SeedDoc, uploads : SUBSET SeedDoc,
     threads : SUBSET (SeedProject \cup {"probe"}), local : BOOLEAN,
     schema : Owner, database : Owner, runDir : Owner, logDir : Owner,
     results : BOOLEAN]
Untouched(owner) ==
    [user |-> FALSE, login |-> FALSE, bases |-> {}, projects |-> {}, documents |-> {},
     vectors |-> {}, uploads |-> {}, threads |-> {}, local |-> FALSE,
     schema |-> owner, database |-> owner, runDir |-> owner, logDir |-> None,
     results |-> FALSE]

HasRows(w) == w.user \/ w.login \/ (w.bases \cup w.projects \cup w.documents) # {}
HasData(w) == HasRows(w) \/ (w.vectors \cup w.uploads \cup w.threads) # {}

Kind == {"calibration", "persistence", "retrieval", "answers"}
Phase == {"dataset", "snapshot", "aggregate", "fusion", "legacy"}
RunPc == {"idle", "start", "register", "login", "projects", "upload", "confirm", "use",
          "persist", "probe", "capture", "result", "discard", "documents", "removal", "logout",
          "purge", "close", "chroma", "local", "verify", "report", "over", "refused"}
Step == {"scope", "document", "project", "logout", "principal", "close", "chroma",
         "local", "verify"}

\* user: is the identity remembered; token: is the client logged in; seeded and
\* listed: documents and projects the run knows of; todo: those of them it has
\* not tried to delete yet; failed: the cleanup steps that failed.
Run == [kind : Kind, phase : Phase, pc : RunPc, user : BOOLEAN, token : BOOLEAN,
        seeded : SUBSET SeedDoc, listed : SUBSET SeedProject,
        doc : SeedDoc \cup {None}, todo : SUBSET (SeedDoc \cup SeedProject),
        primary : BOOLEAN, failed : SUBSET Step]
NewRun(kind, phase) ==
    [kind |-> kind, phase |-> phase, pc |-> "start", user |-> FALSE, token |-> FALSE,
     seeded |-> {}, listed |-> {}, doc |-> None, todo |-> {}, primary |-> FALSE,
     failed |-> {}]

\* The runs that own their database and directories, and take them away.
Isolated == run.kind \in {"retrieval", "answers"}

Sound == UNCHANGED faults
Fault == faults < MaxFaults /\ faults' = faults + 1

\* A step of the script that succeeds as "after" and "next", or fails with the
\* script at "otherwise", whether or not it has taken effect.
Attempt(after, next, otherwise) ==
    \/ Sound /\ world' = after /\ run' = next
    \/ Fault /\ world' \in {world, after} /\ run' = otherwise
=============================================================================
