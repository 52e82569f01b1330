-------------------------- MODULE EvaluationSeeding --------------------------
(***************************************************************************)
(* The forward half of the acceptance runs: emptiness check, registration,  *)
(* seeding of confirmed documents through the API, and what each tool does  *)
(* with them (scripts/archive_v1_p14_acceptance.py,                         *)
(* archive_lushan_persistence_acceptance.py and                             *)
(* archive_world_bank_retrieval_acceptance.py).                             *)
(***************************************************************************)
EXTENDS EvaluationStores

VARIABLE capture   \* the capture file: "none", of an "old" run, or of this one ("new")

seeding == <<world, run, faults, capture>>

\* Where a failed run goes on: the calibration first discards its capture, the
\* answer run first records the failure.
Fail == [run EXCEPT !.primary = TRUE, !.doc = None, !.todo = run.seeded,
            !.pc = IF run.kind \in {"calibration", "answers"} THEN "discard"
                   ELSE IF run.user THEN "documents" ELSE "close"]
Refused == [run EXCEPT !.primary = TRUE, !.pc = "refused"]

\* _assert_empty_targets counts rows, chunks, files and threads.
AssertEmpty ==
    /\ run.pc = "start" /\ run.kind # "calibration"
    /\ \/ Sound /\ ~HasData(world) /\ run' = [run EXCEPT !.pc = "register"]
       \/ Sound /\ HasData(world) /\ run' = Refused
       \/ Fault /\ run' = Refused
    /\ UNCHANGED <<world, capture>>

\* Mutant: the capture of an earlier run stays.
KeepOldCapture(file) == capture' = file
\* Whatever an earlier run has captured goes before anything else is done.
DropOldCapture(file) == capture' = "none"
BeginCalibration ==
    /\ run.pc = "start" /\ run.kind = "calibration"
    /\ \/ Sound /\ DropOldCapture(capture) /\ run' = [run EXCEPT !.pc = "register"]
       \/ Fault /\ UNCHANGED capture /\ run' = Refused
    /\ UNCHANGED world

\* _register_tracked hands the id over at once; _register_and_login returns it
\* only together with the login.
RememberedAtOnce == Isolated

RegisterPrincipal ==
    /\ run.pc = "register"
    /\ Attempt([world EXCEPT !.user = TRUE],
               [run EXCEPT !.pc = "login", !.user = RememberedAtOnce], Fail)
    /\ UNCHANGED capture

LoginPrincipal ==
    /\ run.pc = "login"
    /\ Attempt([world EXCEPT !.login = TRUE],
               [run EXCEPT !.pc = "projects", !.user = TRUE, !.token = TRUE], Fail)
    /\ UNCHANGED capture

\* POST /projects writes the project and its knowledge base.
SeedProjects ==
    /\ run.pc = "projects"
    /\ \E p \in SeedProject \ run.listed :
          Attempt([world EXCEPT !.projects = @ \cup {p}, !.bases = @ \cup {p}],
                  [run EXCEPT !.listed = @ \cup {p},
                      !.pc = IF run.listed \cup {p} = SeedProject THEN "upload" ELSE "projects"],
                  Fail)
    /\ UNCHANGED capture

\* A document is remembered as soon as its upload is answered.
SeedUpload ==
    /\ run.pc = "upload"
    /\ \E d \in SeedDoc \ run.seeded :
          Attempt([world EXCEPT !.documents = @ \cup {d}, !.uploads = @ \cup {d},
                                !.local = TRUE],
                  [run EXCEPT !.seeded = @ \cup {d}, !.doc = d, !.pc = "confirm"], Fail)
    /\ UNCHANGED capture

\* Parse, manual draft, field updates, confirmation and index.
SeedConfirm ==
    /\ run.pc = "confirm"
    /\ Attempt([world EXCEPT !.vectors = @ \cup {run.doc}],
               [run EXCEPT !.doc = None,
                   !.pc = IF run.seeded = SeedDoc THEN "use" ELSE "upload"], Fail)
    /\ UNCHANGED capture

-----------------------------------------------------------------------------
Cleaning == [run EXCEPT !.pc = "documents", !.todo = run.seeded]

\* A step that only reads, or fails.
Look(next) ==
    /\ (Sound /\ run' = next) \/ (Fault /\ run' = Fail)
    /\ UNCHANGED <<world, capture>>

\* The calibration asks every question and reads the internal diagnostic.
CollectOutcomes ==
    /\ run.pc = "use" /\ run.kind = "calibration"
    /\ Look([run EXCEPT !.pc = IF run.phase = "aggregate" THEN "result" ELSE "capture"])
\* The retrieval run ranks the candidates of every query.
RankQueries ==
    /\ run.pc = "use" /\ run.kind = "retrieval"
    /\ Look([run EXCEPT !.pc = "probe"])
\* The persistence run asks, too, and compares two rankings.
DiagnoseRetrieval ==
    /\ run.pc = "use" /\ run.kind = "persistence"
    /\ Look([run EXCEPT !.pc = "persist"])

\* The scripted turn of the graph writes a thread and deletes it again, unless
\* the deletion itself fails.
ProbeGraph ==
    /\ run.pc = "probe"
    /\ \/ Sound /\ run' = Cleaning /\ world' = [world EXCEPT !.local = TRUE]
       \/ /\ Fault /\ run' = Fail
          /\ \E left \in SUBSET {"probe"} :
                world' = [world EXCEPT !.threads = left, !.local = TRUE]
    /\ UNCHANGED capture

\* The answers to the fused candidates are compared outside the stores.
CompareFusions ==
    /\ run.pc = "persist" /\ run.phase = "fusion"
    /\ Look(Cleaning)
\* The question route and the agent are asked; then a thread must be there.
AskLegacy ==
    /\ run.pc = "persist" /\ run.phase = "legacy"
    /\ \E talk \in SUBSET SeedProject :
          /\ world' = [world EXCEPT !.threads = talk]
          /\ (Sound /\ talk # {} /\ run' = Cleaning) \/ (Fault /\ run' = Fail)
    /\ UNCHANGED capture

\* The capture replaces its file atomically.
WriteCapture ==
    /\ run.pc = "capture"
    /\ \/ Sound /\ capture' = "new" /\ run' = [run EXCEPT !.pc = "result"]
       \/ Fault /\ UNCHANGED capture /\ run' = Fail
    /\ UNCHANGED world

\* The aggregate is saved before the cleanup, which may take long.
WriteResult ==
    /\ run.pc = "result"
    /\ \/ Sound /\ run' = [Cleaning EXCEPT !.pc = IF run.user THEN "documents" ELSE "close"]
       \/ Fault /\ run' = Fail
    /\ UNCHANGED <<world, capture>>

SeedStep ==
    \/ AssertEmpty \/ BeginCalibration \/ RegisterPrincipal \/ LoginPrincipal
    \/ SeedProjects \/ SeedUpload \/ SeedConfirm
    \/ CollectOutcomes \/ RankQueries \/ DiagnoseRetrieval
    \/ ProbeGraph \/ CompareFusions \/ AskLegacy \/ WriteCapture \/ WriteResult
=============================================================================
