---------------------------- MODULE EvaluationTools ----------------------------
(***************************************************************************)
(* The acceptance tools on their stores: one of the runs by itself, on the  *)
(* stores of an operator, or the preparation of the extension evaluation,   *)
(* invoked by several preparers under one run id, with a retrieval run      *)
(* inside it.                                                               *)
(***************************************************************************)
EXTENDS EvaluationTeardown

tools == <<world, run, faults, capture, batch, report, prep>>

Phases == [kind \in Kind |->
    CASE kind = "calibration" -> {"dataset", "snapshot", "aggregate"}
      [] kind = "persistence" -> {"fusion", "legacy"}
      [] OTHER -> {"aggregate"}]

\* A run by itself, perhaps on stores that are not empty or beside an old
\* capture; or the preparation, from nothing.
Init ==
    /\ faults = 0 /\ batch = NewBatch /\ report = NoReport
    /\ \/ \E kind \in Kind, left \in SUBSET SeedDoc : \E phase \in Phases[kind] :
             /\ run = NewRun(kind, phase)
             /\ world = [Untouched(Operator) EXCEPT
                            !.vectors = IF kind = "calibration" THEN {} ELSE left]
             /\ capture \in IF kind = "calibration" THEN {"none", "old"} ELSE {"none"}
             /\ prep = [w \in Preparer |-> NewPrep("absent")]
       \/ /\ run = [NewRun("retrieval", "aggregate") EXCEPT !.pc = "idle"]
          /\ world = Untouched(None) /\ capture = "none"
          /\ prep = [w \in Preparer |-> NewPrep("idle")]

Next ==
    \/ (SeedStep \/ CleanupStep) /\ UNCHANGED <<batch, report, prep>>
    \/ SampleStep /\ UNCHANGED prep
    \/ \E w \in Preparer : PrepareStep(w) \/ TeardownStep(w)

Spec == Init /\ [][Next]_tools

-----------------------------------------------------------------------------
\* Every variable stays in its domain: no sample of an agent goes beyond its
\* three decisions, and no more samples are recorded than were planned.
TypeOK ==
    /\ world \in World /\ run \in Run
    /\ faults \in 0 .. MaxFaults
    /\ capture \in {"none", "old", "new"}
    /\ batch \in Batch /\ report \in Report
    /\ prep \in [Preparer -> Prep]

\* What a run would leave behind: its data and, if it is isolated, its
\* database and its local paths.
Residue == HasData(world) \/ (Isolated /\ (world.database # None \/ world.local))

\* A run that ends without a cleanup error has left nothing, and whoever has
\* logged in is purged or reported.  Only the calibration may leave, without a
\* word, a user whose id it was never handed.
ResidueIsReported ==
    [][run'.pc = "over" /\ run.pc # "over" =>
          /\ Residue' /\ run'.failed = {} => run.kind = "calibration" /\ ~run.user
          /\ Isolated /\ world'.login => run'.failed \cap {"scope", "principal"} # {}]_tools

\* Once a run is under way no capture of an earlier one can be taken for its
\* own; and the dataset of a run that failed, or could not clean up, is gone
\* unless the file itself could not be removed.
CaptureIsFresh ==
    /\ capture = "old" => run.pc \in {"start", "refused"}
    /\ run.pc = "over" /\ run.phase = "dataset" /\ capture = "new" =>
          \/ ~run.primary /\ run.failed = {}
          \/ faults > 1

\* The result file of the answer run calls the batch completed, or the cleanup
\* verified, only if it was.
ReportIsTrue ==
    /\ report.verified => ~Residue
    /\ report.status = "completed" =>
          /\ run.pc = "over" /\ ~run.primary /\ run.failed = {}
          /\ report.verified /\ report.samples = Len(Plan)

\* The reservations cover the worst case of the agent's protocol: no call and
\* no sample of the plan is ever refused, and the batch stays below its cap.
BudgetCoversPlan ==
    /\ batch.stage # "blocked"
    /\ batch.reserved = batch.remaining
    /\ batch.attempted + batch.reserved <= Cap

\* Only the preparer that has created the schema drops it, although both know
\* it by the same name.
OwnSchemaOnly ==
    [][\A w \in Preparer :
          world.schema = w /\ world'.schema # w => prep'[w] # prep[w]]_tools

\* The schema outlives the API that serves from it.
SchemaOutlivesApi == \A w \in Preparer : prep[w].api => world.schema = w

\* A cleanup reported as verified has left no container of this preparer and no
\* API, and a preparation that returns a dataset has run and cleaned up its
\* retrieval.
VerifiedMeansGone ==
    \A w \in Preparer :
        /\ prep[w].verified =>
              /\ ~prep[w].api /\ world.logDir # w
              /\ \A c \in Container : world[c] # w
        /\ Returns(w) =>
              prep[w].verified /\ run.pc = "over" /\ ~run.primary /\ run.failed = {}
=============================================================================
