---------------------------- MODULE AnswerBudget ----------------------------
(***************************************************************************)
(* The samples of the answer acceptance, each under a reservation of model  *)
(* calls that has to cover the worst case of its route, and the result file *)
(* that is rewritten after each of them                                     *)
(* (scripts/archive_world_bank_answer_acceptance.py).                       *)
(***************************************************************************)
EXTENDS EvaluationCleanup

CONSTANTS
    Plan,  \* the routes of the samples, in order
    Cap    \* ATTEMPT_CAP

Reservation(route) == IF route = "FR039" THEN 1 ELSE 8
OnRoute(route) == {i \in DOMAIN Plan : Plan[i] = route}

\* The run refuses to start with any other cap.
ASSUME PlanAssumption ==
    /\ Plan \in Seq({"FR039", "FR042"})
    /\ Cap = Cardinality(OnRoute("FR039")) + 8 * Cardinality(OnRoute("FR042"))

VARIABLES
    batch,   \* the budget, the samples recorded, and how far the model is with this one
    report   \* the result file

Stage == {"idle", "answering", "deciding", "judging", "answered", "failed", "blocked"}
Batch == [attempted : Nat, reserved : Nat, remaining : 0 .. 8, done : 0 .. Len(Plan),
          stage : Stage, decisions : 0 .. 3, again : BOOLEAN]
NewBatch == [attempted |-> 0, reserved |-> 0, remaining |-> 0, done |-> 0,
             stage |-> "idle", decisions |-> 0, again |-> FALSE]
Report == [status : {"none", "running", "stopped", "failed", "completed"},
           samples : 0 .. Len(Plan), verified : BOOLEAN]
NoReport == [status |-> "none", samples |-> 0, verified |-> FALSE]

Sampling == run.kind = "answers" /\ run.pc = "use"
Route == Plan[batch.done + 1]
InCall == Sampling /\ UNCHANGED <<world, run, faults, capture, report>>

\* AttemptBudget.request gives back, at its end, what was not used.
Released == [batch EXCEPT !.reserved = @ - batch.remaining, !.remaining = 0,
                          !.stage = "idle", !.decisions = 0, !.again = FALSE]

\* Reserve for the worst case, then ask: the agent in a session of its own,
\* whose message writes a thread, or the one question route.
OpenSample ==
    /\ Sampling /\ batch.stage = "idle" /\ batch.done < Len(Plan)
    /\ UNCHANGED <<run, capture, report>>
    /\ LET held == [batch EXCEPT !.reserved = @ + Reservation(Route),
                                 !.remaining = Reservation(Route)]
       IN IF batch.remaining > 0 \/ batch.attempted + batch.reserved + Reservation(Route) > Cap
          THEN Sound /\ UNCHANGED world /\ batch' = [batch EXCEPT !.stage = "blocked"]
          ELSE \/ /\ Sound /\ Route = "FR039" /\ UNCHANGED world
                  /\ batch' = [held EXCEPT !.stage = "answering"]
               \/ /\ Sound /\ Route = "FR042" /\ batch' = [held EXCEPT !.stage = "deciding"]
                  /\ \E p \in SeedProject :
                        world' = [world EXCEPT !.threads = @ \cup {p}]
               \/ Fault /\ UNCHANGED world /\ batch' = [held EXCEPT !.stage = "failed"]

\* AttemptBudget.consume takes one call from the reservation before the model
\* is asked; "after" are the batches that call may lead to.
Used == [batch EXCEPT !.attempted = @ + 1, !.reserved = @ - 1, !.remaining = @ - 1]
Call(after) ==
    IF batch.remaining > 0 /\ batch.attempted < Cap
    THEN batch' \in after
    ELSE batch' = [batch EXCEPT !.stage = "blocked"]

\* Mutant: a call is retried as long as it fails.
RetryAlways(b) == {[b EXCEPT !.again = TRUE]}
\* A transport error is retried once, by the graph and by the judge.
Retry(b) == IF b.again THEN {} ELSE {[b EXCEPT !.again = TRUE]}
Ending(b, stages) == {[b EXCEPT !.stage = s, !.again = FALSE] : s \in stages}

\* FR-039: no evidence, no call; otherwise a single one.
AnswerDirectly ==
    /\ InCall /\ batch.stage = "answering"
    /\ \/ batch' = [batch EXCEPT !.stage = "answered"]
       \/ Call(Ending(Used, {"answered", "failed"}))

\* Mutant: a third tool call is still allowed.
OneToolMore(b) == b.decisions < 3
\* At most two tools, so three decisions.
MoreTools(b) == b.decisions < 2
\* FR-042: up to three decisions, the last of them without a tool; the judge
\* only after a tool has found evidence.
Decide ==
    /\ InCall /\ batch.stage = "deciding"
    /\ Call(Retry(Used) \cup
            Ending([Used EXCEPT !.decisions = @ + 1],
                   {"answered", "failed"}
                       \cup (IF MoreTools(Used) THEN {"deciding"} ELSE {})
                       \cup (IF Used.decisions > 0 THEN {"judging"} ELSE {})))
Judge ==
    /\ InCall /\ batch.stage = "judging"
    /\ Call(Retry(Used) \cup Ending(Used, {"answered", "failed"}))

-----------------------------------------------------------------------------
Progress(status) == [status |-> status, samples |-> batch.done, verified |-> FALSE]

\* A bad answer is a result like any other; the file is rewritten.
CloseSample ==
    /\ Sampling /\ batch.stage = "answered"
    /\ batch' = [Released EXCEPT !.done = @ + 1]
    /\ \/ Sound /\ report' = [Progress("running") EXCEPT !.samples = @ + 1] /\ UNCHANGED run
       \/ Fault /\ UNCHANGED report /\ run' = Fail
    /\ UNCHANGED <<world, capture>>

\* A request that failed stops the batch.
AbandonSample ==
    /\ Sampling /\ batch.stage \in {"failed", "blocked"}
    /\ batch' = [Released EXCEPT !.done = @ + 1]
    /\ \/ Sound /\ report' = [Progress("stopped") EXCEPT !.samples = @ + 1]
       \/ Fault /\ UNCHANGED report
    /\ run' = Fail
    /\ UNCHANGED <<world, capture>>

FinishBatch ==
    /\ Sampling /\ batch.stage = "idle" /\ batch.done = Len(Plan)
    /\ run' = Cleaning
    /\ UNCHANGED <<world, faults, capture, batch, report>>

\* The failure is on file before the cleanup begins.
RecordFailure ==
    /\ run.pc = "discard" /\ run.kind = "answers"
    /\ \/ Sound /\ report' = Progress("failed")
       \/ Fault /\ UNCHANGED report
    /\ run' = [run EXCEPT !.pc = IF run.user THEN "documents" ELSE "close"]
    /\ UNCHANGED <<world, capture, batch>>

\* Mutant: the status of the batch stands whatever the cleanup says.
FinalStatusOfBatch == IF run.primary THEN "failed" ELSE "completed"
FinalStatus == IF run.primary \/ run.failed # {} THEN "failed" ELSE "completed"

FinalReport ==
    /\ run.pc = "report"
    /\ \/ Sound /\ report' = [Progress(FinalStatus) EXCEPT !.verified = run.failed = {}]
       \/ Fault /\ UNCHANGED report
    /\ run' = [run EXCEPT !.pc = "over"]
    /\ UNCHANGED <<world, capture, batch>>

SampleStep ==
    \/ OpenSample \/ AnswerDirectly \/ Decide \/ Judge
    \/ CloseSample \/ AbandonSample \/ FinishBatch \/ RecordFailure \/ FinalReport
=============================================================================
