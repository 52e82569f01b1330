------------------------- MODULE AnswerBudget_proofs -------------------------
(***************************************************************************)
(* The reservations of the answer acceptance cover every plan: however the  *)
(* agent decides and however often the transport fails, no call and no      *)
(* sample is refused.                                                       *)
(***************************************************************************)
EXTENDS EvaluationTools, FiniteSetTheorems, TLAPS

\* What the samples after the k-th will reserve.
Later(route, k) == {i \in OnRoute(route) : i > k}
Rest(k) == Cardinality(Later("FR039", k)) + 8 * Cardinality(Later("FR042", k))

\* The calls the sample may still make: two for each decision, two for the
\* judge, and one less while a call is being repeated.
Spent == IF batch.again THEN 1 ELSE 0
Enough ==
    /\ batch.stage = "answering" => batch.remaining >= 1
    /\ batch.stage = "deciding" => batch.remaining >= 2 * (3 - batch.decisions) + 2 - Spent
    /\ batch.stage = "judging" => batch.remaining >= 2 - Spent

BatchShape ==
    /\ batch \in Batch
    /\ batch.stage # "blocked"
    /\ batch.stage = "idle" => batch.remaining = 0 /\ batch.decisions = 0 /\ batch.again = FALSE
    /\ batch.stage # "idle" => batch.done < Len(Plan)
    /\ batch.stage = "deciding" => batch.decisions \in 0 .. 2

\* The inductive invariant: what is needed is reserved, and the samples that
\* follow still fit under the cap.
Covered ==
    /\ BatchShape
    /\ batch.reserved = batch.remaining
    /\ Enough
    /\ batch.attempted + batch.remaining
         + Rest(IF batch.stage = "idle" THEN batch.done ELSE batch.done + 1) <= Cap

-----------------------------------------------------------------------------
LEMMA PlanFacts ==
    /\ Len(Plan) \in Nat
    /\ DOMAIN Plan = 1 .. Len(Plan)
    /\ \A i \in 1 .. Len(Plan) : Plan[i] \in {"FR039", "FR042"}
    /\ Cap = Rest(0)
<1>1. Plan \in Seq({"FR039", "FR042"})
  BY PlanAssumption
<1>2. /\ Len(Plan) \in Nat
      /\ DOMAIN Plan = 1 .. Len(Plan)
      /\ \A i \in 1 .. Len(Plan) : Plan[i] \in {"FR039", "FR042"}
  BY <1>1
<1>3. \A route : Later(route, 0) = OnRoute(route)
  BY <1>2 DEF Later, OnRoute
<1> QED
  BY <1>2, <1>3, PlanAssumption DEF Rest

\* The later samples of a route are finitely many.
LEMMA LaterFinite ==
    ASSUME NEW route, NEW k \in Nat
    PROVE  /\ IsFiniteSet(Later(route, k))
           /\ Cardinality(Later(route, k)) \in Nat
<1>1. IsFiniteSet(1 .. Len(Plan))
  BY PlanFacts, FS_Interval
<1>2. Later(route, k) \subseteq 1 .. Len(Plan)
  BY PlanFacts DEF Later, OnRoute
<1>3. IsFiniteSet(Later(route, k))
  BY <1>1, <1>2, FS_Subset
<1> QED
  BY <1>3, FS_CardinalityType

\* Passing the next sample takes exactly its reservation off the rest.
LEMMA RestStep ==
    ASSUME NEW k \in Nat, k < Len(Plan)
    PROVE  /\ Rest(k) \in Nat /\ Rest(k + 1) \in Nat
           /\ Rest(k) = Rest(k + 1) + Reservation(Plan[k + 1])
<1>1. k + 1 \in 1 .. Len(Plan)
  BY PlanFacts
<1>2. ASSUME NEW route
      PROVE  Cardinality(Later(route, k)) =
                 Cardinality(Later(route, k + 1)) + (IF Plan[k + 1] = route THEN 1 ELSE 0)
  <2>1. CASE Plan[k + 1] = route
    <3>1. Later(route, k) = Later(route, k + 1) \cup {k + 1}
      BY <1>1, <2>1, PlanFacts DEF Later, OnRoute
    <3>2. k + 1 \notin Later(route, k + 1)
      BY DEF Later
    <3>3. IsFiniteSet(Later(route, k + 1))
      BY LaterFinite
    <3> QED
      BY <2>1, <3>1, <3>2, <3>3, FS_AddElement
  <2>2. CASE Plan[k + 1] # route
    <3>1. Later(route, k) = Later(route, k + 1)
      BY <1>1, <2>2, PlanFacts DEF Later, OnRoute
    <3> QED
      BY <2>2, <3>1, LaterFinite
  <2> QED
    BY <2>1, <2>2
<1>3. /\ Cardinality(Later("FR039", k + 1)) \in Nat
      /\ Cardinality(Later("FR042", k + 1)) \in Nat
  BY LaterFinite
<1>4. Plan[k + 1] \in {"FR039", "FR042"}
  BY <1>1, PlanFacts
<1>5. CASE Plan[k + 1] = "FR039"
  <2>1. /\ Cardinality(Later("FR039", k)) = Cardinality(Later("FR039", k + 1)) + 1
        /\ Cardinality(Later("FR042", k)) = Cardinality(Later("FR042", k + 1))
    BY <1>2, <1>3, <1>5
  <2> QED
    BY <1>3, <1>5, <2>1 DEF Rest, Reservation
<1>6. CASE Plan[k + 1] = "FR042"
  <2>1. /\ Cardinality(Later("FR042", k)) = Cardinality(Later("FR042", k + 1)) + 1
        /\ Cardinality(Later("FR039", k)) = Cardinality(Later("FR039", k + 1))
    BY <1>2, <1>3, <1>6
  <2> QED
    BY <1>3, <1>6, <2>1 DEF Rest, Reservation
<1> QED
  BY <1>4, <1>5, <1>6

LEMMA RestNat == ASSUME NEW k \in Nat PROVE Rest(k) \in Nat
BY LaterFinite DEF Rest

LEMMA CapNat == Cap \in Nat
BY PlanFacts, RestNat
-----------------------------------------------------------------------------
LEMMA CoveredInit == Init => Covered
<1> SUFFICES ASSUME Init PROVE Covered
  OBVIOUS
<1>1. batch = NewBatch
  BY DEF Init
<1>2. BatchShape
  BY <1>1, PlanFacts DEF BatchShape, NewBatch, Batch, Stage
<1>3. Enough
  BY <1>1 DEF NewBatch, Enough
<1> QED
  BY <1>1, <1>2, <1>3, PlanFacts, CapNat DEF Covered, NewBatch

LEMMA CoveredStutter == Covered /\ UNCHANGED batch => Covered'
BY DEF Covered, BatchShape, Enough, Spent

\* A sample is opened only with its whole reservation, which always fits.
LEMMA CoveredOpen == Covered /\ OpenSample => Covered'
<1> SUFFICES ASSUME Covered, OpenSample PROVE Covered'
  OBVIOUS
<1> DEFINE k == batch.done
           q == batch.reserved + Reservation(Route)
           held == [batch EXCEPT !.reserved = q,
                                 !.remaining = Reservation(Route)]
<1>0. batch \in Batch
  BY DEF Covered, BatchShape
<1>1. /\ k \in Nat /\ k < Len(Plan) /\ batch.stage = "idle" /\ batch.remaining = 0
      /\ batch.attempted \in Nat /\ batch.reserved = 0
  BY PlanFacts DEF OpenSample, Covered, BatchShape, Batch
<1>2. Plan[k + 1] \in {"FR039", "FR042"}
  BY <1>1, PlanFacts
<1>3. Reservation(Route) = (IF Route = "FR039" THEN 1 ELSE 8) /\ Route = Plan[k + 1]
  BY DEF Reservation, Route
<1>4. /\ Rest(k + 1) \in Nat
      /\ batch.attempted + Reservation(Route) + Rest(k + 1) <= Cap
  BY <1>1, <1>3, RestStep, CapNat DEF Covered, Route
<1>5. ~(batch.remaining > 0 \/ batch.attempted + batch.reserved + Reservation(Route) > Cap)
  BY <1>1, <1>2, <1>3, <1>4, CapNat
<1>6. \/ Route = "FR039" /\ batch' = [held EXCEPT !.stage = "answering"]
      \/ Route = "FR042" /\ batch' = [held EXCEPT !.stage = "deciding"]
      \/ batch' = [held EXCEPT !.stage = "failed"]
  BY <1>5 DEF OpenSample
<1>7. batch.again = FALSE /\ batch.decisions = 0
  BY <1>1 DEF Covered, BatchShape
<1>8. /\ held \in Batch
      /\ held.attempted = batch.attempted /\ held.done = k
      /\ held.decisions = 0 /\ held.again = FALSE
      /\ held.reserved = Reservation(Route) /\ held.remaining = Reservation(Route)
  <2>1. q \in Nat /\ q = Reservation(Route) /\ Reservation(Route) \in 0 .. 8
    BY <1>1, <1>3
  <2> HIDE DEF q
  <2> QED
    BY <1>0, <1>7, <2>1 DEF Batch
<1>9. /\ batch' \in Batch /\ batch'.attempted = batch.attempted /\ batch'.done = k
      /\ batch'.decisions = 0 /\ batch'.again = FALSE
      /\ batch'.reserved = Reservation(Route) /\ batch'.remaining = Reservation(Route)
      /\ \/ Route = "FR039" /\ batch'.stage = "answering"
         \/ Route = "FR042" /\ batch'.stage = "deciding"
         \/ batch'.stage = "failed"
  <2> HIDE DEF held
  <2> QED
    BY <1>6, <1>8 DEF Batch, Stage
<1>10. Spent' = 0
  BY <1>9 DEF Spent
<1>11. BatchShape'
  BY <1>1, <1>9 DEF BatchShape
<1>12. Enough'
  <2>1. Route = "FR042" => Reservation(Route) = 8
    BY <1>3
  <2> QED
    BY <1>3, <1>9, <1>10, <2>1 DEF Enough
<1> QED
  BY <1>1, <1>3, <1>4, <1>9, <1>11, <1>12, CapNat DEF Covered

\* A call of a sample that needs one is never refused.
LEMMA UsedFields ==
    ASSUME Covered, batch.stage # "idle", batch.remaining >= 1
    PROVE  /\ batch.remaining > 0 /\ batch.attempted < Cap
           /\ Used \in Batch
           /\ Used.attempted = batch.attempted + 1
           /\ Used.reserved = batch.remaining - 1 /\ Used.remaining = batch.remaining - 1
           /\ Used.done = batch.done /\ Used.stage = batch.stage
           /\ Used.decisions = batch.decisions /\ Used.again = batch.again
<1>1. /\ batch \in Batch /\ batch.done \in Nat /\ batch.attempted \in Nat
      /\ batch.remaining \in 0 .. 8 /\ batch.reserved = batch.remaining
  BY PlanFacts DEF Covered, BatchShape, Batch
<1>2. Rest(batch.done + 1) \in Nat
  BY <1>1, RestNat
<1>3. batch.attempted < Cap
  BY <1>1, <1>2, CapNat DEF Covered
<1> DEFINE a == batch.attempted + 1
           r == batch.reserved - 1
           m == batch.remaining - 1
<1>4. a \in Nat /\ r \in Nat /\ m \in 0 .. 8 /\ r = m
  BY <1>1
<1>5. Used = [batch EXCEPT !.attempted = a, !.reserved = r, !.remaining = m]
  BY DEF Used
<1> HIDE DEF a, r, m
<1>6. /\ Used \in Batch /\ Used.attempted = a /\ Used.reserved = r /\ Used.remaining = m
      /\ Used.done = batch.done /\ Used.stage = batch.stage
      /\ Used.decisions = batch.decisions /\ Used.again = batch.again
  BY <1>1, <1>4, <1>5 DEF Batch
<1> QED
  BY <1>1, <1>3, <1>4, <1>6 DEF a, r, m

\* What is left to show of a step that has consumed a call.
LEMMA CoveredAfterCall ==
    ASSUME Covered, batch.stage # "idle", batch.remaining >= 1,
           batch' \in Batch, batch'.done = Used.done,
           batch'.attempted = Used.attempted, batch'.reserved = Used.reserved,
           batch'.remaining = Used.remaining,
           batch'.stage \notin {"idle", "blocked"},
           batch'.stage = "deciding" => batch'.decisions \in 0 .. 2,
           Enough'
    PROVE  Covered'
<1>1. BatchShape'
  BY UsedFields DEF Covered, BatchShape
<1>2. batch'.attempted + batch'.remaining = batch.attempted + batch.remaining
  <2>1. batch.attempted \in Nat /\ batch.remaining \in 0 .. 8
    BY DEF Covered, BatchShape, Batch
  <2> QED
    BY <2>1, UsedFields
<1> QED
  BY <1>1, <1>2, UsedFields DEF Covered

LEMMA CoveredAnswer == Covered /\ AnswerDirectly => Covered'
<1> SUFFICES ASSUME Covered, AnswerDirectly PROVE Covered'
  OBVIOUS
<1>1. batch.stage = "answering" /\ batch.remaining >= 1 /\ batch \in Batch
  BY DEF AnswerDirectly, Covered, BatchShape, Enough
<1>2. \/ batch' = [batch EXCEPT !.stage = "answered"]
      \/ \E t \in {"answered", "failed"} : batch' = [Used EXCEPT !.stage = t, !.again = FALSE]
  BY <1>1, UsedFields DEF AnswerDirectly, Call, Ending, Used
<1>3. CASE batch' = [batch EXCEPT !.stage = "answered"]
  <2>1. /\ batch' \in Batch /\ batch'.done = batch.done /\ batch'.stage = "answered"
        /\ batch'.attempted = batch.attempted /\ batch'.reserved = batch.reserved
        /\ batch'.remaining = batch.remaining
    BY <1>1, <1>3 DEF Batch, Stage
  <2> QED
    BY <1>1, <2>1 DEF Covered, BatchShape, Enough
<1>4. CASE \E t \in {"answered", "failed"} : batch' = [Used EXCEPT !.stage = t, !.again = FALSE]
  <2>1. /\ batch' \in Batch /\ batch'.done = Used.done
        /\ batch'.attempted = Used.attempted /\ batch'.reserved = Used.reserved
        /\ batch'.remaining = Used.remaining /\ batch'.stage \in {"answered", "failed"}
    BY <1>1, <1>4, UsedFields DEF Batch, Stage
  <2> QED
    BY <1>1, <2>1, CoveredAfterCall DEF Enough
<1> QED
  BY <1>2, <1>3, <1>4

\* The retry of a call that has failed once.
LEMMA RetryFields ==
    ASSUME Used \in Batch, NEW c \in Retry(Used)
    PROVE  /\ Used.again = FALSE
           /\ c \in Batch /\ c.done = Used.done /\ c.attempted = Used.attempted
           /\ c.reserved = Used.reserved /\ c.remaining = Used.remaining
           /\ c.stage = Used.stage /\ c.decisions = Used.decisions /\ c.again = TRUE
BY DEF Retry, Batch

LEMMA CoveredDecide == Covered /\ Decide => Covered'
<1> SUFFICES ASSUME Covered, Decide PROVE Covered'
  OBVIOUS
<1>1. /\ batch.stage = "deciding" /\ batch.decisions \in 0 .. 2 /\ batch \in Batch
      /\ batch.remaining \in 0 .. 8
      /\ batch.remaining >= 2 * (3 - batch.decisions) + 2 - Spent
  BY DEF Decide, Covered, BatchShape, Enough, Batch
<1>2. Spent \in 0 .. 1
  BY DEF Spent
<1>3. batch.remaining >= 1
  BY <1>1, <1>2
<1> DEFINE d == batch.decisions + 1
           moved == [Used EXCEPT !.decisions = d]
<1>4. /\ d \in 0 .. 3 /\ d = Used.decisions + 1 /\ Used \in Batch
      /\ Used.decisions \in 0 .. 2
      /\ Used.remaining = batch.remaining - 1 /\ Used.again = batch.again
      /\ Used.stage = "deciding"
  BY <1>1, <1>3, UsedFields
<1>5. \/ batch' \in Retry(Used)
      \/ \E t \in {"answered", "failed", "deciding", "judging"} :
            /\ batch' = [moved EXCEPT !.stage = t, !.again = FALSE]
            /\ t = "deciding" => d <= 2
            /\ t = "judging" => d > 1
  <2>1. [Used EXCEPT !.decisions = @ + 1] = moved
    BY <1>4
  <2>2. batch' \in Retry(Used) \cup
            Ending(moved, {"answered", "failed"}
                              \cup (IF MoreTools(Used) THEN {"deciding"} ELSE {})
                              \cup (IF Used.decisions > 0 THEN {"judging"} ELSE {}))
    BY <1>1, <1>3, <2>1, UsedFields DEF Decide, Call, Used
  <2> HIDE DEF d, moved
  <2> QED
    <3>1. CASE batch' \in Retry(Used)
      BY <3>1
    <3>2. CASE batch' \notin Retry(Used)
      <4>1. PICK t \in {"answered", "failed"}
                           \cup (IF MoreTools(Used) THEN {"deciding"} ELSE {})
                           \cup (IF Used.decisions > 0 THEN {"judging"} ELSE {}) :
                   batch' = [moved EXCEPT !.stage = t, !.again = FALSE]
        BY <2>2, <3>2 DEF Ending
      <4>2. /\ t \in {"answered", "failed", "deciding", "judging"}
            /\ t = "deciding" => d <= 2
            /\ t = "judging" => d > 1
        BY <1>4, <4>1 DEF MoreTools
      <4> QED
        BY <4>1, <4>2
    <3> QED
      BY <3>1, <3>2
<1>6. CASE batch' \in Retry(Used)
  <2>1. /\ batch.again = FALSE
        /\ batch' \in Batch /\ batch'.done = Used.done
        /\ batch'.attempted = Used.attempted /\ batch'.reserved = Used.reserved
        /\ batch'.remaining = Used.remaining /\ batch'.stage = "deciding"
        /\ batch'.decisions = batch.decisions /\ batch'.again = TRUE
    BY <1>1, <1>3, <1>4, <1>6, RetryFields, UsedFields
  <2>2. Spent = 0 /\ Spent' = 1
    BY <2>1 DEF Spent
  <2>3. Enough'
    BY <1>1, <1>4, <2>1, <2>2 DEF Enough
  <2> QED
    BY <1>1, <1>3, <2>1, <2>3, CoveredAfterCall
<1>7. CASE \E t \in {"answered", "failed", "deciding", "judging"} :
              /\ batch' = [moved EXCEPT !.stage = t, !.again = FALSE]
              /\ t = "deciding" => d <= 2
              /\ t = "judging" => d > 1
  <2>1. /\ moved \in Batch /\ moved.done = Used.done /\ moved.attempted = Used.attempted
        /\ moved.reserved = Used.reserved /\ moved.remaining = Used.remaining
        /\ moved.decisions = d
    <3> HIDE DEF d
    <3> QED
      BY <1>4 DEF Batch
  <2>2. /\ batch' \in Batch /\ batch'.done = Used.done
        /\ batch'.attempted = Used.attempted /\ batch'.reserved = Used.reserved
        /\ batch'.remaining = Used.remaining /\ batch'.decisions = d
        /\ batch'.again = FALSE
        /\ batch'.stage \in {"answered", "failed", "deciding", "judging"}
        /\ batch'.stage = "deciding" => d <= 2
        /\ batch'.stage = "judging" => d > 1
    <3> HIDE DEF d, moved
    <3> QED
      BY <1>7, <2>1 DEF Batch, Stage
  <2>3. Spent' = 0
    BY <2>2 DEF Spent
  <2>4. Enough'
    BY <1>1, <1>2, <1>4, <2>2, <2>3 DEF Enough
  <2>5. batch'.stage = "deciding" => batch'.decisions \in 0 .. 2
    BY <1>4, <2>2
  <2> HIDE DEF d, moved
  <2> QED
    BY <1>1, <1>3, <2>2, <2>4, <2>5, CoveredAfterCall
<1> HIDE DEF d, moved
<1> QED
  BY <1>5, <1>6, <1>7

LEMMA CoveredJudge == Covered /\ Judge => Covered'
<1> SUFFICES ASSUME Covered, Judge PROVE Covered'
  OBVIOUS
<1>1. /\ batch.stage = "judging" /\ batch \in Batch /\ batch.remaining \in 0 .. 8
      /\ batch.remaining >= 2 - Spent
  BY DEF Judge, Covered, BatchShape, Enough, Batch
<1>2. Spent \in 0 .. 1 /\ batch.remaining >= 1
  BY <1>1 DEF Spent
<1>3. /\ Used \in Batch /\ Used.remaining = batch.remaining - 1
      /\ Used.again = batch.again /\ Used.stage = "judging"
  BY <1>1, <1>2, UsedFields
<1>4. \/ batch' \in Retry(Used)
      \/ \E t \in {"answered", "failed"} : batch' = [Used EXCEPT !.stage = t, !.again = FALSE]
  BY <1>1, <1>2, UsedFields DEF Judge, Call, Ending, Used
<1>5. CASE batch' \in Retry(Used)
  <2>1. /\ batch.again = FALSE
        /\ batch' \in Batch /\ batch'.done = Used.done
        /\ batch'.attempted = Used.attempted /\ batch'.reserved = Used.reserved
        /\ batch'.remaining = Used.remaining /\ batch'.stage = "judging"
        /\ batch'.again = TRUE
    BY <1>3, <1>5, RetryFields
  <2>2. Spent = 0 /\ Spent' = 1
    BY <2>1 DEF Spent
  <2>3. Enough'
    BY <1>1, <1>3, <2>1, <2>2 DEF Enough
  <2> QED
    BY <1>1, <1>2, <2>1, <2>3, CoveredAfterCall
<1>6. CASE \E t \in {"answered", "failed"} : batch' = [Used EXCEPT !.stage = t, !.again = FALSE]
  <2>1. /\ batch' \in Batch /\ batch'.done = Used.done
        /\ batch'.attempted = Used.attempted /\ batch'.reserved = Used.reserved
        /\ batch'.remaining = Used.remaining /\ batch'.stage \in {"answered", "failed"}
    BY <1>3, <1>6 DEF Batch, Stage
  <2> QED
    BY <1>1, <1>2, <2>1, CoveredAfterCall DEF Enough
<1> QED
  BY <1>4, <1>5, <1>6

-----------------------------------------------------------------------------
LEMMA IdleRecord ==
    ASSUME NEW a \in Nat, NEW n \in 0 .. Len(Plan)
    PROVE  [attempted |-> a, reserved |-> 0, remaining |-> 0, done |-> n,
            stage |-> "idle", decisions |-> 0, again |-> FALSE] \in Batch
BY DEF Batch, Stage

\* A sample that ends, well or not, gives back what it has not used.
LEMMA CoveredRelease ==
    ASSUME Covered, batch.stage # "idle", batch' = [Released EXCEPT !.done = @ + 1]
    PROVE  Covered'
<1>1. /\ batch \in Batch /\ batch.done \in 0 .. Len(Plan) /\ batch.done < Len(Plan)
      /\ batch.attempted \in Nat /\ batch.remaining \in 0 .. 8
      /\ batch.reserved = batch.remaining
  BY DEF Covered, BatchShape, Batch
<1> DEFINE r == batch.reserved - batch.remaining
           n == batch.done + 1
<1>2. r = 0 /\ n \in 0 .. Len(Plan) /\ n \in Nat
  BY <1>1, PlanFacts
<1>3. batch' = [attempted |-> batch.attempted, reserved |-> r, remaining |-> 0,
                done |-> n, stage |-> "idle", decisions |-> 0, again |-> FALSE]
  <2>1. Released = [batch EXCEPT !.reserved = r, !.remaining = 0, !.stage = "idle",
                                 !.decisions = 0, !.again = FALSE]
    BY DEF Released
  <2>2. Released.done = batch.done
    BY <1>1, <2>1 DEF Batch
  <2>3. batch' = [Released EXCEPT !.done = n]
    BY <2>2
  <2> HIDE DEF r, n
  <2> QED
    BY <1>1, <2>1, <2>3 DEF Batch
<1>4. /\ batch' \in Batch /\ batch'.attempted = batch.attempted /\ batch'.reserved = 0
      /\ batch'.remaining = 0 /\ batch'.stage = "idle" /\ batch'.decisions = 0
      /\ batch'.again = FALSE /\ batch'.done = n
  <2> HIDE DEF r, n
  <2>1. batch' \in Batch
    BY <1>1, <1>2, <1>3, IdleRecord
  <2>2. /\ batch'.attempted = batch.attempted /\ batch'.reserved = 0
        /\ batch'.remaining = 0 /\ batch'.stage = "idle" /\ batch'.decisions = 0
    BY <1>1, <1>2, <1>3 DEF Batch
  <2>3. batch'.again = FALSE /\ batch'.done = n
    BY <1>1, <1>2, <1>3 DEF Batch
  <2> QED
    BY <2>1, <2>2, <2>3
<1>5. BatchShape' /\ Enough'
  <2>1. BatchShape'
    BY <1>4 DEF BatchShape
  <2>2. Enough'
    BY <1>4 DEF Enough
  <2> QED
    BY <2>1, <2>2
<1>6. batch.attempted + Rest(n) <= Cap
  <2>1. batch.attempted + batch.remaining + Rest(n) <= Cap
    BY DEF Covered
  <2>2. Rest(n) \in Nat
    BY <1>2, RestNat
  <2> HIDE DEF n
  <2> QED
    BY <1>1, <2>1, <2>2, CapNat
<1> QED
  BY <1>1, <1>2, <1>4, <1>5, <1>6, RestNat DEF Covered

\* Outside the samples the budget stands still.
LEMMA CoveredElsewhere ==
    ASSUME Covered, (SeedStep \/ CleanupStep) /\ UNCHANGED <<batch, report, prep>>
    PROVE  Covered'
BY CoveredStutter

LEMMA CoveredSample == Covered /\ SampleStep => Covered'
<1> SUFFICES ASSUME Covered, SampleStep PROVE Covered'
  OBVIOUS
<1>1. CASE CloseSample \/ AbandonSample
  BY <1>1, CoveredRelease DEF CloseSample, AbandonSample
<1>2. CASE FinishBatch \/ RecordFailure \/ FinalReport
  BY <1>2, CoveredStutter DEF FinishBatch, RecordFailure, FinalReport
<1> QED
  BY <1>1, <1>2, CoveredOpen, CoveredAnswer, CoveredDecide, CoveredJudge DEF SampleStep

LEMMA CoveredPreparer ==
    ASSUME Covered, NEW w \in Preparer, PrepareStep(w) \/ TeardownStep(w)
    PROVE  Covered'
<1>1. CASE PrepareStep(w)
  BY <1>1, CoveredStutter
     DEF PrepareStep, BeginPreparation, InspectTargets, CreateSchema, VerifySearchPath,
         CreateDatabase, CreateRunDirectory, ConfigureRuntime, StartApi, WaitApiReady,
         RunRetrieval, BuildDataset, Reading, Alone, Around
<1>2. CASE TeardownStep(w)
  BY <1>2, CoveredStutter
     DEF TeardownStep, StopApi, ShutdownLogging, CleanupRetrieval, DisposeRuntime,
         DropSchema, DropDatabase, DropRunDirectory, DropLogs, VerifyCleanup,
         WriteArtifacts, Reading, Alone, Around
<1> QED
  BY <1>1, <1>2

LEMMA CoveredNext == Covered /\ [Next]_tools => Covered'
<1> SUFFICES ASSUME Covered, [Next]_tools PROVE Covered'
  OBVIOUS
<1>1. CASE UNCHANGED tools
  BY <1>1, CoveredStutter DEF tools
<1>2. CASE Next
  BY <1>2, CoveredElsewhere, CoveredSample, CoveredPreparer DEF Next
<1> QED
  BY <1>1, <1>2

LEMMA CoveredSuffices == Covered => BudgetCoversPlan
<1> SUFFICES ASSUME Covered PROVE BudgetCoversPlan
  OBVIOUS
<1>1. /\ batch.done \in Nat /\ batch.attempted \in Nat /\ batch.remaining \in 0 .. 8
      /\ batch.reserved = batch.remaining /\ batch.stage # "blocked"
  BY PlanFacts DEF Covered, BatchShape, Batch
<1>2. Rest(batch.done) \in Nat /\ Rest(batch.done + 1) \in Nat
  BY <1>1, RestNat
<1> QED
  BY <1>1, <1>2, CapNat DEF Covered, BudgetCoversPlan

\* However long the plan and whatever its order: no call and no sample of it is
\* refused, nothing stays reserved, and the batch never exceeds its cap
\* (AttemptBudget and the reservations of build_sample_plan).
THEOREM BudgetSuffices == Spec => []BudgetCoversPlan
<1>1. Covered /\ [Next]_tools => Covered'
  BY CoveredNext
<1> QED
  BY <1>1, CoveredInit, CoveredSuffices, PTL DEF Spec
=============================================================================
