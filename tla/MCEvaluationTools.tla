-------------------------- MODULE MCEvaluationTools --------------------------
(***************************************************************************)
(* TLC instance of EvaluationTools: two seeded projects, one document each, *)
(* samples of each route, and two preparers under one run id.               *)
(***************************************************************************)
EXTENDS EvaluationTools, TLC

CONSTANTS p1, p2, d1, d2

OneEach == d1 :> p1 @@ d2 :> p2
BothRoutes == <<"FR039", "FR042", "FR042">>
Preparers == Permutations(Preparer)
=============================================================================
