------------------------- MODULE MCArchiveLifecycle -------------------------
(***************************************************************************)
(* TLC instances of ArchiveLifecycle: which requests the clients send, and  *)
(* the symmetry of the request workers.                                     *)
(***************************************************************************)
EXTENDS ArchiveLifecycle, TLC

Workers == Permutations(Worker)

\* Up to the reviewed draft.
IntakeKinds == {"parse", "suggest", "manual", "regenerate", "draft", "edit", "confirm"}
\* From the reviewed draft on.
FormalKinds == {"draft", "edit", "confirm", "cancel", "delete"}
\* A parse and a deletion that meet.
ParseAndDelete == {"parse", "delete"}
=============================================================================
