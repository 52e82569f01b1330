-------------------------- MODULE MCArchiveReading --------------------------
(***************************************************************************)
(* TLC instances of ArchiveReading: which requests the clients send, and    *)
(* the symmetry of the request workers.                                     *)
(***************************************************************************)
EXTENDS ArchiveReading, TLC

Workers == Permutations(Worker)

\* From the reviewed draft on.
FormalKinds == {"draft", "edit", "confirm", "cancel", "delete"}
=============================================================================
