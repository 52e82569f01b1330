---------------------------- MODULE FormalArchive ----------------------------
(***************************************************************************)
(* What the service promises of one document's place in the formal scope.   *)
(* A formal archive shows one fixed revision of its fields until it is      *)
(* withdrawn; a document whose deletion has begun is hidden and can only    *)
(* disappear.  There are no stores, versions, locks or workers here.        *)
(***************************************************************************)
EXTENDS Naturals

VARIABLES
    phase,
    shown      \* the revision on show, 0 outside the formal scope
fvars == <<phase, shown>>

Phase == {"DRAFT", "FORMAL", "HIDDEN", "GONE"}

\* A document is uploaded, or the observation starts at its reviewed draft.
FInit == phase = "DRAFT" /\ shown = 0

Publish ==
    /\ phase = "DRAFT"
    /\ phase' = "FORMAL"
    /\ shown' \in Nat \ {0}

Withdraw ==
    /\ phase = "FORMAL"
    /\ phase' = "DRAFT"
    /\ shown' = 0

Hide ==
    /\ phase \in {"DRAFT", "FORMAL"}
    /\ phase' = "HIDDEN"
    /\ shown' = 0

Destroy ==
    /\ phase = "HIDDEN"
    /\ phase' = "GONE"
    /\ shown' = 0

FNext == Publish \/ Withdraw \/ Hide \/ Destroy
FSpec == FInit /\ [][FNext]_fvars
=============================================================================
