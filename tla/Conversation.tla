---------------------------- MODULE Conversation ----------------------------
(***************************************************************************)
(* What the archive agent promises of the history of a session: it grows by *)
(* whole exchanges, a question with the answer given to it, one at a time,  *)
(* and it is forgotten as a whole.  There are no checkpoints, tools, rows   *)
(* or requests here.                                                        *)
(***************************************************************************)
EXTENDS Naturals, Sequences

CONSTANTS
    Session,
    TurnId     \* the exchanges there may be

VARIABLES
    talk,      \* per session, the exchanges of its history
    strained   \* sessions whose client did not wait, or whose project was deleted
cvars == <<talk, strained>>

CInit == talk = [s \in Session |-> <<>>] /\ strained = {}

Exchange(s) ==
    \E turn \in TurnId :
       /\ \A i \in DOMAIN talk[s] : talk[s][i] # turn
       /\ talk' = [talk EXCEPT ![s] = Append(@, turn)]

\* The project of the session is deleted, or its deletion was attempted.
Forget(s) == talk' = [talk EXCEPT ![s] = <<>>]

\* Turns that overlap, or that a deletion overtakes, may drop each other's
\* exchanges, or bring them back.
Muddle(s) ==
    /\ s \in strained
    /\ talk'[s] \in Seq(TurnId)
    /\ talk' = [talk EXCEPT ![s] = talk'[s]]

\* One session at a time moves, and several may come under strain beside it: a
\* deletion overtakes all the turns of its project at once.
CNext ==
    /\ strained \subseteq strained' /\ strained' \subseteq Session
    /\ \/ UNCHANGED talk
       \/ \E s \in Session : Exchange(s) \/ Forget(s) \/ Muddle(s)
CSpec == CInit /\ [][CNext]_cvars
=============================================================================
