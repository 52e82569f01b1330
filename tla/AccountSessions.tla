-------------------------- MODULE AccountSessions --------------------------
(***************************************************************************)
(* Accounts and their revocable login sessions                              *)
(* (app/services/identity/authentication.py, app/dependencies/auth.py): an  *)
(* access token names a login, and every request reads the stored session   *)
(* behind it again.                                                         *)
(***************************************************************************)
EXTENDS ProjectRecord

CONSTANTS User, Login

ASSUME AccountAssumption == User # {} /\ Login # {}

VARIABLES
    accounts,  \* the users that have credentials
    logins,    \* the auth_sessions rows
    access,    \* logins the clients hold an unexpired access token for
    held       \* per worker, the auth_sessions row its handler has read

account == <<accounts, logins, access, held>>
stored == <<projects, files, checklist, agent, locks, observers>>

LoginRow == [user : User, state : {"NONE", "OPEN", "REVOKED", "EXPIRED"}]
Held == [login : Login, row : LoginRow]
NoLogin == [user |-> CHOOSE u \in User : TRUE, state |-> "NONE"]
NothingHeld == [login |-> CHOOSE l \in Login : TRUE, row |-> NoLogin]

\* _get_usable_session: neither revoked nor expired.
Usable(l) == logins[l].state = "OPEN"

\* get_current_authentication, before anything else a request does.
Authenticated == \E l \in access : Usable(l)

\* The unique user name decides a race of two registrations.
RegisterUser(w) ==
    /\ Accept(w, "register")
    /\ \E u \in User \ accounts : accounts' = accounts \cup {u}
    /\ UNCHANGED <<stored, logins, access, held, task>>

\* A row of its own, an access token and a refresh token.
LogIn(w) ==
    /\ Accept(w, "login")
    /\ \E u \in accounts, l \in Login :
          /\ logins[l].state = "NONE"
          /\ logins' = [logins EXCEPT ![l] = [user |-> u, state |-> "OPEN"]]
          /\ access' = access \cup {l}
    /\ UNCHANGED <<stored, accounts, held, task>>

Hold(w, l) == held' = [held EXCEPT ![w] = [login |-> l, row |-> logins[l]]]

\* refresh_access_token reads the row behind the refresh token ...
ReadForRefresh(w) ==
    /\ Accept(w, "refresh")
    /\ \E l \in Login : Usable(l) /\ Hold(w, l)
    /\ Become(w, [Idle EXCEPT !.pc = "refreshing"])
    /\ UNCHANGED <<stored, accounts, logins, access>>

\* Mutant: the whole row is written as it was read.
RefreshedAsRead(w) == held[w].row
\* Only updated_at changes: what others have written to the row stays.
RefreshedRow(w) == logins[held[w].login]

\* ... and issues an access token, even if the login was revoked meanwhile.
CommitRefresh(w) ==
    /\ task[w].pc = "refreshing"
    /\ logins' = [logins EXCEPT ![held[w].login] = RefreshedRow(w)]
    /\ access' = access \cup {held[w].login}
    /\ held' = [held EXCEPT ![w] = NothingHeld]
    /\ Finish(w)
    /\ UNCHANGED <<stored, accounts, bounds>>

\* The dependency of logout reads the row; a revoked one never gets here.
ReadForLogout(w) ==
    /\ Accept(w, "logout")
    /\ \E l \in access : Usable(l) /\ Hold(w, l)
    /\ Become(w, [Idle EXCEPT !.pc = "revoking"])
    /\ UNCHANGED <<stored, accounts, logins, access>>

\* The access token stays with the client and is worth nothing now.
CommitLogout(w) ==
    /\ task[w].pc = "revoking"
    /\ logins' = [logins EXCEPT ![held[w].login].state = "REVOKED"]
    /\ held' = [held EXCEPT ![w] = NothingHeld]
    /\ Finish(w)
    /\ UNCHANGED <<stored, accounts, access, bounds>>

\* Time passes: an access token runs out, or a whole login does.
ExpireAccess ==
    /\ \E l \in access : access' = access \ {l}
    /\ UNCHANGED <<stored, accounts, logins, held, task, bounds>>

ExpireLogin ==
    /\ \E l \in Login :
          Usable(l) /\ logins' = [logins EXCEPT ![l].state = "EXPIRED"]
    /\ UNCHANGED <<stored, accounts, access, held, task, bounds>>
=============================================================================
