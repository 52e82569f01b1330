---------------------------- MODULE AgentService ----------------------------
(***************************************************************************)
(* The archive agent in its surroundings: turns of several requests on one  *)
(* session, the deletion of the empty project the session hangs off, and    *)
(* the logins the requests are authenticated by, with crashes of the        *)
(* process.                                                                 *)
(***************************************************************************)
EXTENDS ProjectManaging, ArchiveTurn, AccountSessions

VARIABLES
    overlapped,  \* observer: sessions on which two turns were under way at once
    overtaken    \* observer: sessions cleared or deleted below a turn under way

service == <<vars, talking, account, overlapped, overtaken>>

\* Nothing at all, or the login of a client with a project, empty or with a
\* formal document, and perhaps a session: not talked to, or asked one question
\* whose turn failed after an audited tool call.
Init ==
    \E p \in Project, s \in Session, u \in User, l \in Login, n \in Name,
       f \in File, c \in CallId,
       live \in BOOLEAN, formal \in BOOLEAN, opened \in BOOLEAN, talked \in BOOLEAN :
       /\ (formal \/ opened => live) /\ (talked => opened)
       /\ projects = [q \in Project |->
             [state |-> IF live /\ q = p THEN "LIVE" ELSE "UNUSED",
              name |-> IF live /\ q = p THEN n ELSE None,
              version |-> IF live /\ q = p THEN 1 ELSE 0,
              rev |-> IF live /\ q = p THEN 1 ELSE 0,
              count |-> IF formal /\ q = p THEN 1 ELSE 0]]
       /\ documents = [d \in Document |->
             IF formal /\ d = <<p, f>>
             THEN [NoDocument EXCEPT !.status = "CONFIRMED", !.version = 2]
             ELSE NoDocument]
       /\ originals = IF formal THEN {<<p, f>>} ELSE {}
       /\ leftovers = {}
       /\ items = [j \in Item |-> NoItem]
       /\ links = [k \in Link |-> NoLink]
       /\ sessions = [t \in Session |-> IF opened /\ t = s THEN p ELSE None]
       /\ threads = IF talked THEN {s} ELSE {}
       /\ projectLock = [q \in Project |-> None] /\ loop = None
       /\ task = [w \in Worker |-> Idle]
       /\ served = 0 /\ faults = 0
       /\ drifted = {} /\ raced = {}
       /\ turn = [w \in Worker |-> NoTurn]
       /\ checkpoint = [t \in Session |->
             IF talked /\ t = s THEN <<[role |-> "human", turn |-> 0]>> ELSE <<>>]
       /\ logs = IF talked
                 THEN {[session |-> s, id |-> c, turn |-> 0, status |-> "FAILED"]}
                 ELSE {}
       /\ answers = {}
       /\ accounts = IF live THEN {u} ELSE {}
       /\ logins = [k \in Login |->
             IF live /\ k = l THEN [user |-> u, state |-> "OPEN"] ELSE NoLogin]
       /\ access = IF live THEN {l} ELSE {}
       /\ held = [w \in Worker |-> NothingHeld]
       /\ overlapped = {} /\ overtaken = {}

\* What the two observers note of a step.
Observe ==
    /\ overlapped' = overlapped \cup
          {turn'[w].session : w \in {v \in Worker :
              /\ turn'[v].pc # "idle"
              /\ \E u \in Worker \ {v} :
                    turn'[u].pc # "idle" /\ turn'[u].session = turn'[v].session}}
    /\ overtaken' = overtaken \cup
          {turn[w].session : w \in {v \in Worker :
              /\ InTurn(v)
              /\ \/ turn[v].session \in threads \ threads'
                 \/ sessions'[turn[v].session] = None
                 \/ \E u \in Worker :
                       /\ task'[u].pc = "clearing"
                       /\ task'[u].project = sessions[turn[v].session]}}

\* Mutant: the messages outlive their thread.
MessagesStay == UNCHANGED checkpoint
\* Deleting a thread removes all its messages, deleting a session its log.
ThreadsGoWithMessages ==
    checkpoint' = [s \in Session |->
        IF s \in threads /\ s \notin threads' THEN <<>> ELSE checkpoint[s]]
AnswersGoWithThreads ==
    answers' = {a \in answers : ~(a.session \in threads /\ a.session \notin threads')}
\* Mutant: no cascade.
LogsStay == UNCHANGED logs
LogsGoWithSessions ==
    logs' = {l \in logs : ~(sessions[l.session] # None /\ sessions'[l.session] = None)}

\* What happens beside a step of each part.
Around ==
    /\ ThreadsGoWithMessages /\ AnswersGoWithThreads /\ LogsGoWithSessions
    /\ UNCHANGED <<turn, account>> /\ Observe
Aside == UNCHANGED account /\ Observe
Beside == UNCHANGED talking /\ Observe

Crash ==
    /\ faults < MaxFaults
    /\ \E w \in Worker : Busy(w)
    /\ faults' = faults + 1
    /\ task' = [w \in Worker |-> IF Busy(w) THEN Idle ELSE task[w]]
    /\ turn' = [w \in Worker |-> NoTurn]
    /\ held' = [w \in Worker |-> NothingHeld]
    /\ projectLock' = [p \in Project |-> None] /\ loop' = None
    /\ UNCHANGED <<projects, files, checklist, agent, served, observers,
                   checkpoint, logs, answers, accounts, logins, access>>
    /\ Observe

Managing(w) ==
    \/ Authenticated /\ OpenSession(w) /\ Around
    \/ Authenticated /\ LockEmpty(w) /\ Around
    \/ Authenticated /\ RefuseDeletion(w) /\ Around
    \/ CloseRefused(w) /\ Around
    \/ ClearThread(w) /\ Around
    \/ CommitProjectDeletion(w) /\ Around
    \/ FailProjectDeletion(w) /\ Around

Conversing(w) ==
    \/ Authenticated /\ Send(w) /\ Aside
    \/ LoadThread(w) /\ Aside
    \/ WriteQuestion(w) /\ Aside
    \/ CallTool(w) /\ Aside
    \/ WriteAnswer(w) /\ Aside
    \/ TurnFails(w) /\ Aside
    \/ CheckpointFails(w) /\ Aside
    \/ CommitRecords(w) /\ Aside
    \/ RecordsFail(w) /\ Aside

LoggingIn(w) ==
    \/ RegisterUser(w) /\ Beside
    \/ LogIn(w) /\ Beside
    \/ ReadForRefresh(w) /\ Beside
    \/ CommitRefresh(w) /\ Beside
    \/ ReadForLogout(w) /\ Beside
    \/ CommitLogout(w) /\ Beside

Next ==
    \/ \E w \in Worker : Managing(w) \/ Conversing(w) \/ LoggingIn(w)
    \/ ExpireAccess /\ Beside
    \/ ExpireLogin /\ Beside
    \/ Crash

Spec == Init /\ [][Next]_service

-----------------------------------------------------------------------------
\* Every variable of the agent and of the logins stays in its domain; a turn
\* has at most two calls, and a thread exists as long as it has messages.
TypeOK ==
    /\ turn \in [Worker -> Turn]
    /\ \A w \in Worker :
          Len(turn[w].events) <= 2 /\ (InTurn(w) <=> task[w].pc = "sending")
    /\ checkpoint \in [Session -> Seq(Message)]
    /\ threads = {s \in Session : checkpoint[s] # <<>>}
    /\ logs \in SUBSET Log /\ answers \in SUBSET Answer
    /\ accounts \in SUBSET User
    /\ logins \in [Login -> LoginRow]
    /\ access \in SUBSET Login
    /\ held \in [Worker -> Held]

\* An answer the client has received is audited: while its session lives, every
\* tool call of its turn has a row under its id, which is its own unless
\* another turn of the session had used the id before; and an answer from
\* evidence rests on evidence as the last thing its turn has found.
AnswersAreBacked ==
    \A a \in answers :
        /\ sessions[a.session] # None =>
              \A i \in DOMAIN a.calls :
                 \E l \in logs :
                    /\ l.session = a.session /\ l.id = a.calls[i].id
                    /\ l.turn = a.turn =>
                          (l.status = "COMPLETED" <=> a.calls[i].outcome \in Completed)
        /\ a.result = "ANSWERED" =>
              /\ Successful(a.calls) # {}
              /\ LastSuccessful(a.calls) = "found"

\* The history pairs every question with the answer given to it, and shows no
\* exchange twice, although questions without an answer stay in the thread and
\* overlapping turns write it from old copies.
HistoryIsConsistent ==
    \A s \in Session :
        /\ \A i \in Pairs(checkpoint[s]) :
              checkpoint[s][i].turn = checkpoint[s][i - 1].turn
        /\ \A i, j \in DOMAIN Shown(checkpoint[s]) :
              i # j => Shown(checkpoint[s])[i] # Shown(checkpoint[s])[j]

\* What the client has been answered it finds in the history again, as long
\* as it waits for each answer and no deletion of the project comes between.
AnswersStayVisible ==
    \A a \in answers :
        \/ a.session \in overlapped \cup overtaken
        \/ \E i \in DOMAIN Shown(checkpoint[a.session]) :
              Shown(checkpoint[a.session])[i] = a.turn

\* A deleted session leaves no thread behind, unless a turn was under way when
\* the deletion came, and never a log row.
NothingOutlivesSession ==
    \A s \in Session : sessions[s] = None =>
        /\ s \in threads => s \in overtaken
        /\ \A l \in logs : l.session # s

\* A revoked login is never usable again, although refreshing it writes to the
\* row after having read it.
RevocationSticks ==
    [][\A l \in Login : logins[l].state = "REVOKED" => logins'[l].state = "REVOKED"]_service

-----------------------------------------------------------------------------
talk == [s \in Session |-> Shown(checkpoint[s])]
strained == overlapped \cup overtaken
Talk == INSTANCE Conversation
            WITH TurnId <- 1 .. MaxRequests, talk <- talk, strained <- strained
\* The threads, seen through the projection, implement the conversation.
ImplementsConversation == Talk!CSpec
=============================================================================
