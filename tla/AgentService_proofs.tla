-------------------------- MODULE AgentService_proofs --------------------------
(***************************************************************************)
(* What holds of the archive agent for any number of requests, sessions,    *)
(* projects, call ids, logins, calls and faults.                            *)
(***************************************************************************)
EXTENDS AgentService, FiniteSetTheorems, SequenceTheorems, TLAPS

USE NoneAssumption, InhabitedAssumption, ProjectBoundAssumption,
    AccountAssumption

-----------------------------------------------------------------------------
\* The variables of the projects as far as the agent depends on them.
BaseOK ==
    /\ projects \in [Project -> ProjectRow]
    /\ sessions \in [Session -> Project \cup {None}]
    /\ projectLock \in [Project -> Worker \cup {None}]
    /\ task \in [Worker -> Task]
    /\ served \in Nat /\ faults \in Nat
Typed == TypeOK /\ BaseOK

LEMMA RecordTypes ==
    /\ Idle \in Task /\ Idle.pc = "idle"
    /\ NoTurn \in Turn /\ NoTurn.pc = "idle" /\ NoTurn.events = <<>> /\ NoTurn.base = <<>>
    /\ NoLogin \in LoginRow /\ NothingHeld \in Held
BY LimitAssumption DEF Idle, Task, NoTurn, Turn, TurnPc, Result, NoLogin, LoginRow, NothingHeld, Held

LEMMA BecomeType ==
    ASSUME task \in [Worker -> Task], NEW w \in Worker, NEW r \in Task, Become(w, r)
    PROVE  /\ task' \in [Worker -> Task] /\ task'[w] = r
           /\ \A v \in Worker \ {w} : task'[v] = task[v]
BY DEF Become

LEMMA FinishType ==
    ASSUME task \in [Worker -> Task], NEW w \in Worker, Finish(w)
    PROVE  /\ task' \in [Worker -> Task] /\ task'[w] = Idle
           /\ \A v \in Worker \ {w} : task'[v] = task[v]
BY BecomeType, RecordTypes DEF Finish

LEMMA GoType ==
    ASSUME turn \in [Worker -> Turn], NEW w \in Worker, NEW r \in Turn, Go(w, r)
    PROVE  /\ turn' \in [Worker -> Turn] /\ turn'[w] = r
           /\ \A v \in Worker \ {w} : turn'[v] = turn[v]
BY DEF Go

\* The records a handler begins with.
LEMMA BegunTypes ==
    ASSUME NEW pc \in BusyPc
    PROVE  /\ \A p \in Project, t \in SUBSET Session :
                 /\ [Idle EXCEPT !.pc = pc, !.project = p, !.todo = t] \in Task
                 /\ [Idle EXCEPT !.pc = pc, !.project = p, !.todo = t].pc = pc
           /\ [Idle EXCEPT !.pc = pc] \in Task /\ [Idle EXCEPT !.pc = pc].pc = pc
BY RecordTypes DEF Task

\* A turn goes on.
LEMMA TurnTypes ==
    ASSUME NEW t \in Turn
    PROVE  /\ \A b \in Seq(Message) : [t EXCEPT !.pc = "asking", !.base = b] \in Turn
           /\ [t EXCEPT !.pc = "deciding"] \in Turn
           /\ \A e \in Seq(Event) :
                 /\ [t EXCEPT !.pc = "recording", !.result = "FAILED", !.events = e] \in Turn
                 /\ [t EXCEPT !.events = e] \in Turn
           /\ \A r \in Result : [t EXCEPT !.pc = "recording", !.result = r] \in Turn
           /\ \A s \in Session, n \in Nat :
                 [NoTurn EXCEPT !.pc = "loading", !.session = s, !.turn = n] \in Turn
           /\ t.session \in Session /\ t.turn \in Nat /\ t.base \in Seq(Message)
           /\ t.events \in Seq(Event) /\ t.result \in Result /\ t.pc \in TurnPc
BY RecordTypes DEF Turn, TurnPc, Result

LEMMA TypeInit == Init => Typed
<1> SUFFICES ASSUME Init PROVE Typed
  OBVIOUS
<1>1. PICK p \in Project, s \in Session, u \in User, l \in Login, n \in Name,
           f \in File, c \in CallId,
           live \in BOOLEAN, formal \in BOOLEAN, opened \in BOOLEAN, talked \in BOOLEAN :
           Init!(p, s, u, l, n, f, c, live, formal, opened, talked)
  BY DEF Init
<1>2. projects \in [Project -> ProjectRow]
  BY <1>1, LimitAssumption DEF ProjectRow
<1>3. sessions \in [Session -> Project \cup {None}]
  BY <1>1
<1>4. BaseOK
  BY <1>1, <1>2, <1>3, RecordTypes DEF BaseOK
<1>5. turn \in [Worker -> Turn] /\ \A w \in Worker :
          Len(turn[w].events) <= 2 /\ (InTurn(w) <=> task[w].pc = "sending")
  BY <1>1, RecordTypes DEF InTurn
<1>6. /\ checkpoint \in [Session -> Seq(Message)]
      /\ threads = {t \in Session : checkpoint[t] # <<>>}
  <2>1. [role |-> "human", turn |-> 0] \in Message
    BY DEF Message
  <2>2. <<[role |-> "human", turn |-> 0]>> \in Seq(Message)
        /\ <<[role |-> "human", turn |-> 0]>> # <<>>
    BY <2>1
  <2> QED
    BY <1>1, <2>2
<1>7. logs \in SUBSET Log /\ answers \in SUBSET Answer
  BY <1>1 DEF Log
<1>8. /\ accounts \in SUBSET User /\ logins \in [Login -> LoginRow]
      /\ access \in SUBSET Login /\ held \in [Worker -> Held]
  BY <1>1, RecordTypes DEF LoginRow
<1> QED
  BY <1>4, <1>5, <1>6, <1>7, <1>8 DEF Typed, TypeOK

-----------------------------------------------------------------------------
\* Projects and sessions: threads and messages go together.
LEMMA TypeAround ==
    ASSUME Typed, BaseOK', NEW w \in Worker, Around, threads' \subseteq threads,
           task[w].pc # "sending", task'[w].pc # "sending",
           \A v \in Worker \ {w} : task'[v] = task[v]
    PROVE  Typed'
<1> USE DEF Typed, TypeOK, Around
<1>1. /\ turn' = turn
      /\ \A v \in Worker : InTurn(v)' <=> task'[v].pc = "sending"
  BY DEF InTurn
<1>2. /\ checkpoint' \in [Session -> Seq(Message)]
      /\ threads' = {s \in Session : checkpoint'[s] # <<>>}
  BY DEF ThreadsGoWithMessages
<1>3. logs' \in SUBSET Log /\ answers' \in SUBSET Answer
  BY DEF AnswersGoWithThreads, LogsGoWithSessions
<1>4. /\ accounts' = accounts /\ logins' = logins /\ access' = access /\ held' = held
  BY DEF account
<1> QED
  BY <1>1, <1>2, <1>3, <1>4

LEMMA ManageMoves ==
    ASSUME Typed, NEW w \in Worker, Managing(w)
    PROVE  /\ BaseOK' /\ Around /\ threads' \subseteq threads
           /\ task[w].pc # "sending" /\ task'[w].pc # "sending"
           /\ \A v \in Worker \ {w} : task'[v] = task[v]
<1> USE DEF files, checklist, agent, locks, observers, bounds
<1>0. /\ projects \in [Project -> ProjectRow]
      /\ sessions \in [Session -> Project \cup {None}]
      /\ projectLock \in [Project -> Worker \cup {None}]
      /\ task \in [Worker -> Task] /\ task[w] \in Task
      /\ task[w].project \in Project
      /\ served \in Nat /\ faults \in Nat
      /\ Idle \in Task /\ Idle.pc = "idle"
  BY RecordTypes DEF Typed, BaseOK, Task
<1>1. CASE OpenSession(w) /\ Around
  BY <1>0, <1>1 DEF OpenSession, Accept, BaseOK
<1>2. CASE LockEmpty(w) /\ Around
  <2>1. PICK p \in Project : LockEmpty(w)!2!(p)
    BY <1>2 DEF LockEmpty
  <2> DEFINE todo == {s \in Session : sessions[s] = p}
             r == [Idle EXCEPT !.pc = "clearing", !.project = p, !.todo = todo]
  <2>2. r \in Task /\ r.pc = "clearing"
    <3>1. todo \in SUBSET Session /\ "clearing" \in BusyPc
      BY DEF BusyPc
    <3> HIDE DEF todo
    <3> QED
      BY <3>1, BegunTypes DEF r
  <2>3. Become(w, r) /\ Lock(w, p)
    BY <2>1
  <2> HIDE DEF r
  <2>4. /\ task' \in [Worker -> Task] /\ task'[w].pc # "sending"
        /\ \A v \in Worker \ {w} : task'[v] = task[v]
    BY <1>0, <2>2, <2>3, BecomeType
  <2> QED
    BY <1>0, <1>2, <2>3, <2>4 DEF LockEmpty, Accept, Lock, BaseOK
<1>3. CASE ClearThread(w) /\ Around
  <2>1. PICK s \in task[w].todo : /\ threads' = threads \ {s}
                                  /\ Become(w, [task[w] EXCEPT !.todo = @ \ {s}])
    BY <1>3 DEF ClearThread
  <2>2. [task[w] EXCEPT !.todo = @ \ {s}] \in Task
        /\ [task[w] EXCEPT !.todo = @ \ {s}].pc = task[w].pc
    BY <1>0 DEF Task
  <2>3. /\ task' \in [Worker -> Task] /\ task'[w].pc = task[w].pc
        /\ \A v \in Worker \ {w} : task'[v] = task[v]
    BY <1>0, <2>1, <2>2, BecomeType
  <2> QED
    BY <1>0, <1>3, <2>1, <2>3 DEF ClearThread, BaseOK
<1>4. CASE CommitProjectDeletion(w) /\ Around
  <2>1. projects' \in [Project -> ProjectRow]
    BY <1>0, <1>4 DEF CommitProjectDeletion, ProjectRow
  <2>2. sessions' \in [Session -> Project \cup {None}]
    BY <1>0, <1>4 DEF CommitProjectDeletion
  <2>3. projectLock' \in [Project -> Worker \cup {None}]
    BY <1>0, <1>4 DEF CommitProjectDeletion, Release
  <2>4. /\ task' \in [Worker -> Task] /\ task'[w].pc = "idle"
        /\ \A v \in Worker \ {w} : task'[v] = task[v]
    BY <1>0, <1>4, FinishType DEF CommitProjectDeletion
  <2> QED
    BY <1>0, <1>4, <2>1, <2>2, <2>3, <2>4 DEF CommitProjectDeletion, BaseOK
<1>5. CASE FailProjectDeletion(w) /\ Around
  <2>1. /\ task' \in [Worker -> Task] /\ task'[w].pc = "idle"
        /\ \A v \in Worker \ {w} : task'[v] = task[v]
    BY <1>0, <1>5, FinishType DEF FailProjectDeletion
  <2> QED
    BY <1>0, <1>5, <2>1 DEF FailProjectDeletion, Release, BaseOK
<1>6. CASE RefuseDeletion(w) /\ Around
  <2>1. PICK p \in Project : RefuseDeletion(w)!2!(p)
    BY <1>6 DEF RefuseDeletion
  <2> DEFINE r == [Idle EXCEPT !.pc = "refusing", !.project = p]
  <2>2. r \in Task /\ r.pc = "refusing"
    BY RecordTypes DEF Task, BusyPc, UploadPc, LoopPc
  <2>3. Become(w, r) /\ Lock(w, p)
    BY <2>1
  <2> HIDE DEF r
  <2>4. /\ task' \in [Worker -> Task] /\ task'[w].pc # "sending"
        /\ \A v \in Worker \ {w} : task'[v] = task[v]
    BY <1>0, <2>2, <2>3, BecomeType
  <2>5. task[w].pc = "idle" /\ threads' = threads
    BY <1>6 DEF RefuseDeletion, Accept
  <2> QED
    BY <1>0, <1>6, <2>3, <2>4, <2>5 DEF RefuseDeletion, Accept, Lock, BaseOK
<1>7. CASE CloseRefused(w) /\ Around
  <2>1. /\ task' \in [Worker -> Task] /\ task'[w].pc = "idle"
        /\ \A v \in Worker \ {w} : task'[v] = task[v]
    BY <1>0, <1>7, FinishType DEF CloseRefused
  <2> QED
    BY <1>0, <1>7, <2>1 DEF CloseRefused, HolderAfterClose, BaseOK
<1> QED
  BY <1>1, <1>2, <1>3, <1>4, <1>5, <1>6, <1>7 DEF Managing

LEMMA TypeManaging ==
    ASSUME Typed, NEW w \in Worker, Managing(w)
    PROVE  Typed'
BY ManageMoves, TypeAround

\* Logins.
LEMMA TypeLogging ==
    ASSUME Typed, NEW w \in Worker, LoggingIn(w)
    PROVE  Typed'
<1> USE DEF stored, files, checklist, agent, locks, observers, bounds
<1>0. /\ task \in [Worker -> Task] /\ task[w] \in Task
      /\ logins \in [Login -> LoginRow] /\ held \in [Worker -> Held]
      /\ held[w].login \in Login /\ access \in SUBSET Login /\ accounts \in SUBSET User
      /\ Idle \in Task /\ Idle.pc = "idle" /\ NothingHeld \in Held
      /\ served \in Nat /\ faults \in Nat
  BY RecordTypes DEF Typed, TypeOK, BaseOK, Held
<1>1. /\ UNCHANGED <<projects, sessions, projectLock, threads, turn, checkpoint, logs, answers>>
      /\ served' \in Nat /\ faults' \in Nat
  BY <1>0 DEF LoggingIn, Beside, talking, RegisterUser, LogIn, ReadForRefresh, CommitRefresh,
         ReadForLogout, CommitLogout, Accept
<1>2. /\ task' \in [Worker -> Task]
      /\ task[w].pc # "sending" /\ task'[w].pc # "sending"
      /\ \A v \in Worker \ {w} : task'[v] = task[v]
  <2>1. CASE RegisterUser(w) \/ LogIn(w)
    BY <1>0, <2>1 DEF RegisterUser, LogIn, Accept
  <2>2. CASE ReadForRefresh(w) \/ ReadForLogout(w)
    <3>1. PICK pc \in {"refreshing", "revoking"} : Become(w, [Idle EXCEPT !.pc = pc])
      BY <2>2 DEF ReadForRefresh, ReadForLogout
    <3>2. [Idle EXCEPT !.pc = pc] \in Task /\ [Idle EXCEPT !.pc = pc].pc = pc
      BY BegunTypes DEF BusyPc
    <3> QED
      BY <1>0, <2>2, <3>1, <3>2, BecomeType DEF ReadForRefresh, ReadForLogout, Accept
  <2>3. CASE CommitRefresh(w) \/ CommitLogout(w)
    BY <1>0, <2>3, FinishType DEF CommitRefresh, CommitLogout
  <2> QED
    BY <2>1, <2>2, <2>3 DEF LoggingIn
<1>3. /\ accounts' \in SUBSET User /\ logins' \in [Login -> LoginRow]
      /\ access' \in SUBSET Login /\ held' \in [Worker -> Held]
  <2>1. CASE RegisterUser(w)
    BY <1>0, <2>1 DEF RegisterUser
  <2>2. CASE LogIn(w)
    BY <1>0, <2>2 DEF LogIn, LoginRow
  <2>3. CASE ReadForRefresh(w) \/ ReadForLogout(w)
    <3>1. \A l \in Login : [login |-> l, row |-> logins[l]] \in Held
      BY <1>0 DEF Held
    <3>2. PICK l \in Login : Hold(w, l)
      BY <1>0, <2>3 DEF ReadForRefresh, ReadForLogout
    <3> QED
      BY <1>0, <2>3, <3>1, <3>2 DEF ReadForRefresh, ReadForLogout, Hold
  <2>4. CASE CommitRefresh(w)
    BY <1>0, <2>4 DEF CommitRefresh, RefreshedRow
  <2>5. CASE CommitLogout(w)
    BY <1>0, <2>5 DEF CommitLogout, LoginRow
  <2> QED
    BY <2>1, <2>2, <2>3, <2>4, <2>5 DEF LoggingIn
<1> QED
  BY <1>1, <1>2, <1>3 DEF Typed, TypeOK, BaseOK, InTurn

-----------------------------------------------------------------------------
\* The turns.
LEMMA MessageTypes ==
    ASSUME Typed, NEW w \in Worker
    PROVE  /\ turn[w] \in Turn
           /\ Question(w) \in Message /\ Reply(w) \in Message
           /\ Append(turn[w].base, Question(w)) \in Seq(Message) \ {<<>>}
           /\ ThreadAfter(w) \in Seq(Message) \ {<<>>}
<1>1. turn[w] \in Turn /\ turn[w].base \in Seq(Message) /\ turn[w].turn \in Nat
  BY TurnTypes DEF Typed, TypeOK
<1>2. Question(w) \in Message /\ Reply(w) \in Message
  BY <1>1 DEF Question, Reply, Message
<1>3. Append(turn[w].base, Question(w)) \in Seq(Message) \ {<<>>}
  BY <1>1, <1>2
<1>4. <<Question(w), Reply(w)>> \in Seq(Message)
  BY <1>2
<1>5. ThreadAfter(w) \in Seq(Message)
  BY <1>1, <1>4 DEF ThreadAfter
<1>6. Len(ThreadAfter(w)) = Len(turn[w].base) + 2
  BY <1>1, <1>4 DEF ThreadAfter
<1>7. ThreadAfter(w) # <<>>
  BY <1>1, <1>6
<1> QED
  BY <1>1, <1>2, <1>3, <1>5, <1>7

LEMMA WriteTypes ==
    ASSUME Typed, NEW w \in Worker, NEW m \in Seq(Message) \ {<<>>}, Write(w, m)
    PROVE  /\ checkpoint' \in [Session -> Seq(Message)]
           /\ threads' = {s \in Session : checkpoint'[s] # <<>>}
<1>1. turn[w].session \in Session
  BY TurnTypes DEF Typed, TypeOK
<1> QED
  BY <1>1 DEF Write, Typed, TypeOK

\* A step of a turn that is neither its first nor its last.
TurnGoes(w) ==
    \E r \in Turn : /\ Go(w, r) /\ turn[w].pc # "idle" /\ r.pc # "idle"
                    /\ Len(r.events) <= 2
                    /\ task' = task

LEMMA TurnGoesType ==
    ASSUME Typed, NEW w \in Worker, TurnGoes(w)
    PROVE  /\ turn' \in [Worker -> Turn]
           /\ \A v \in Worker :
                 Len(turn'[v].events) <= 2 /\ (InTurn(v)' <=> task'[v].pc = "sending")
<1>1. PICK r \in Turn : /\ Go(w, r) /\ turn[w].pc # "idle" /\ r.pc # "idle"
                        /\ Len(r.events) <= 2
                        /\ task' = task
  BY DEF TurnGoes
<1>2. /\ turn' \in [Worker -> Turn] /\ turn'[w] = r
      /\ \A v \in Worker \ {w} : turn'[v] = turn[v]
  BY <1>1, GoType DEF Typed, TypeOK
<1> QED
  BY <1>1, <1>2 DEF Typed, TypeOK, InTurn

LEMMA FailGoes ==
    ASSUME Typed, NEW w \in Worker, NEW e \in Seq(Event), Len(e) <= 2, Fail(w, e),
           turn[w].pc # "idle", task' = task
    PROVE  TurnGoes(w)
<1> DEFINE r == [turn[w] EXCEPT !.pc = "recording", !.result = "FAILED", !.events = e]
<1>1. r \in Turn /\ r.pc = "recording" /\ r.events = e
  <2>1. turn[w] \in Turn
    BY DEF Typed, TypeOK
  <2> QED
    BY <2>1, TurnTypes DEF Turn
<1>2. Go(w, r)
  BY DEF Fail
<1> HIDE DEF r
<1> QED
  BY <1>1, <1>2 DEF TurnGoes

\* With at most two calls there is a last successful one if there is any.
LEMMA LastCall ==
    ASSUME NEW e \in Seq(Event), Len(e) <= 2, Successful(e) # {}
    PROVE  \E k \in Successful(e) : LastSuccessful(e) = e[k].outcome
<1>1. Successful(e) \subseteq {1, 2}
  BY DEF Successful
<1>2. \E k \in Successful(e) : \A j \in Successful(e) : j <= k
  BY <1>1
<1> DEFINE k == CHOOSE i \in Successful(e) : \A j \in Successful(e) : j <= i
<1>3. k \in Successful(e)
  BY <1>2
<1>4. LastSuccessful(e) = e[k].outcome
  BY DEF LastSuccessful
<1> HIDE DEF k
<1> QED
  BY <1>3, <1>4

LEMMA ResultTypes ==
    ASSUME NEW e \in Seq(Event), Len(e) <= 2, NEW r \in ResultsFrom(e)
    PROVE  /\ r \in Result
           /\ r = "ANSWERED" => Successful(e) # {} /\ LastSuccessful(e) = "found"
<1>1. CASE e = <<>>
  BY <1>1 DEF ResultsFrom, Result
<1>2. CASE e # <<>>
  <2>1. Successful(e) # {}
    BY <1>2 DEF ResultsFrom
  <2>2. PICK k \in Successful(e) : LastSuccessful(e) = e[k].outcome
    BY <2>1, LastCall
  <2>3. e[k].outcome \in {"page", "found", "empty"}
    BY DEF Successful, Completed
  <2>4. FinalBasis(e) \in {"page", "found", "empty"}
    BY <2>2, <2>3 DEF FinalBasis
  <2>5. r \in CASE FinalBasis(e) = "page" -> {"CATALOG"}
                [] FinalBasis(e) = "empty" -> {"REFUSED"}
                [] FinalBasis(e) = "found" -> {"ANSWERED", "REFUSED"}
    BY <1>2 DEF ResultsFrom
  <2>6. r \in Result /\ (r = "ANSWERED" => FinalBasis(e) = "found")
    <3>1. CASE FinalBasis(e) = "page"
      BY <2>5, <3>1 DEF Result
    <3>2. CASE FinalBasis(e) = "empty"
      BY <2>5, <3>2 DEF Result
    <3>3. CASE FinalBasis(e) = "found"
      BY <2>5, <3>3 DEF Result
    <3> QED
      BY <2>4, <3>1, <3>2, <3>3
  <2> QED
    BY <2>1, <2>6 DEF FinalBasis
<1> QED
  BY <1>1, <1>2

LEMMA EndTypes ==
    ASSUME Typed, NEW w \in Worker, End(w)
    PROVE  /\ turn' \in [Worker -> Turn] /\ task' \in [Worker -> Task]
           /\ \A v \in Worker :
                 Len(turn'[v].events) <= 2 /\ (InTurn(v)' <=> task'[v].pc = "sending")
<1>1. /\ turn' \in [Worker -> Turn] /\ turn'[w] = NoTurn
      /\ \A v \in Worker \ {w} : turn'[v] = turn[v]
  BY GoType, RecordTypes DEF End, Typed, TypeOK
<1>2. /\ task' \in [Worker -> Task] /\ task'[w] = Idle
      /\ \A v \in Worker \ {w} : task'[v] = task[v]
  BY FinishType DEF End, Typed, BaseOK
<1> QED
  BY <1>1, <1>2, RecordTypes DEF Typed, TypeOK, InTurn

LEMMA TypeConversing ==
    ASSUME Typed, NEW w \in Worker, Conversing(w)
    PROVE  Typed'
<1> USE DEF platform, files, checklist, agent, locks, observers, bounds
<1>0. /\ turn[w] \in Turn /\ task \in [Worker -> Task] /\ turn \in [Worker -> Turn]
      /\ Len(turn[w].events) <= 2 /\ turn[w].events \in Seq(Event)
      /\ served \in Nat /\ faults \in Nat
      /\ checkpoint \in [Session -> Seq(Message)] /\ turn[w].session \in Session
  BY TurnTypes DEF Typed, TypeOK, BaseOK
<1>1. /\ UNCHANGED <<projects, sessions, projectLock, accounts, logins, access, held>>
      /\ served' \in Nat /\ faults' \in Nat
  <2>0. UNCHANGED <<accounts, logins, access, held>>
    BY DEF Conversing, Aside, account
  <2>1. CASE Send(w)
    BY <1>0, <2>0, <2>1 DEF Send, Accept
  <2>2. CASE LoadThread(w) \/ WriteQuestion(w) \/ CallTool(w) \/ WriteAnswer(w) \/ TurnFails(w)
    BY <1>0, <2>0, <2>2 DEF LoadThread, WriteQuestion, CallTool, WriteAnswer, TurnFails
  <2>3. CASE CheckpointFails(w) \/ CommitRecords(w) \/ RecordsFail(w)
    BY <1>0, <2>0, <2>3 DEF CheckpointFails, CommitRecords, RecordsFail, Fault
  <2> QED
    BY <2>1, <2>2, <2>3 DEF Conversing
<1>2. /\ turn' \in [Worker -> Turn] /\ task' \in [Worker -> Task]
      /\ \A v \in Worker :
            Len(turn'[v].events) <= 2 /\ (InTurn(v)' <=> task'[v].pc = "sending")
  <2>0. TurnGoes(w) => task' = task
    BY DEF TurnGoes
  <2>1. CASE Send(w)
    <3>1. PICK s \in Session :
             Go(w, [NoTurn EXCEPT !.pc = "loading", !.session = s, !.turn = served + 1])
      BY <2>1 DEF Send
    <3> DEFINE r == [NoTurn EXCEPT !.pc = "loading", !.session = s, !.turn = served + 1]
    <3>2. r \in Turn /\ r.pc = "loading" /\ r.events = <<>> /\ Len(<<>>) <= 2
      <4>1. served + 1 \in Nat /\ NoTurn \in Turn /\ NoTurn.events = <<>>
        BY <1>0, RecordTypes
      <4>2. r \in Turn
        BY <4>1, TurnTypes
      <4> QED
        BY <4>1, <4>2 DEF Turn
    <3> HIDE DEF r
    <3>3. /\ turn' \in [Worker -> Turn] /\ turn'[w] = r
          /\ \A v \in Worker \ {w} : turn'[v] = turn[v]
      BY <1>0, <3>1, <3>2, GoType DEF r
    <3>4. [Idle EXCEPT !.pc = "sending"] \in Task /\ [Idle EXCEPT !.pc = "sending"].pc = "sending"
      BY BegunTypes DEF BusyPc
    <3>5. /\ task' \in [Worker -> Task] /\ task'[w].pc = "sending"
          /\ \A v \in Worker \ {w} : task'[v] = task[v]
      BY <1>0, <2>1, <3>4, BecomeType DEF Send
    <3> QED
      BY <3>2, <3>3, <3>5 DEF Typed, TypeOK, InTurn
  <2>2. CASE LoadThread(w)
    <3> DEFINE r == [turn[w] EXCEPT !.pc = "asking", !.base = checkpoint[turn[w].session]]
    <3>1. r \in Turn /\ r.pc = "asking" /\ r.events = turn[w].events
      BY <1>0, TurnTypes DEF Turn
    <3>2. TurnGoes(w)
      BY <1>0, <2>2, <3>1 DEF LoadThread, TurnGoes
    <3> QED
      BY <1>0, <2>0, <3>2, TurnGoesType
  <2>3. CASE WriteQuestion(w)
    <3> DEFINE r == [turn[w] EXCEPT !.pc = "deciding"]
    <3>1. r \in Turn /\ r.pc = "deciding" /\ r.events = turn[w].events
      BY <1>0, TurnTypes DEF Turn
    <3>2. TurnGoes(w)
      BY <1>0, <2>3, <3>1 DEF WriteQuestion, TurnGoes
    <3> QED
      BY <1>0, <2>0, <3>2, TurnGoesType
  <2>4. CASE CallTool(w)
    <3>1. PICK id \in CallId, outcome \in OutcomesOf(turn[w].session) :
             /\ CallAllowed(w, id)
             /\ Go(w, [turn[w] EXCEPT !.events = Append(@, [id |-> id, outcome |-> outcome])])
      BY <2>4 DEF CallTool
    <3> DEFINE e == Append(turn[w].events, [id |-> id, outcome |-> outcome])
               r == [turn[w] EXCEPT !.events = e]
    <3>2. [id |-> id, outcome |-> outcome] \in Event
      BY DEF OutcomesOf, Event, Outcome
    <3>3. e \in Seq(Event) /\ Len(e) = Len(turn[w].events) + 1
      BY <1>0, <3>2
    <3>4. Len(e) <= 2
      BY <1>0, <3>1, <3>3 DEF CallAllowed
    <3>5. Go(w, r)
      BY <3>1
    <3> HIDE DEF e
    <3>6. r \in Turn /\ r.pc = turn[w].pc /\ r.events = e
      BY <1>0, <3>3, TurnTypes DEF Turn
    <3>7. TurnGoes(w)
      BY <2>4, <3>4, <3>5, <3>6 DEF CallTool, TurnGoes
    <3> QED
      BY <1>0, <2>0, <3>7, TurnGoesType
  <2>5. CASE WriteAnswer(w)
    <3>1. PICK result \in ResultsFrom(turn[w].events) :
             Go(w, [turn[w] EXCEPT !.pc = "recording", !.result = result])
      BY <2>5 DEF WriteAnswer
    <3> DEFINE r == [turn[w] EXCEPT !.pc = "recording", !.result = result]
    <3>2. result \in Result
      BY <1>0, ResultTypes
    <3>3. r \in Turn /\ r.pc = "recording" /\ r.events = turn[w].events
      BY <1>0, <3>2, TurnTypes DEF Turn
    <3>4. TurnGoes(w)
      BY <1>0, <2>5, <3>1, <3>3 DEF WriteAnswer, TurnGoes
    <3> QED
      BY <1>0, <2>0, <3>4, TurnGoesType
  <2>6. CASE TurnFails(w)
    <3>1. TurnGoes(w)
      BY <1>0, <2>6, FailGoes DEF TurnFails
    <3> QED
      BY <1>0, <2>0, <3>1, TurnGoesType
  <2>7. CASE CheckpointFails(w)
    <3>1. <<>> \in Seq(Event) /\ Len(<<>>) <= 2
      OBVIOUS
    <3>2. TurnGoes(w)
      BY <2>7, <3>1, FailGoes DEF CheckpointFails
    <3> QED
      BY <1>0, <2>0, <3>2, TurnGoesType
  <2>8. CASE CommitRecords(w) \/ RecordsFail(w)
    BY <2>8, EndTypes DEF CommitRecords, RecordsFail
  <2> QED
    BY <2>1, <2>2, <2>3, <2>4, <2>5, <2>6, <2>7, <2>8 DEF Conversing
<1>3. /\ checkpoint' \in [Session -> Seq(Message)]
      /\ threads' = {s \in Session : checkpoint'[s] # <<>>}
  <2>1. CASE WriteQuestion(w)
    BY <2>1, MessageTypes, WriteTypes DEF WriteQuestion
  <2>2. CASE WriteAnswer(w)
    BY <2>2, MessageTypes, WriteTypes DEF WriteAnswer
  <2>3. CASE ~WriteQuestion(w) /\ ~WriteAnswer(w)
    BY <2>3 DEF Conversing, Send, LoadThread, CallTool, TurnFails, CheckpointFails,
       CommitRecords, RecordsFail, Typed, TypeOK
  <2> QED
    BY <2>1, <2>2, <2>3
<1>4. logs' \in SUBSET Log /\ answers' \in SUBSET Answer
  <2>1. CASE CommitRecords(w)
    <3>1. NewLogs(w) \subseteq Log
      <4>1. turn[w].session \in Session /\ turn[w].turn \in Nat
        BY <1>0, TurnTypes
      <4>2. \A i \in DOMAIN turn[w].events : turn[w].events[i].id \in CallId
        <5>1. \A i \in DOMAIN turn[w].events : turn[w].events[i] \in Event
          BY <1>0
        <5> QED
          BY <5>1 DEF Event
      <4> QED
        BY <4>1, <4>2 DEF NewLogs, Log
    <3>2. [session |-> turn[w].session, turn |-> turn[w].turn,
           result |-> turn[w].result, calls |-> turn[w].events] \in Answer
      BY <1>0, TurnTypes DEF Answer
    <3> QED
      BY <2>1, <3>1, <3>2 DEF CommitRecords, Deliver, DeliverAnyway, Withhold, Typed, TypeOK
  <2>2. CASE ~CommitRecords(w)
    BY <2>2 DEF Conversing, Send, LoadThread, WriteQuestion, CallTool, WriteAnswer, TurnFails,
       CheckpointFails, RecordsFail, Withhold, Typed, TypeOK
  <2> QED
    BY <2>1, <2>2
<1> QED
  BY <1>1, <1>2, <1>3, <1>4 DEF Typed, TypeOK, BaseOK

LEMMA TypeRest ==
    ASSUME Typed, \/ ExpireAccess /\ Beside
                  \/ ExpireLogin /\ Beside
                  \/ Crash
    PROVE  Typed'
<1> USE DEF stored, files, checklist, agent, locks, observers, bounds
<1>1. CASE ExpireAccess /\ Beside
  BY <1>1 DEF ExpireAccess, Beside, talking, Typed, TypeOK, BaseOK, InTurn
<1>2. CASE ExpireLogin /\ Beside
  <2>1. logins' \in [Login -> LoginRow]
    <3>1. PICK l \in Login : logins' = [logins EXCEPT ![l].state = "EXPIRED"]
      BY <1>2 DEF ExpireLogin
    <3>2. logins \in [Login -> LoginRow] /\ [logins[l] EXCEPT !.state = "EXPIRED"] \in LoginRow
      BY DEF Typed, TypeOK, LoginRow
    <3> QED
      BY <3>1, <3>2
  <2> QED
    BY <1>2, <2>1 DEF ExpireLogin, Beside, talking, Typed, TypeOK, BaseOK, InTurn
<1>3. CASE Crash
  <2>1. /\ faults' \in Nat /\ projectLock' \in [Project -> Worker \cup {None}]
        /\ UNCHANGED <<projects, sessions, threads, served, checkpoint, logs, answers,
                       accounts, logins, access>>
    BY <1>3 DEF Crash, Typed, BaseOK
  <2>2. /\ task' \in [Worker -> Task]
        /\ \A w \in Worker : task'[w].pc # "sending"
    BY <1>3, RecordTypes DEF Crash, Typed, BaseOK, Busy, BusyPc
  <2>3. /\ turn' \in [Worker -> Turn] /\ held' \in [Worker -> Held]
        /\ \A w \in Worker : turn'[w].pc = "idle" /\ turn'[w].events = <<>>
    BY <1>3, RecordTypes DEF Crash
  <2> QED
    BY <2>1, <2>2, <2>3 DEF Typed, TypeOK, BaseOK, InTurn
<1> QED
  BY <1>1, <1>2, <1>3

LEMMA TypeNext ==
    ASSUME Typed, [Next]_service
    PROVE  Typed'
<1>1. CASE UNCHANGED service
  BY <1>1 DEF service, vars, talking, account, agent, locks, bounds,
     Typed, TypeOK, BaseOK, InTurn
<1> QED
  BY <1>1, TypeManaging, TypeConversing, TypeLogging, TypeRest DEF Next

\* Every row, token and turn stays in its domain, a turn has at most two calls,
\* every turn belongs to one request under way, and a session has a thread
\* exactly as long as it has messages.
THEOREM TypeCorrect == Spec => []TypeOK
<1>1. Typed /\ [Next]_service => Typed'
  BY TypeNext
<1>2. Typed => TypeOK
  BY DEF Typed
<1> QED
  BY <1>1, <1>2, TypeInit, PTL DEF Spec

\* No step makes a revoked login usable again: a refresh writes back what the
\* row holds at its commit, not what it has read.
THEOREM RevocationIsFinal == Spec => RevocationSticks
<1>1. ASSUME Typed, [Next]_service
      PROVE  [\A l \in Login : logins[l].state = "REVOKED" => logins'[l].state = "REVOKED"]_service
  <2> SUFFICES ASSUME NEW l \in Login, logins[l].state = "REVOKED"
               PROVE  logins'[l].state = "REVOKED"
    OBVIOUS
  <2>0. logins \in [Login -> LoginRow] /\ \A w \in Worker : held[w].login \in Login
    BY <1>1 DEF Typed, TypeOK, Held
  <2>1. CASE \E w \in Worker : LoggingIn(w)
    <3>1. PICK w \in Worker : LoggingIn(w)
      BY <2>1
    <3>2. CASE LogIn(w)
      BY <2>0, <3>2 DEF LogIn, LoginRow
    <3>3. CASE CommitRefresh(w)
      BY <2>0, <3>3 DEF CommitRefresh, RefreshedRow
    <3>4. CASE CommitLogout(w)
      BY <2>0, <3>4 DEF CommitLogout, LoginRow
    <3> QED
      BY <3>1, <3>2, <3>3, <3>4 DEF LoggingIn, RegisterUser, ReadForRefresh, ReadForLogout
  <2>2. CASE ExpireLogin
    BY <2>0, <2>2 DEF ExpireLogin, Usable, LoginRow
  <2>3. CASE logins' = logins
    BY <2>3
  <2>4. \/ \E w \in Worker : LoggingIn(w)
        \/ ExpireLogin
        \/ logins' = logins
    BY <1>1 DEF Next, Managing, Conversing, Around, Aside, ExpireAccess, Crash, account, service
  <2> QED
    BY <2>1, <2>2, <2>3, <2>4
<1>2. Typed /\ [Next]_service => Typed'
  BY TypeNext
<1> QED
  BY <1>1, <1>2, TypeInit, PTL DEF Spec, RevocationSticks

-----------------------------------------------------------------------------
\* Who deletes a project keeps its row, and has deleted or is going to delete
\* every thread of it, but for those a turn writes meanwhile.
ClearInv ==
    \A u \in Worker : task[u].pc = "clearing" =>
        /\ projectLock[task[u].project] = u /\ Live(task[u].project)
        /\ \A s \in Session : sessions[s] = task[u].project /\ s \in threads =>
              s \in task[u].todo \/ s \in overtaken
\* Who is refused the deletion of a project keeps its row until it is closed.
RefusedInv ==
    \A u \in Worker : task[u].pc = "refusing" => projectLock[task[u].project] = u
\* What is left of a deleted session.
RemnantInv ==
    /\ \A s \in Session : sessions[s] = None /\ s \in threads => s \in overtaken
    /\ \A v \in Worker : InTurn(v) /\ sessions[turn[v].session] = None =>
          turn[v].session \in overtaken
    /\ \A l \in logs : sessions[l.session] # None

\* A step notes the turns it overtakes.
LEMMA Overtakes ==
    ASSUME Observe
    PROVE  /\ overtaken \subseteq overtaken'
           /\ \A v \in Worker : InTurn(v) /\ turn[v].session \in threads \ threads' =>
                 turn[v].session \in overtaken'
           /\ \A v \in Worker : InTurn(v) /\ sessions'[turn[v].session] = None =>
                 turn[v].session \in overtaken'
           /\ \A u, v \in Worker :
                 InTurn(v) /\ task'[u].pc = "clearing"
                 /\ task'[u].project = sessions[turn[v].session] =>
                    turn[v].session \in overtaken'
BY DEF Observe

LEMMA RemnantManaging ==
    ASSUME Typed, ClearInv, RefusedInv, RemnantInv, NEW w \in Worker, Managing(w)
    PROVE  ClearInv' /\ RemnantInv'
<1> USE DEF files, checklist, agent, locks, observers, bounds
<1>0. /\ projects \in [Project -> ProjectRow]
      /\ sessions \in [Session -> Project \cup {None}]
      /\ projectLock \in [Project -> Worker \cup {None}]
      /\ task \in [Worker -> Task] /\ task[w] \in Task
      /\ turn' = turn /\ logs' \subseteq logs
      /\ \A l \in logs' : sessions[l.session] = None \/ sessions'[l.session] # None
      /\ \A v \in Worker : task[v].project \in Project
      /\ \A l \in logs : l.session \in Session
      /\ Idle.pc = "idle"
  <2>1. turn' = turn /\ logs' = {l \in logs : ~(sessions[l.session] # None
                                                /\ sessions'[l.session] = None)}
    BY ManageMoves DEF Around, LogsGoWithSessions
  <2>2. /\ projects \in [Project -> ProjectRow]
        /\ sessions \in [Session -> Project \cup {None}]
        /\ projectLock \in [Project -> Worker \cup {None}]
        /\ task \in [Worker -> Task] /\ logs \subseteq Log
    BY DEF Typed, TypeOK, BaseOK
  <2> QED
    BY <2>1, <2>2, RecordTypes DEF Task, Log
<1>1. /\ \A v \in Worker \ {w} : task'[v] = task[v]
      /\ overtaken \subseteq overtaken' /\ threads' \subseteq threads
      /\ \A v \in Worker : InTurn(v) /\ sessions'[turn[v].session] = None =>
            turn[v].session \in overtaken'
  BY ManageMoves, Overtakes DEF Around
<1>2. \A l \in logs' : sessions'[l.session] # None
  BY <1>0 DEF RemnantInv
<1>3. \A v \in Worker : InTurn(v)' /\ sessions'[turn'[v].session] = None =>
            turn'[v].session \in overtaken'
  BY <1>0, <1>1 DEF InTurn
<1>4. CASE OpenSession(w)
  <2>1. PICK p \in Project, s \in Session :
           /\ projectLock[p] = None /\ s \notin threads
           /\ sessions' = [sessions EXCEPT ![s] = p]
    BY <1>4 DEF OpenSession, Unlocked
  <2>2. projects' = projects /\ threads' = threads /\ task' = task /\ projectLock' = projectLock
    BY <1>4 DEF OpenSession
  <2>3. ClearInv'
    BY <1>0, <1>1, <2>1, <2>2 DEF ClearInv, Live
  <2>4. RemnantInv'
    BY <1>0, <1>1, <1>2, <1>3, <2>1, <2>2 DEF RemnantInv
  <2> QED
    BY <2>3, <2>4
<1>5. CASE LockEmpty(w)
  <2>1. PICK p \in Project : LockEmpty(w)!2!(p)
    BY <1>5 DEF LockEmpty
  <2> DEFINE todo == {s \in Session : sessions[s] = p}
             r == [Idle EXCEPT !.pc = "clearing", !.project = p, !.todo = todo]
  <2>2. r.pc = "clearing" /\ r.project = p /\ r.todo = todo
    BY RecordTypes DEF Task
  <2>3. task'[w] = r
    BY <1>0, <2>1 DEF Become
  <2>4. /\ Live(p) /\ projectLock[p] = None
        /\ projectLock' = [projectLock EXCEPT ![p] = w]
    BY <2>1 DEF EmptyAndFree, Free, Unlocked, Lock
  <2>5. projects' = projects /\ threads' = threads /\ sessions' = sessions
    BY <1>5 DEF LockEmpty
  <2> HIDE DEF r
  <2>6. ClearInv'
    <3> SUFFICES ASSUME NEW u \in Worker, task'[u].pc = "clearing"
                 PROVE  /\ projectLock'[task'[u].project] = u
                        /\ projects'[task'[u].project].state = "LIVE"
                        /\ \A s \in Session : sessions'[s] = task'[u].project /\ s \in threads' =>
                              s \in task'[u].todo \/ s \in overtaken'
      BY DEF ClearInv, Live
    <3>1. CASE u = w
      BY <1>0, <2>2, <2>3, <2>4, <2>5, <3>1 DEF Live
    <3>2. CASE u # w
      BY <1>0, <1>1, <2>4, <2>5, <3>2 DEF ClearInv, Live
    <3> QED
      BY <3>1, <3>2
  <2>7. RemnantInv'
    BY <1>1, <1>2, <1>3, <2>5 DEF RemnantInv
  <2> QED
    BY <2>6, <2>7
<1>6. CASE ClearThread(w)
  <2>1. PICK s \in task[w].todo : /\ threads' = threads \ {s}
                                  /\ Become(w, [task[w] EXCEPT !.todo = @ \ {s}])
    BY <1>6 DEF ClearThread
  <2>2. /\ task'[w].pc = task[w].pc /\ task'[w].project = task[w].project
        /\ task'[w].todo = task[w].todo \ {s}
    BY <1>0, <2>1 DEF Become, Task
  <2>3. projects' = projects /\ sessions' = sessions /\ projectLock' = projectLock
    BY <1>6 DEF ClearThread
  <2>4. ClearInv'
    <3> SUFFICES ASSUME NEW u \in Worker, task'[u].pc = "clearing"
                 PROVE  /\ projectLock'[task'[u].project] = u
                        /\ projects'[task'[u].project].state = "LIVE"
                        /\ \A t \in Session : sessions'[t] = task'[u].project /\ t \in threads' =>
                              t \in task'[u].todo \/ t \in overtaken'
      BY DEF ClearInv, Live
    <3>1. CASE u = w
      BY <1>1, <2>1, <2>2, <2>3, <3>1 DEF ClearInv, Live
    <3>2. CASE u # w
      BY <1>1, <2>1, <2>3, <3>2 DEF ClearInv, Live
    <3> QED
      BY <3>1, <3>2
  <2>5. RemnantInv'
    BY <1>1, <1>2, <1>3, <2>3 DEF RemnantInv
  <2> QED
    BY <2>4, <2>5
<1>7. CASE CommitProjectDeletion(w) \/ FailProjectDeletion(w)
  <2> DEFINE p == task[w].project
  <2>1. /\ task[w].pc = "clearing" /\ Finish(w) /\ threads' = threads
        /\ projectLock' = [projectLock EXCEPT ![p] = None]
        /\ \A q \in Project \ {p} : projects'[q] = projects[q]
        /\ \/ sessions' = sessions
           \/ /\ task[w].todo = {}
              /\ \A s \in Session : sessions'[s] = IF sessions[s] = p THEN None ELSE sessions[s]
    BY <1>0, <1>7 DEF CommitProjectDeletion, FailProjectDeletion, Release
  <2>2. task'[w].pc = "idle"
    BY <1>0, <2>1 DEF Finish, Become
  <2>3. \A u \in Worker \ {w} : task[u].pc = "clearing" => task[u].project # p
    BY <2>1 DEF ClearInv
  <2>4. ClearInv'
    <3> SUFFICES ASSUME NEW u \in Worker \ {w}, task'[u].pc = "clearing"
                 PROVE  /\ projectLock'[task'[u].project] = u
                        /\ projects'[task'[u].project].state = "LIVE"
                        /\ \A s \in Session : sessions'[s] = task'[u].project /\ s \in threads' =>
                              s \in task'[u].todo \/ s \in overtaken'
      BY <2>2 DEF ClearInv, Live
    <3>1. task'[u] = task[u] /\ task[u].project \in Project \ {p}
      BY <1>0, <1>1, <2>3
    <3>2. \A s \in Session : sessions'[s] = task[u].project => sessions[s] = task[u].project
      BY <2>1, <3>1
    <3> QED
      BY <1>0, <1>1, <2>1, <3>1, <3>2 DEF ClearInv, Live
  <2>5. \A s \in Session : sessions'[s] = None /\ s \in threads =>
           sessions[s] = None \/ s \in overtaken
    BY <2>1 DEF ClearInv
  <2>6. RemnantInv'
    BY <1>1, <1>2, <1>3, <2>1, <2>5 DEF RemnantInv
  <2> QED
    BY <2>4, <2>6
<1>8. CASE RefuseDeletion(w) \/ CloseRefused(w)
  <2>1. /\ projects' = projects /\ threads' = threads /\ sessions' = sessions
        /\ task'[w].pc # "clearing"
    <3>1. CASE RefuseDeletion(w)
      <4>1. PICK p \in Project : Become(w, [Idle EXCEPT !.pc = "refusing", !.project = p])
        BY <3>1 DEF RefuseDeletion
      <4>2. [Idle EXCEPT !.pc = "refusing", !.project = p].pc = "refusing"
        BY RecordTypes DEF Task
      <4>3. task'[w].pc = "refusing"
        BY <1>0, <4>1, <4>2 DEF Become
      <4> QED
        BY <3>1, <4>3 DEF RefuseDeletion
    <3>2. CASE CloseRefused(w)
      BY <1>0, <3>2, FinishType DEF CloseRefused
    <3> QED
      BY <1>8, <3>1, <3>2
  <2>2. ASSUME NEW u \in Worker \ {w}, task[u].pc = "clearing"
        PROVE  projectLock'[task[u].project] = u
    <3>1. projectLock[task[u].project] = u /\ u # None /\ task[u].project \in Project
      BY <1>0, <2>2, NoneAssumption DEF ClearInv
    <3>2. \E p \in Project : \E h :
             projectLock[p] # u /\ projectLock' = [projectLock EXCEPT ![p] = h]
      BY <1>0, <1>8, <3>1 DEF RefuseDeletion, CloseRefused, Free, Unlocked, Lock, RefusedInv
    <3> QED
      BY <1>0, <3>1, <3>2
  <2>3. ClearInv'
    BY <1>0, <1>1, <2>1, <2>2 DEF ClearInv, Live
  <2>4. RemnantInv'
    BY <1>1, <1>2, <1>3, <2>1 DEF RemnantInv
  <2> QED
    BY <2>3, <2>4
<1> QED
  BY <1>4, <1>5, <1>6, <1>7, <1>8 DEF Managing

LEMMA RemnantConversing ==
    ASSUME Typed, ClearInv, RemnantInv, NEW w \in Worker, Conversing(w)
    PROVE  ClearInv' /\ RemnantInv'
<1> USE DEF platform, files, checklist, agent, locks, observers, bounds
<1>0. /\ sessions' = sessions /\ projects' = projects /\ projectLock' = projectLock
      /\ task \in [Worker -> Task] /\ turn \in [Worker -> Turn]
      /\ Observe
  BY DEF Conversing, Aside, Send, LoadThread, WriteQuestion, CallTool, WriteAnswer,
     TurnFails, CheckpointFails, CommitRecords, RecordsFail, Typed, TypeOK, BaseOK
<1>1. /\ overtaken \subseteq overtaken'
      /\ \A u, v \in Worker :
            InTurn(v) /\ task'[u].pc = "clearing"
            /\ task'[u].project = sessions[turn[v].session] => turn[v].session \in overtaken'
  BY <1>0, Overtakes
<1>2. /\ \A v \in Worker \ {w} : task'[v] = task[v] /\ turn'[v] = turn[v]
      /\ task'[w].pc # "clearing"
      /\ turn'[w].pc # "idle" => \/ sessions[turn'[w].session] # None
                                 \/ InTurn(w) /\ turn'[w].session = turn[w].session
  <2>0. /\ InTurn(w) => task[w].pc = "sending"
        /\ Idle \in Task /\ Idle.pc = "idle" /\ NoTurn \in Turn /\ NoTurn.pc = "idle"
        /\ turn[w] \in Turn
    BY RecordTypes DEF Typed, TypeOK
  <2>1. CASE Send(w)
    <3>1. PICK s \in Session :
             /\ sessions[s] # None
             /\ Go(w, [NoTurn EXCEPT !.pc = "loading", !.session = s, !.turn = served + 1])
      BY <2>1 DEF Send
    <3>2. [NoTurn EXCEPT !.pc = "loading", !.session = s, !.turn = served + 1].session = s
      BY <2>0 DEF Turn
    <3>3. turn'[w].session = s /\ \A v \in Worker \ {w} : turn'[v] = turn[v]
      BY <1>0, <3>1, <3>2 DEF Go
    <3>4. task'[w].pc = "sending" /\ \A v \in Worker \ {w} : task'[v] = task[v]
      BY <1>0, <2>0, <2>1 DEF Send, Become, Task
    <3> QED
      BY <3>1, <3>3, <3>4
  <2>2. CASE CommitRecords(w) \/ RecordsFail(w)
    BY <1>0, <2>0, <2>2 DEF CommitRecords, RecordsFail, End, Finish, Become, Go
  <2>3. CASE \/ LoadThread(w) \/ WriteQuestion(w) \/ CallTool(w) \/ WriteAnswer(w)
             \/ TurnFails(w) \/ CheckpointFails(w)
    <3>1. /\ task' = task /\ InTurn(w)
          /\ \/ \E b : Go(w, [turn[w] EXCEPT !.pc = "asking", !.base = b])
             \/ Go(w, [turn[w] EXCEPT !.pc = "deciding"])
             \/ \E e : Go(w, [turn[w] EXCEPT !.events = e])
             \/ \E x : Go(w, [turn[w] EXCEPT !.pc = "recording", !.result = x])
             \/ \E e : Go(w, [turn[w] EXCEPT !.pc = "recording", !.result = "FAILED",
                                 !.events = e])
      BY <2>3 DEF LoadThread, WriteQuestion, CallTool, WriteAnswer, TurnFails, CheckpointFails,
         Fail, InTurn
    <3>0. /\ \A b : [turn[w] EXCEPT !.pc = "asking", !.base = b].session = turn[w].session
          /\ [turn[w] EXCEPT !.pc = "deciding"].session = turn[w].session
          /\ \A e : [turn[w] EXCEPT !.events = e].session = turn[w].session
          /\ \A x : [turn[w] EXCEPT !.pc = "recording", !.result = x].session = turn[w].session
          /\ \A e : [turn[w] EXCEPT !.pc = "recording", !.result = "FAILED",
                        !.events = e].session = turn[w].session
      BY <2>0 DEF Turn
    <3>01. \A r : Go(w, r) => turn'[w] = r /\ \A v \in Worker \ {w} : turn'[v] = turn[v]
      BY <1>0 DEF Go
    <3>2. \E r : Go(w, r) /\ r.session = turn[w].session
      <4>1. CASE \E b : Go(w, [turn[w] EXCEPT !.pc = "asking", !.base = b])
        BY <3>0, <4>1
      <4>2. CASE Go(w, [turn[w] EXCEPT !.pc = "deciding"])
        BY <3>0, <4>2
      <4>3. CASE \E e : Go(w, [turn[w] EXCEPT !.events = e])
        BY <3>0, <4>3
      <4>4. CASE \E x : Go(w, [turn[w] EXCEPT !.pc = "recording", !.result = x])
        BY <3>0, <4>4
      <4>5. CASE \E e : Go(w, [turn[w] EXCEPT !.pc = "recording", !.result = "FAILED",
                                   !.events = e])
        BY <3>0, <4>5
      <4> QED
        BY <3>1, <4>1, <4>2, <4>3, <4>4, <4>5
    <3>3. turn'[w].session = turn[w].session /\ \A v \in Worker \ {w} : turn'[v] = turn[v]
      <4>1. PICK r : Go(w, r) /\ r.session = turn[w].session
        BY <3>2
      <4> QED
        BY <3>01, <4>1
    <3> QED
      BY <2>0, <3>1, <3>3
  <2> QED
    BY <2>1, <2>2, <2>3 DEF Conversing
<1>3. \A s \in threads' \ threads : InTurn(w) /\ s = turn[w].session
  BY DEF Conversing, Send, LoadThread, WriteQuestion, CallTool, WriteAnswer, Write,
     TurnFails, CheckpointFails, CommitRecords, RecordsFail, InTurn
<1>4. \A l \in logs' \ logs : sessions[l.session] # None
  <2>1. CASE CommitRecords(w)
    <3>1. \A l \in NewLogs(w) : l.session = turn[w].session
      BY DEF NewLogs
    <3> QED
      BY <2>1, <3>1 DEF CommitRecords
  <2>2. CASE ~CommitRecords(w)
    BY <2>2 DEF Conversing, Send, LoadThread, WriteQuestion, CallTool, WriteAnswer,
       TurnFails, CheckpointFails, RecordsFail
  <2> QED
    BY <2>1, <2>2
<1>5. ClearInv'
  <2> SUFFICES ASSUME NEW u \in Worker, task'[u].pc = "clearing"
               PROVE  /\ projectLock'[task'[u].project] = u
                      /\ projects'[task'[u].project].state = "LIVE"
                      /\ \A s \in Session : sessions'[s] = task'[u].project /\ s \in threads' =>
                            s \in task'[u].todo \/ s \in overtaken'
    BY DEF ClearInv, Live
  <2>1. u # w /\ task'[u] = task[u]
    BY <1>2
  <2> QED
    BY <1>0, <1>1, <1>3, <2>1 DEF ClearInv, Live
<1>6. RemnantInv'
  BY <1>0, <1>1, <1>2, <1>3, <1>4 DEF RemnantInv, InTurn
<1> QED
  BY <1>5, <1>6

\* The row of a refused deletion is given to nobody else, and only its holder
\* returns it.
LEMMA RefusedNext ==
    ASSUME Typed, ClearInv, RefusedInv, [Next]_service
    PROVE  RefusedInv'
<1> USE DEF stored, files, checklist, agent, locks, observers, bounds
<1>0. /\ projectLock \in [Project -> Worker \cup {None}]
      /\ task \in [Worker -> Task]
      /\ \A v \in Worker : task[v].project \in Project /\ v # None
      /\ Idle \in Task /\ Idle.pc = "idle"
  BY RecordTypes, NoneAssumption DEF Typed, BaseOK, Task
<1>1. ASSUME NEW w \in Worker, Managing(w)
      PROVE  RefusedInv'
  <2>0. \A v \in Worker \ {w} : task'[v] = task[v]
    BY <1>1, ManageMoves
  <2>1. CASE OpenSession(w) \/ ClearThread(w)
    <3>1. projectLock' = projectLock /\ task'[w].pc # "refusing"
      BY <1>0, <2>1 DEF OpenSession, ClearThread, Accept, Become, Task
    <3> QED
      BY <1>0, <2>0, <3>1 DEF RefusedInv
  <2>2. CASE LockEmpty(w) \/ RefuseDeletion(w)
    <3>1. PICK p \in Project, t \in SUBSET Session :
             /\ projectLock[p] = None /\ projectLock' = [projectLock EXCEPT ![p] = w]
             /\ \/ Become(w, [Idle EXCEPT !.pc = "clearing", !.project = p, !.todo = t])
                \/ Become(w, [Idle EXCEPT !.pc = "refusing", !.project = p])
      <4>1. CASE RefuseDeletion(w)
        BY <4>1 DEF RefuseDeletion, Free, Unlocked, Lock
      <4>2. CASE LockEmpty(w)
        <5>1. PICK p \in Project : LockEmpty(w)!2!(p)
          BY <4>2 DEF LockEmpty
        <5>2. {s \in Session : sessions[s] = p} \in SUBSET Session
          OBVIOUS
        <5> QED
          BY <5>1, <5>2 DEF EmptyAndFree, Free, Unlocked, Lock
      <4> QED
        BY <2>2, <4>1, <4>2
    <3>2. task'[w].project = p
      <4>1. /\ [Idle EXCEPT !.pc = "clearing", !.project = p, !.todo = t].project = p
            /\ [Idle EXCEPT !.pc = "refusing", !.project = p].project = p
        BY <1>0 DEF Task
      <4> QED
        BY <1>0, <3>1, <4>1 DEF Become
    <3> QED
      BY <1>0, <2>0, <3>1, <3>2 DEF RefusedInv
  <2>3. CASE CommitProjectDeletion(w) \/ FailProjectDeletion(w) \/ CloseRefused(w)
    <3>1. /\ projectLock[task[w].project] = w
          /\ projectLock' = [projectLock EXCEPT ![task[w].project] = None]
          /\ Finish(w)
      BY <2>3 DEF CommitProjectDeletion, FailProjectDeletion, CloseRefused, Release,
         HolderAfterClose, ClearInv, RefusedInv
    <3>2. task'[w].pc = "idle"
      BY <1>0, <3>1, FinishType
    <3> QED
      BY <1>0, <2>0, <3>1, <3>2 DEF RefusedInv
  <2> QED
    BY <1>1, <2>1, <2>2, <2>3 DEF Managing
<1>2. ASSUME NEW w \in Worker, Conversing(w) \/ LoggingIn(w)
      PROVE  RefusedInv'
  <2>1. projectLock' = projectLock
    BY <1>2 DEF Conversing, Send, LoadThread, WriteQuestion, CallTool, WriteAnswer, TurnFails,
       CheckpointFails, CommitRecords, RecordsFail, LoggingIn, Aside, Beside, platform, talking,
       RegisterUser, LogIn, ReadForRefresh, CommitRefresh, ReadForLogout, CommitLogout, vars
  <2>2. \/ task' = task \/ Finish(w)
        \/ \E pc \in {"sending", "refreshing", "revoking"} : Become(w, [Idle EXCEPT !.pc = pc])
    BY <1>2 DEF Conversing, Send, LoadThread, WriteQuestion, CallTool, WriteAnswer, TurnFails,
       CheckpointFails, CommitRecords, RecordsFail, End, LoggingIn, Aside, Beside, talking,
       RegisterUser, LogIn, ReadForRefresh, CommitRefresh, ReadForLogout, CommitLogout
  <2>3. \A v \in Worker : task'[v] = task[v] \/ task'[v].pc # "refusing"
    BY <1>0, <2>2 DEF Finish, Become, Task
  <2> QED
    BY <2>1, <2>3 DEF RefusedInv
<1>3. CASE (ExpireAccess \/ ExpireLogin) /\ Beside
  BY <1>3 DEF Beside, talking, ExpireAccess, ExpireLogin, RefusedInv, vars
<1>4. CASE Crash
  BY <1>0, <1>4 DEF Crash, Busy, BusyPc, UploadPc, LoopPc, RefusedInv
<1>5. CASE UNCHANGED service
  BY <1>5 DEF service, vars, RefusedInv
<1> QED
  BY <1>1, <1>2, <1>3, <1>4, <1>5 DEF Next

LEMMA RemnantNext ==
    ASSUME Typed, ClearInv, RefusedInv, RemnantInv, [Next]_service
    PROVE  ClearInv' /\ RefusedInv' /\ RemnantInv'
<1> USE DEF stored, files, checklist, agent, locks, observers, bounds
<1>0. SUFFICES ClearInv' /\ RemnantInv'
  BY RefusedNext
<1>1. CASE \E w \in Worker : LoggingIn(w)
  <2>1. PICK w \in Worker : LoggingIn(w)
    BY <1>1
  <2>2. /\ UNCHANGED <<projects, sessions, threads, projectLock, turn, logs>>
        /\ overtaken \subseteq overtaken'
    BY <2>1, Overtakes DEF LoggingIn, Beside, talking, RegisterUser, LogIn, ReadForRefresh,
       CommitRefresh, ReadForLogout, CommitLogout
  <2>3. \A u \in Worker : task'[u].pc = "clearing" => task'[u] = task[u]
    <3>1. task \in [Worker -> Task] /\ Idle.pc = "idle" /\ Idle \in Task
      BY RecordTypes DEF Typed, BaseOK
    <3>2. \/ task' = task
          \/ \E pc \in {"idle", "refreshing", "revoking"} : Become(w, [Idle EXCEPT !.pc = pc])
      <4>1. Finish(w) => Become(w, [Idle EXCEPT !.pc = "idle"])
        BY <3>1 DEF Finish, Task
      <4> QED
        BY <2>1, <4>1 DEF LoggingIn, RegisterUser, LogIn, ReadForRefresh,
           CommitRefresh, ReadForLogout, CommitLogout
    <3>3. \A pc : [Idle EXCEPT !.pc = pc].pc = pc
      BY <3>1 DEF Task
    <3> QED
      BY <3>1, <3>2, <3>3 DEF Become
  <2> QED
    BY <2>2, <2>3 DEF ClearInv, RemnantInv, Live, InTurn
<1>2. CASE (ExpireAccess \/ ExpireLogin) /\ Beside
  <2>1. /\ UNCHANGED <<projects, sessions, threads, projectLock, turn, logs, task>>
        /\ overtaken \subseteq overtaken'
    BY <1>2, Overtakes DEF Beside, talking, ExpireAccess, ExpireLogin
  <2> QED
    BY <2>1 DEF ClearInv, RemnantInv, Live, InTurn
<1>3. CASE Crash
  <2>1. /\ UNCHANGED <<sessions, threads, logs>>
        /\ overtaken \subseteq overtaken'
        /\ \A u \in Worker : task'[u].pc # "clearing" /\ turn'[u].pc = "idle"
    BY <1>3, Overtakes, RecordTypes DEF Crash, Busy, BusyPc
  <2> QED
    BY <2>1 DEF ClearInv, RemnantInv, InTurn
<1>4. CASE UNCHANGED service
  BY <1>4 DEF service, vars, talking, ClearInv, RemnantInv, Live, InTurn
<1> QED
  BY <1>1, <1>2, <1>3, <1>4, RemnantManaging, RemnantConversing DEF Next

LEMMA RemnantInit == Init => ClearInv /\ RefusedInv /\ RemnantInv
<1> SUFFICES ASSUME Init PROVE ClearInv /\ RefusedInv /\ RemnantInv
  OBVIOUS
<1>1. PICK p \in Project, s \in Session, u \in User, l \in Login, n \in Name,
           f \in File, c \in CallId,
           live \in BOOLEAN, formal \in BOOLEAN, opened \in BOOLEAN, talked \in BOOLEAN :
           Init!(p, s, u, l, n, f, c, live, formal, opened, talked)
  BY DEF Init
<1>2. ClearInv /\ RefusedInv
  BY <1>1, RecordTypes DEF ClearInv, RefusedInv
<1>3. RemnantInv
  BY <1>1, RecordTypes DEF RemnantInv, InTurn
<1> QED
  BY <1>2, <1>3

\* A deleted session has no thread, unless a turn was under way as it was
\* deleted, and no log row at all: a new thread comes into a project that is
\* being deleted only from such a turn, and the deletion has cleared the rest.
THEOREM SessionsEndWhole == Spec => []NothingOutlivesSession
<1>1. /\ Typed /\ ClearInv /\ RefusedInv /\ RemnantInv /\ [Next]_service
            => (Typed /\ ClearInv /\ RefusedInv /\ RemnantInv)'
  BY TypeNext, RemnantNext
<1>2. Typed /\ RemnantInv => NothingOutlivesSession
  BY DEF Typed, TypeOK, RemnantInv, NothingOutlivesSession
<1> QED
  BY <1>1, <1>2, TypeInit, RemnantInit, PTL DEF Spec

-----------------------------------------------------------------------------
\* Turns under way have numbers of their own, and nothing is audited under
\* them before their commit.
NumberInv ==
    /\ \A v \in Worker : InTurn(v) => turn[v].turn <= served
    /\ \A u, v \in Worker : InTurn(u) /\ InTurn(v) /\ u # v => turn[u].turn # turn[v].turn
    /\ \A l \in logs : /\ l.turn <= served
                       /\ \A v \in Worker : InTurn(v) => turn[v].turn # l.turn
\* An answer that is about to be recorded has its evidence.
EvidenceInv ==
    \A v \in Worker : turn[v].pc = "recording" /\ turn[v].result = "ANSWERED" =>
        Successful(turn[v].events) # {} /\ LastSuccessful(turn[v].events) = "found"
\* A session that has been answered does not come back once it is deleted: the
\* project it belonged to was the only one.
GoneInv ==
    /\ \A p, q \in Project : Live(p) /\ Live(q) => p = q
    /\ \A a \in answers : sessions[a.session] = None => \A q \in Project : ~Live(q)
AnswerInv == NumberInv /\ EvidenceInv /\ GoneInv /\ AnswersAreBacked

\* What a step of a turn that goes on does.
Proceeds(w) ==
    /\ InTurn(w) /\ turn'[w].turn = turn[w].turn
    /\ \A v \in Worker \ {w} : turn'[v] = turn[v]
    /\ UNCHANGED <<sessions, projects, served, logs, answers>>
    /\ turn'[w].pc = "recording" /\ turn'[w].result = "ANSWERED" =>
          /\ Successful(turn'[w].events) # {}
          /\ LastSuccessful(turn'[w].events) = "found"

LEMMA ProceedingSteps ==
    ASSUME Typed, NEW w \in Worker,
           \/ LoadThread(w) \/ WriteQuestion(w) \/ CallTool(w) \/ WriteAnswer(w)
           \/ TurnFails(w) \/ CheckpointFails(w)
    PROVE  Proceeds(w)
<1> USE DEF platform, files, checklist, agent, locks, observers, bounds
<1>0. /\ turn[w] \in Turn /\ turn \in [Worker -> Turn]
      /\ Len(turn[w].events) <= 2 /\ turn[w].events \in Seq(Event)
  BY TurnTypes DEF Typed, TypeOK
<1>1. /\ InTurn(w) /\ UNCHANGED <<sessions, projects, served, logs, answers>>
  BY DEF LoadThread, WriteQuestion, CallTool, WriteAnswer, TurnFails, CheckpointFails,
     Fault, InTurn
<1>2. \A r : Go(w, r) => turn'[w] = r /\ \A v \in Worker \ {w} : turn'[v] = turn[v]
  BY <1>0 DEF Go
<1>3. CASE LoadThread(w)
  <2> DEFINE r == [turn[w] EXCEPT !.pc = "asking", !.base = checkpoint[turn[w].session]]
  <2>1. r.pc = "asking" /\ r.turn = turn[w].turn
    BY <1>0 DEF Turn
  <2>2. Go(w, r)
    BY <1>3 DEF LoadThread
  <2> HIDE DEF r
  <2> QED
    BY <1>1, <1>2, <2>1, <2>2 DEF Proceeds
<1>4. CASE WriteQuestion(w)
  <2> DEFINE r == [turn[w] EXCEPT !.pc = "deciding"]
  <2>1. r.pc = "deciding" /\ r.turn = turn[w].turn
    BY <1>0 DEF Turn
  <2>2. Go(w, r)
    BY <1>4 DEF WriteQuestion
  <2> HIDE DEF r
  <2> QED
    BY <1>1, <1>2, <2>1, <2>2 DEF Proceeds
<1>5. CASE CallTool(w)
  <2>1. PICK e : Go(w, [turn[w] EXCEPT !.events = e])
    BY <1>5 DEF CallTool
  <2> DEFINE r == [turn[w] EXCEPT !.events = e]
  <2>2. r.pc = "deciding" /\ r.turn = turn[w].turn
    BY <1>0, <1>5 DEF Turn, CallTool
  <2> HIDE DEF r
  <2> QED
    BY <1>1, <1>2, <2>1, <2>2 DEF Proceeds, r
<1>6. CASE WriteAnswer(w)
  <2>1. PICK x \in ResultsFrom(turn[w].events) :
           Go(w, [turn[w] EXCEPT !.pc = "recording", !.result = x])
    BY <1>6 DEF WriteAnswer
  <2> DEFINE r == [turn[w] EXCEPT !.pc = "recording", !.result = x]
  <2>2. r.result = x /\ r.turn = turn[w].turn /\ r.events = turn[w].events
    BY <1>0 DEF Turn
  <2>3. x = "ANSWERED" => /\ Successful(turn[w].events) # {}
                          /\ LastSuccessful(turn[w].events) = "found"
    BY <1>0, ResultTypes
  <2>4. Go(w, r)
    BY <2>1
  <2> HIDE DEF r
  <2> QED
    BY <1>1, <1>2, <2>2, <2>3, <2>4 DEF Proceeds
<1>7. CASE TurnFails(w) \/ CheckpointFails(w)
  <2>1. PICK e : Go(w, [turn[w] EXCEPT !.pc = "recording", !.result = "FAILED", !.events = e])
    BY <1>7 DEF TurnFails, CheckpointFails, Fail
  <2> DEFINE r == [turn[w] EXCEPT !.pc = "recording", !.result = "FAILED", !.events = e]
  <2>2. r.result = "FAILED" /\ r.turn = turn[w].turn
    BY <1>0 DEF Turn
  <2> HIDE DEF r
  <2> QED
    BY <1>1, <1>2, <2>1, <2>2 DEF Proceeds, r
<1> QED
  BY <1>3, <1>4, <1>5, <1>6, <1>7

LEMMA AnswerProceeds ==
    ASSUME Typed, AnswerInv, NEW w \in Worker, Proceeds(w)
    PROVE  AnswerInv'
<1>1. NumberInv'
  BY DEF AnswerInv, NumberInv, Proceeds, InTurn
<1>2. EvidenceInv'
  BY DEF AnswerInv, EvidenceInv, Proceeds
<1>3. GoneInv'
  BY DEF AnswerInv, GoneInv, Proceeds, Live
<1>4. AnswersAreBacked'
  BY DEF AnswerInv, AnswersAreBacked, Proceeds
<1> QED
  BY <1>1, <1>2, <1>3, <1>4 DEF AnswerInv

LEMMA AnswerSend ==
    ASSUME Typed, AnswerInv, NEW w \in Worker, Send(w)
    PROVE  AnswerInv'
<1> USE DEF platform, files, checklist, agent, locks, observers, bounds
<1>0. /\ served \in Nat /\ served' = served + 1 /\ turn \in [Worker -> Turn]
      /\ UNCHANGED <<projects, sessions, logs, answers>>
      /\ \A v \in Worker : turn[v].turn \in Nat
      /\ \A l \in logs : l.turn \in Nat
  BY TurnTypes DEF Send, Accept, Typed, TypeOK, BaseOK, Log
<1>1. PICK s \in Session :
         Go(w, [NoTurn EXCEPT !.pc = "loading", !.session = s, !.turn = served + 1])
  BY DEF Send
<1> DEFINE r == [NoTurn EXCEPT !.pc = "loading", !.session = s, !.turn = served + 1]
<1>2. r.pc = "loading" /\ r.turn = served + 1
  BY RecordTypes DEF Turn
<1>3. turn'[w] = r /\ \A v \in Worker \ {w} : turn'[v] = turn[v]
  BY <1>0, <1>1 DEF Go
<1> HIDE DEF r
<1>4. NumberInv'
  BY <1>0, <1>2, <1>3 DEF AnswerInv, NumberInv, InTurn
<1>5. EvidenceInv'
  BY <1>2, <1>3 DEF AnswerInv, EvidenceInv
<1>6. GoneInv'
  BY <1>0 DEF AnswerInv, GoneInv, Live
<1>7. AnswersAreBacked'
  BY <1>0 DEF AnswerInv, AnswersAreBacked
<1> QED
  BY <1>4, <1>5, <1>6, <1>7 DEF AnswerInv

\* A turn that ends without records.
LEMMA AnswerEnds ==
    ASSUME Typed, AnswerInv, NEW w \in Worker, RecordsFail(w)
    PROVE  AnswerInv'
<1> USE DEF platform, files, checklist, agent, locks, observers, bounds
<1>1. /\ turn'[w].pc = "idle" /\ \A v \in Worker \ {w} : turn'[v] = turn[v]
      /\ UNCHANGED <<projects, sessions, served, logs, answers>>
  BY RecordTypes DEF RecordsFail, Fault, Withhold, End, Go, Typed, TypeOK
<1>2. NumberInv' /\ EvidenceInv'
  BY <1>1 DEF AnswerInv, NumberInv, EvidenceInv, InTurn
<1>3. GoneInv' /\ AnswersAreBacked'
  BY <1>1 DEF AnswerInv, GoneInv, AnswersAreBacked, Live
<1> QED
  BY <1>2, <1>3 DEF AnswerInv

\* The commit writes a row for every call, except under an id the session has
\* used before; such a row stems from another turn.
LEMMA AnswerCommits ==
    ASSUME Typed, AnswerInv, NEW w \in Worker, CommitRecords(w)
    PROVE  AnswerInv'
<1> USE DEF platform, files, checklist, agent, locks, observers, bounds
<1> DEFINE new == [session |-> turn[w].session, turn |-> turn[w].turn,
                   result |-> turn[w].result, calls |-> turn[w].events]
<1>1. /\ InTurn(w) /\ turn[w].pc = "recording" /\ sessions[turn[w].session] # None
      /\ turn'[w].pc = "idle" /\ \A v \in Worker \ {w} : turn'[v] = turn[v]
      /\ UNCHANGED <<projects, sessions, served>>
      /\ logs' = logs \cup NewLogs(w)
      /\ answers' \subseteq answers \cup {new}
  BY RecordTypes DEF CommitRecords, Withhold, Deliver, DeliverAnyway, End, Go, InTurn,
     Typed, TypeOK
<1>2. \A l \in NewLogs(w) : l.turn = turn[w].turn
  BY DEF NewLogs
<1>3. NumberInv'
  BY <1>1, <1>2 DEF AnswerInv, NumberInv, InTurn
<1>4. EvidenceInv'
  BY <1>1 DEF AnswerInv, EvidenceInv
<1>5. /\ new.session = turn[w].session /\ new.turn = turn[w].turn
      /\ new.result = turn[w].result /\ new.calls = turn[w].events
  OBVIOUS
<1> HIDE DEF new
<1>6. GoneInv'
  BY <1>1, <1>5 DEF AnswerInv, GoneInv, Live
<1>7. ASSUME NEW i \in DOMAIN turn[w].events
      PROVE  \E l \in logs' :
                /\ l.session = turn[w].session /\ l.id = turn[w].events[i].id
                /\ l.turn = turn[w].turn =>
                      (l.status = "COMPLETED" <=> turn[w].events[i].outcome \in Completed)
  <2>1. CASE \E l \in logs : l.session = turn[w].session /\ l.id = turn[w].events[i].id
    BY <1>1, <2>1 DEF AnswerInv, NumberInv
  <2>2. CASE \A l \in logs : ~(l.session = turn[w].session /\ l.id = turn[w].events[i].id)
    <3> DEFINE row == [session |-> turn[w].session, id |-> turn[w].events[i].id,
                       turn |-> turn[w].turn,
                       status |-> IF turn[w].events[i].outcome \in Completed
                                  THEN "COMPLETED" ELSE "FAILED"]
    <3>1. row \in NewLogs(w)
      BY <2>2 DEF NewLogs
    <3>2. /\ row.session = turn[w].session /\ row.id = turn[w].events[i].id
          /\ row.status = "COMPLETED" <=> turn[w].events[i].outcome \in Completed
      OBVIOUS
    <3> HIDE DEF row
    <3> QED
      BY <1>1, <3>1, <3>2
  <2> QED
    BY <2>1, <2>2
<1>8. AnswersAreBacked'
  <2> SUFFICES ASSUME NEW a \in answers'
               PROVE  /\ sessions[a.session] # None =>
                            \A i \in DOMAIN a.calls :
                               \E l \in logs' :
                                  /\ l.session = a.session /\ l.id = a.calls[i].id
                                  /\ l.turn = a.turn =>
                                        (l.status = "COMPLETED"
                                            <=> a.calls[i].outcome \in Completed)
                      /\ a.result = "ANSWERED" =>
                            /\ Successful(a.calls) # {}
                            /\ LastSuccessful(a.calls) = "found"
    BY <1>1 DEF AnswersAreBacked
  <2>1. CASE a \in answers
    BY <1>1, <2>1 DEF AnswerInv, AnswersAreBacked
  <2>2. CASE a = new
    <3>1. a.result = "ANSWERED" => /\ Successful(a.calls) # {}
                                   /\ LastSuccessful(a.calls) = "found"
      BY <1>1, <1>5, <2>2 DEF AnswerInv, EvidenceInv
    <3> QED
      BY <1>5, <1>7, <2>2, <3>1
  <2> QED
    BY <1>1, <2>1, <2>2
<1> QED
  BY <1>3, <1>4, <1>6, <1>8 DEF AnswerInv

\* Of projects and sessions, only the deletion of a project matters.
LEMMA AnswerManaging ==
    ASSUME Typed, ClearInv, AnswerInv, NEW w \in Worker, Managing(w)
    PROVE  AnswerInv'
<1> USE DEF files, checklist, agent, locks, observers, bounds
<1>0. /\ turn' = turn /\ answers' \subseteq answers /\ logs' \subseteq logs
      /\ \A l \in logs : sessions'[l.session] # None => l \in logs'
      /\ served \in Nat /\ task[w].project \in Project
      /\ projects \in [Project -> ProjectRow]
      /\ sessions \in [Session -> Project \cup {None}]
      /\ \A a \in answers : a.session \in Session
      /\ \A l \in logs : l.turn \in Nat
      /\ \A v \in Worker : turn[v].turn \in Nat
  BY ManageMoves, TurnTypes DEF Around, AnswersGoWithThreads, LogsGoWithSessions,
     Typed, TypeOK, BaseOK, Task, Answer, Log
<1>1. served' = served \/ served' = served + 1
  BY DEF Managing, OpenSession, LockEmpty, RefuseDeletion, CloseRefused, ClearThread,
     CommitProjectDeletion, FailProjectDeletion, Accept
<1>2. NumberInv' /\ EvidenceInv'
  BY <1>0, <1>1 DEF AnswerInv, NumberInv, EvidenceInv, InTurn
<1>3. /\ GoneInv'
      /\ \A a \in answers : sessions'[a.session] # None => sessions[a.session] # None
  <2>1. CASE OpenSession(w)
    <3>1. PICK p \in Project, s \in Session :
             Live(p) /\ sessions[s] = None /\ sessions' = [sessions EXCEPT ![s] = p]
      BY <2>1 DEF OpenSession
    <3>2. \A a \in answers : a.session # s
      BY <3>1 DEF AnswerInv, GoneInv
    <3> QED
      BY <1>0, <2>1, <3>1, <3>2 DEF OpenSession, AnswerInv, GoneInv, Live
  <2>2. CASE CommitProjectDeletion(w)
    <3> DEFINE p == task[w].project
    <3>1. /\ Live(p)
          /\ \A q \in Project : Live(q)' => Live(q) /\ q # p
          /\ \A s \in Session : sessions'[s] = IF sessions[s] = p THEN None ELSE sessions[s]
      BY <1>0, <2>2 DEF CommitProjectDeletion, ClearInv, Live, ProjectRow
    <3> HIDE DEF p
    <3>2. \A q \in Project : ~Live(q)'
      BY <1>0, <3>1 DEF AnswerInv, GoneInv, p
    <3> QED
      BY <1>0, <3>1, <3>2 DEF AnswerInv, GoneInv
  <2>3. CASE \/ LockEmpty(w) \/ RefuseDeletion(w) \/ CloseRefused(w)
             \/ ClearThread(w) \/ FailProjectDeletion(w)
    <3>1. projects' = projects /\ sessions' = sessions
      BY <2>3 DEF LockEmpty, RefuseDeletion, CloseRefused, ClearThread, FailProjectDeletion
    <3> QED
      BY <1>0, <3>1 DEF AnswerInv, GoneInv, Live
  <2> QED
    BY <2>1, <2>2, <2>3 DEF Managing
<1>4. AnswersAreBacked'
  <2> SUFFICES ASSUME NEW a \in answers'
               PROVE  /\ sessions'[a.session] # None =>
                            \A i \in DOMAIN a.calls :
                               \E l \in logs' :
                                  /\ l.session = a.session /\ l.id = a.calls[i].id
                                  /\ l.turn = a.turn =>
                                        (l.status = "COMPLETED"
                                            <=> a.calls[i].outcome \in Completed)
                      /\ a.result = "ANSWERED" =>
                            /\ Successful(a.calls) # {}
                            /\ LastSuccessful(a.calls) = "found"
    BY DEF AnswersAreBacked
  <2>1. a \in answers
    BY <1>0
  <2>2. a.result = "ANSWERED" => /\ Successful(a.calls) # {}
                                 /\ LastSuccessful(a.calls) = "found"
    BY <2>1 DEF AnswerInv, AnswersAreBacked
  <2>3. ASSUME sessions'[a.session] # None, NEW i \in DOMAIN a.calls
        PROVE  \E l \in logs' :
                  /\ l.session = a.session /\ l.id = a.calls[i].id
                  /\ l.turn = a.turn =>
                        (l.status = "COMPLETED" <=> a.calls[i].outcome \in Completed)
    <3>1. PICK l \in logs :
             /\ l.session = a.session /\ l.id = a.calls[i].id
             /\ l.turn = a.turn =>
                   (l.status = "COMPLETED" <=> a.calls[i].outcome \in Completed)
      BY <1>3, <2>1, <2>3 DEF AnswerInv, AnswersAreBacked
    <3> QED
      BY <1>0, <2>3, <3>1
  <2> QED
    BY <2>2, <2>3
<1> QED
  BY <1>2, <1>3, <1>4 DEF AnswerInv

LEMMA AnswerNext ==
    ASSUME Typed, ClearInv, AnswerInv, [Next]_service
    PROVE  AnswerInv'
<1> USE DEF stored, files, checklist, agent, locks, observers, bounds
<1>0. /\ served \in Nat /\ \A l \in logs : l.turn \in Nat
      /\ \A v \in Worker : turn[v].turn \in Nat
  BY TurnTypes DEF Typed, TypeOK, BaseOK, Log
<1>1. CASE \E w \in Worker : Conversing(w)
  BY <1>1, ProceedingSteps, AnswerProceeds, AnswerSend, AnswerEnds, AnswerCommits
  DEF Conversing
<1>2. CASE \/ \E w \in Worker : LoggingIn(w)
           \/ ExpireAccess /\ Beside
           \/ ExpireLogin /\ Beside
           \/ UNCHANGED service
  <2>1. /\ UNCHANGED <<projects, sessions, turn, logs, answers>>
        /\ served' = served \/ served' = served + 1
    BY <1>2 DEF LoggingIn, Beside, talking, RegisterUser, LogIn, ReadForRefresh, CommitRefresh,
       ReadForLogout, CommitLogout, ExpireAccess, ExpireLogin, Accept, service, vars
  <2>2. NumberInv' /\ EvidenceInv'
    BY <1>0, <2>1 DEF AnswerInv, NumberInv, EvidenceInv, InTurn
  <2>3. GoneInv' /\ AnswersAreBacked'
    BY <2>1 DEF AnswerInv, GoneInv, AnswersAreBacked, Live
  <2> QED
    BY <2>2, <2>3 DEF AnswerInv
<1>3. CASE Crash
  <2>1. /\ UNCHANGED <<projects, sessions, logs, answers, served>>
        /\ \A u \in Worker : turn'[u].pc = "idle"
    BY <1>3, RecordTypes DEF Crash
  <2>2. NumberInv' /\ EvidenceInv'
    BY <2>1 DEF AnswerInv, NumberInv, EvidenceInv, InTurn
  <2>3. GoneInv' /\ AnswersAreBacked'
    BY <2>1 DEF AnswerInv, GoneInv, AnswersAreBacked, Live
  <2> QED
    BY <2>2, <2>3 DEF AnswerInv
<1> QED
  BY <1>1, <1>2, <1>3, AnswerManaging DEF Next

LEMMA AnswerInit == Init => AnswerInv
<1> SUFFICES ASSUME Init PROVE AnswerInv
  OBVIOUS
<1>1. PICK p \in Project, s \in Session, u \in User, l \in Login, n \in Name,
           f \in File, c \in CallId,
           live \in BOOLEAN, formal \in BOOLEAN, opened \in BOOLEAN, talked \in BOOLEAN :
           Init!(p, s, u, l, n, f, c, live, formal, opened, talked)
  BY DEF Init
<1>2. GoneInv /\ AnswersAreBacked
  BY <1>1 DEF GoneInv, AnswersAreBacked, Live
<1>3. NumberInv /\ EvidenceInv
  BY <1>1, RecordTypes DEF NumberInv, EvidenceInv, InTurn
<1> QED
  BY <1>2, <1>3 DEF AnswerInv

\* An answer the client has received is backed by the audit and, if it claims
\* evidence, by a last successful call that has found some, for any number of
\* overlapping turns and any ids their calls reuse.
THEOREM AnswersHaveRecords == Spec => []AnswersAreBacked
<1>1. /\ Typed /\ ClearInv /\ RefusedInv /\ RemnantInv /\ AnswerInv /\ [Next]_service
            => (Typed /\ ClearInv /\ RefusedInv /\ RemnantInv /\ AnswerInv)'
  BY TypeNext, RemnantNext, AnswerNext
<1>2. AnswerInv => AnswersAreBacked
  BY DEF AnswerInv
<1> QED
  BY <1>1, <1>2, TypeInit, RemnantInit, AnswerInit, PTL DEF Spec

-----------------------------------------------------------------------------
(***************************************************************************)
(* What a history shows of the messages of a thread.                        *)
(***************************************************************************)
Rank(S, i) == Cardinality({j \in S : j <= i})

\* The ranks of a finite set of numbers are those from one to its size.
LEMMA Ranks ==
    ASSUME NEW S \in SUBSET Nat, IsFiniteSet(S)
    PROVE  /\ Cardinality(S) \in Nat
           /\ \A i \in S : Rank(S, i) \in 1 .. Cardinality(S)
           /\ \A i, j \in S : i < j => Rank(S, i) < Rank(S, j)
           /\ \A k \in 1 .. Cardinality(S) : \E i \in S : Rank(S, i) = k
<1> DEFINE UpTo(i) == {j \in S : j <= i}
<1>1. Cardinality(S) \in Nat
  BY FS_CardinalityType
<1>2. ASSUME NEW i \in S
      PROVE  IsFiniteSet(UpTo(i)) /\ Cardinality(UpTo(i)) \in 1 .. Cardinality(S)
  <2>1. UpTo(i) \in SUBSET S /\ i \in UpTo(i)
    OBVIOUS
  <2>2. IsFiniteSet(UpTo(i)) /\ Cardinality(UpTo(i)) <= Cardinality(S)
    BY <2>1, FS_Subset
  <2>3. Cardinality(UpTo(i)) \in Nat /\ Cardinality(UpTo(i)) # 0
    BY <2>1, <2>2, FS_CardinalityType, FS_EmptySet
  <2> QED
    BY <1>1, <2>2, <2>3
<1>3. ASSUME NEW i \in S, NEW j \in S, i < j
      PROVE  Cardinality(UpTo(i)) < Cardinality(UpTo(j))
  <2>1. UpTo(i) \in SUBSET UpTo(j) /\ j \in UpTo(j) /\ j \notin UpTo(i)
    <3>1. i \in Nat /\ j \in Nat /\ S \subseteq Nat
      OBVIOUS
    <3>2. \A x \in Nat : x <= i => x <= j
      BY <3>1, <1>3
    <3>3. j <= j /\ ~(j <= i)
      BY <3>1, <1>3
    <3> QED
      BY <3>1, <3>2, <3>3
  <2>2. /\ Cardinality(UpTo(i)) <= Cardinality(UpTo(j))
        /\ Cardinality(UpTo(j)) = Cardinality(UpTo(i)) => UpTo(j) = UpTo(i)
    BY <1>2, <2>1, FS_Subset
  <2>3. Cardinality(UpTo(i)) \in Nat /\ Cardinality(UpTo(j)) \in Nat
    BY <1>1, <1>2
  <2> QED
    BY <2>1, <2>2, <2>3
<1>4. ASSUME NEW k \in 1 .. Cardinality(S) PROVE \E i \in S : Cardinality(UpTo(i)) = k
  <2> DEFINE f == [i \in S |-> Cardinality(UpTo(i))]
             T == 1 .. Cardinality(S)
  <2>1. f \in Injection(S, T)
    <3>1. f \in [S -> T]
      BY <1>2
    <3>2. \A i, j \in S : f[i] = f[j] => i = j
      <4> SUFFICES ASSUME NEW i \in S, NEW j \in S, f[i] = f[j] PROVE i = j
        OBVIOUS
      <4>1. f[i] = Cardinality(UpTo(i)) /\ f[j] = Cardinality(UpTo(j))
        OBVIOUS
      <4>2. f[i] \in Nat /\ f[j] \in Nat /\ i \in Nat /\ j \in Nat
        BY <1>1, <3>1
      <4>3. i < j => f[i] < f[j]
        BY <1>3, <4>1
      <4>4. j < i => f[j] < f[i]
        BY <1>3, <4>1
      <4> HIDE DEF f
      <4> QED
        BY <4>2, <4>3, <4>4
    <3> HIDE DEF f, T
    <3> QED
      BY <3>1, <3>2 DEF Injection, IsInjective
  <2>2. IsFiniteSet(T) /\ Cardinality(T) = Cardinality(S)
    BY <1>1, FS_Interval
  <2>3. f \in Surjection(S, T)
    BY <2>1, <2>2, FS_Injection
  <2> QED
    BY <2>3 DEF Surjection
<1> HIDE DEF UpTo
<1> QED
  BY <1>1, <1>2, <1>3, <1>4 DEF Rank, UpTo

LEMMA PairTypes ==
    ASSUME NEW m \in Seq(Message)
    PROVE  /\ Pairs(m) \in SUBSET Nat /\ IsFiniteSet(Pairs(m))
           /\ Pairs(m) \subseteq 1 .. Len(m)
           /\ Cardinality(Pairs(m)) \in Nat
<1>1. Pairs(m) \in SUBSET (1 .. Len(m)) /\ Len(m) \in Nat
  BY DEF Pairs
<1>2. IsFiniteSet(1 .. Len(m))
  BY <1>1, FS_Interval
<1>3. IsFiniteSet(Pairs(m))
  BY <1>1, <1>2, FS_Subset
<1> QED
  BY <1>1, <1>3, FS_CardinalityType

\* The history shows the answers of the pairs, each at its rank.
LEMMA ShownPairs ==
    ASSUME NEW m \in Seq(Message)
    PROVE  /\ Shown(m) \in Seq(Nat) /\ Len(Shown(m)) = Cardinality(Pairs(m))
           /\ \A i \in Pairs(m) :
                 /\ Rank(Pairs(m), i) \in DOMAIN Shown(m)
                 /\ Shown(m)[Rank(Pairs(m), i)] = m[i].turn
           /\ \A k \in DOMAIN Shown(m) :
                 \E i \in Pairs(m) : Rank(Pairs(m), i) = k /\ Shown(m)[k] = m[i].turn
<1> DEFINE P == Pairs(m)
           Nth(k) == CHOOSE i \in P : Rank(P, i) = k
<1>1. P \in SUBSET Nat /\ P \subseteq 1 .. Len(m) /\ IsFiniteSet(P) /\ Cardinality(P) \in Nat
  BY PairTypes
<1>2. Shown(m) = [k \in 1 .. Cardinality(P) |-> m[Nth(k)].turn]
  BY DEF Shown, Rank
<1>3. /\ \A i \in P : Rank(P, i) \in 1 .. Cardinality(P)
      /\ \A i, j \in P : i < j => Rank(P, i) < Rank(P, j)
      /\ \A k \in 1 .. Cardinality(P) : \E i \in P : Rank(P, i) = k
  BY <1>1, Ranks
<1> HIDE DEF P
<1>4. \A k \in 1 .. Cardinality(P) : Nth(k) \in P /\ Rank(P, Nth(k)) = k
  BY <1>3
<1>5. \A i \in P : Nth(Rank(P, i)) = i
  <2> SUFFICES ASSUME NEW i \in P PROVE Nth(Rank(P, i)) = i
    OBVIOUS
  <2>1. Nth(Rank(P, i)) \in P /\ Rank(P, Nth(Rank(P, i))) = Rank(P, i)
    BY <1>3, <1>4
  <2> DEFINE n == Nth(Rank(P, i))
  <2>2. n \in P /\ Rank(P, n) = Rank(P, i)
    BY <2>1
  <2> HIDE DEF n
  <2>3. n \in Nat /\ i \in Nat /\ Rank(P, n) \in Nat
    BY <1>1, <1>3, <2>2
  <2>4. (n < i => Rank(P, n) < Rank(P, i)) /\ (i < n => Rank(P, i) < Rank(P, n))
    BY <1>3, <2>2
  <2>5. n = i
    BY <2>2, <2>3, <2>4
  <2> QED
    BY <2>5 DEF n
<1> HIDE DEF Nth
<1>6. \A k \in 1 .. Cardinality(P) : m[Nth(k)].turn \in Nat
  <2>1. \A x \in 1 .. Len(m) : m[x] \in Message
    OBVIOUS
  <2> QED
    BY <1>1, <1>4, <2>1 DEF Message
<1>7. Shown(m) \in Seq(Nat) /\ Len(Shown(m)) = Cardinality(P)
  BY <1>1, <1>2, <1>6
<1> QED
  BY <1>1, <1>2, <1>3, <1>4, <1>5, <1>7 DEF P

\* A question alone is not shown.
LEMMA ShownAsked ==
    ASSUME NEW m \in Seq(Message), NEW q \in Message, q.role = "human"
    PROVE  Pairs(Append(m, q)) = Pairs(m) /\ Shown(Append(m, q)) = Shown(m)
<1> DEFINE a == Append(m, q)
<1>1. /\ a \in Seq(Message) /\ Len(a) = Len(m) + 1 /\ a[Len(m) + 1] = q
      /\ \A i \in 1 .. Len(m) : a[i] = m[i]
  OBVIOUS
<1> HIDE DEF a
<1>2. Pairs(a) = Pairs(m)
  BY <1>1 DEF Pairs
<1>3. Len(Shown(a)) = Len(Shown(m)) /\ Shown(a) \in Seq(Nat) /\ Shown(m) \in Seq(Nat)
  BY <1>1, <1>2, ShownPairs
<1>4. \A k \in DOMAIN Shown(m) : Shown(a)[k] = Shown(m)[k]
  <2> SUFFICES ASSUME NEW k \in DOMAIN Shown(m) PROVE Shown(a)[k] = Shown(m)[k]
    OBVIOUS
  <2>1. PICK i \in Pairs(m) : Rank(Pairs(m), i) = k /\ Shown(m)[k] = m[i].turn
    BY ShownPairs
  <2>2. Shown(a)[k] = a[i].turn
    BY <1>1, <1>2, <2>1, ShownPairs
  <2>3. a[i] = m[i]
    BY <1>1, PairTypes
  <2> QED
    BY <2>1, <2>2, <2>3
<1>5. Shown(a) = Shown(m)
  <2> DEFINE x == Shown(a)
             y == Shown(m)
  <2>0. DOMAIN y = 1 .. Len(y)
    BY <1>3
  <2>1. x \in Seq(Nat) /\ y \in Seq(Nat) /\ Len(x) = Len(y)
        /\ \A k \in 1 .. Len(y) : x[k] = y[k]
    BY <1>3, <1>4, <2>0
  <2> HIDE DEF x, y
  <2>2. x \in [1 .. Len(y) -> Nat] /\ y \in [1 .. Len(y) -> Nat]
    BY <2>1
  <2>3. x = y
    BY <2>1, <2>2
  <2> QED
    BY <2>3 DEF x, y
<1> QED
  BY <1>2, <1>5 DEF a

\* A question with its answer comes last.
LEMMA ShownAnswered ==
    ASSUME NEW m \in Seq(Message), NEW q \in Message, NEW r \in Message,
           q.role = "human", r.role = "ai"
    PROVE  LET a == m \o <<q, r>>
           IN /\ a \in Seq(Message) /\ Len(a) = Len(m) + 2
              /\ a[Len(m) + 1] = q /\ a[Len(m) + 2] = r
              /\ \A i \in 1 .. Len(m) : a[i] = m[i]
              /\ Pairs(a) = Pairs(m) \cup {Len(m) + 2}
              /\ Shown(a) = Append(Shown(m), r.turn)
<1> DEFINE a == m \o <<q, r>>
           last == Len(m) + 2
<1> DEFINE answered == <<q, r>>
<1>0. /\ answered \in Seq(Message) /\ Len(answered) = 2
      /\ answered[1] = q /\ answered[2] = r
  OBVIOUS
<1>1. /\ a \in Seq(Message) /\ Len(a) = last /\ a[Len(m) + 1] = q /\ a[last] = r
      /\ \A i \in 1 .. Len(m) : a[i] = m[i]
      /\ Len(m) \in Nat
  <2>1. /\ a \in Seq(Message) /\ Len(a) = Len(m) + Len(answered)
        /\ \A i \in 1 .. Len(m) + Len(answered) :
              a[i] = IF i <= Len(m) THEN m[i] ELSE answered[i - Len(m)]
    BY <1>0, ConcatProperties
  <2>2. Len(m) \in Nat
    BY LenProperties
  <2> HIDE DEF a, answered
  <2> QED
    BY <1>0, <2>1, <2>2
<1> HIDE DEF a, answered
<1>2. Pairs(a) = Pairs(m) \cup {last}
  <2>1. DOMAIN a = 1 .. last /\ DOMAIN m = 1 .. Len(m)
    BY <1>1, LenProperties
  <2>2. last \in 1 .. last /\ last > 1 /\ last - 1 = Len(m) + 1 /\ Len(m) + 1 # last
        /\ \A i \in 1 .. last : i = last \/ i = Len(m) + 1 \/ i \in 1 .. Len(m)
    BY <1>1
  <2>3. last \in Pairs(a) /\ Len(m) + 1 \notin Pairs(a)
    BY <1>1, <2>1, <2>2 DEF Pairs
  <2>4. \A i \in 1 .. Len(m) : i \in Pairs(a) <=> i \in Pairs(m)
    <3> SUFFICES ASSUME NEW i \in 1 .. Len(m) PROVE i \in Pairs(a) <=> i \in Pairs(m)
      OBVIOUS
    <3>1. i \in 1 .. last /\ a[i] = m[i] /\ (i > 1 => a[i - 1] = m[i - 1])
      BY <1>1
    <3> QED
      BY <2>1, <3>1 DEF Pairs
  <2>5. Pairs(a) \subseteq 1 .. last /\ Pairs(m) \subseteq 1 .. Len(m)
    BY <2>1 DEF Pairs
  <2> QED
    BY <2>2, <2>3, <2>4, <2>5
<1>3. /\ Pairs(m) \subseteq 1 .. Len(m) /\ IsFiniteSet(Pairs(m)) /\ last \notin Pairs(m)
      /\ Cardinality(Pairs(m)) \in Nat
  BY <1>1, PairTypes
<1>4. Cardinality(Pairs(a)) = Cardinality(Pairs(m)) + 1
  BY <1>2, <1>3, FS_AddElement
<1>5. \A i \in Pairs(m) : Rank(Pairs(a), i) = Rank(Pairs(m), i)
  <2> SUFFICES ASSUME NEW i \in Pairs(m)
               PROVE  {j \in Pairs(a) : j <= i} = {j \in Pairs(m) : j <= i}
    BY DEF Rank
  <2> QED
    BY <1>1, <1>2, <1>3
<1>6. Rank(Pairs(a), last) = Cardinality(Pairs(a))
  <2>1. {j \in Pairs(a) : j <= last} = Pairs(a)
    BY <1>1, <1>2, <1>3
  <2> QED
    BY <2>1 DEF Rank
<1>7. /\ Shown(a) \in Seq(Nat) /\ Shown(m) \in Seq(Nat)
      /\ Len(Shown(a)) = Len(Shown(m)) + 1
      /\ Len(Shown(m)) = Cardinality(Pairs(m))
  BY <1>1, <1>4, ShownPairs
<1>8. Shown(a)[Len(Shown(m)) + 1] = r.turn
  <2>1. last \in Pairs(a)
    BY <1>2
  <2>2. Shown(a)[Rank(Pairs(a), last)] = a[last].turn
    BY <1>1, <2>1, ShownPairs
  <2>3. Rank(Pairs(a), last) = Len(Shown(m)) + 1
    BY <1>4, <1>6, <1>7
  <2>4. a[last].turn = r.turn
    BY <1>1
  <2> HIDE DEF last
  <2> QED
    BY <2>2, <2>3, <2>4
<1>9. \A k \in 1 .. Len(Shown(m)) : Shown(a)[k] = Shown(m)[k]
  <2> SUFFICES ASSUME NEW k \in 1 .. Len(Shown(m)) PROVE Shown(a)[k] = Shown(m)[k]
    OBVIOUS
  <2>0. k \in DOMAIN Shown(m)
    BY <1>7, LenProperties
  <2>1. PICK i \in Pairs(m) : Rank(Pairs(m), i) = k /\ Shown(m)[k] = m[i].turn
    BY <2>0, ShownPairs
  <2>2. i \in Pairs(a) /\ Rank(Pairs(a), i) = k
    BY <1>2, <1>5, <2>1
  <2>3. Shown(a)[k] = a[i].turn
    BY <1>1, <2>2, ShownPairs
  <2> QED
    BY <1>1, <1>3, <2>1, <2>3
<1>10. Shown(a) = Append(Shown(m), r.turn)
  <2>1. r.turn \in Nat
    BY DEF Message
  <2>2. Append(Shown(m), r.turn) \in Seq(Nat)
        /\ Len(Append(Shown(m), r.turn)) = Len(Shown(m)) + 1
    BY <1>7, <2>1
  <2>3. \A k \in 1 .. Len(Shown(m)) + 1 : Shown(a)[k] = Append(Shown(m), r.turn)[k]
    BY <1>7, <1>8, <1>9, <2>1
  <2> QED
    BY <1>7, <2>2, <2>3
<1> QED
  BY <1>1, <1>2, <1>10 DEF a

-----------------------------------------------------------------------------
(***************************************************************************)
(* Histories.  A turn writes its question and its answer over the copy of  *)
(* the thread it has loaded, so what has to be kept is said of the threads  *)
(* and of the copies alike.                                                *)
(***************************************************************************)
Replied(m, n) == \E i \in DOMAIN m : m[i].role = "ai" /\ m[i].turn = n
ShowsTurn(m, n) == \E i \in Pairs(m) : m[i].turn = n
\* Every answer of a thread follows its own question, if it follows a question,
\* occurs once, and stems from one of the first k requests.
Sane(m, k) ==
    /\ \A i \in Pairs(m) : m[i].turn = m[i - 1].turn
    /\ \A i, j \in DOMAIN m :
          m[i].role = "ai" /\ m[j].role = "ai" /\ m[i].turn = m[j].turn => i = j
    /\ \A i \in DOMAIN m : m[i].role = "ai" => m[i].turn \in 1 .. k
Unanswered == {"loading", "asking", "deciding"}

\* A turn that has yet to answer has its answer nowhere, neither in a thread nor
\* in a copy of one.
CopiesInv ==
    /\ served <= MaxRequests
    /\ \A s \in Session : Sane(checkpoint[s], served)
    /\ \A v \in Worker : Sane(turn[v].base, served)
    /\ \A v \in Worker : InTurn(v) => turn[v].turn \in 1 .. served
    /\ \A v \in Worker : turn[v].pc \in Unanswered =>
          /\ \A s \in Session : ~Replied(checkpoint[s], turn[v].turn)
          /\ \A u \in Worker : ~Replied(turn[u].base, turn[v].turn)
\* While it is the only turn of its session and no deletion has come, the thread
\* is what the turn has made of its copy.
AlignInv ==
    \A v \in Worker : turn[v].session \notin strained =>
        /\ turn[v].pc = "asking" => checkpoint[turn[v].session] = turn[v].base
        /\ turn[v].pc = "deciding" =>
              checkpoint[turn[v].session] = Append(turn[v].base, Question(v))
        /\ turn[v].pc = "recording" /\ turn[v].result # "FAILED" =>
              ShowsTurn(checkpoint[turn[v].session], turn[v].turn)
\* The observers miss no two turns in one session.
StrainInv ==
    /\ strained \subseteq Session
    /\ \A u, v \in Worker :
          InTurn(u) /\ InTurn(v) /\ u # v /\ turn[u].session = turn[v].session =>
             turn[u].session \in strained
VisibleInv ==
    \A a \in answers : a.session \in strained \/ ShowsTurn(checkpoint[a.session], a.turn)
HistoryInv == CopiesInv /\ AlignInv /\ StrainInv /\ VisibleInv

LEMMA SaneLater ==
    ASSUME NEW m, NEW j \in Nat, NEW k \in Nat, j <= k, Sane(m, j)
    PROVE  Sane(m, k)
BY DEF Sane

LEMMA SaneEmpty ==
    ASSUME NEW k \in Nat
    PROVE  Sane(<<>>, k) /\ \A n : ~Replied(<<>>, n)
BY DEF Sane, Replied, Pairs

LEMMA SaneAsked ==
    ASSUME NEW m \in Seq(Message), NEW q \in Message, q.role = "human",
           NEW k \in Nat, Sane(m, k)
    PROVE  /\ Sane(Append(m, q), k)
           /\ \A n : Replied(Append(m, q), n) <=> Replied(m, n)
           /\ \A n : ShowsTurn(Append(m, q), n) <=> ShowsTurn(m, n)
<1> DEFINE a == Append(m, q)
<1>1. /\ Len(a) = Len(m) + 1 /\ a[Len(m) + 1] = q /\ Len(m) \in Nat
      /\ \A i \in 1 .. Len(m) : a[i] = m[i]
      /\ DOMAIN a = 1 .. Len(m) + 1 /\ DOMAIN m = 1 .. Len(m)
  OBVIOUS
<1>2. Pairs(a) = Pairs(m) /\ \A i \in Pairs(m) : i \in 1 .. Len(m) /\ i - 1 \in 1 .. Len(m)
  BY <1>1, ShownAsked DEF Pairs
<1> HIDE DEF a
<1>3. \A i \in DOMAIN a : a[i].role = "ai" => i \in DOMAIN m /\ a[i] = m[i]
  BY <1>1
<1>4. Sane(a, k)
  BY <1>1, <1>2, <1>3 DEF Sane
<1>5. \A n : Replied(a, n) <=> Replied(m, n)
  BY <1>1, <1>3 DEF Replied
<1>6. \A n : ShowsTurn(a, n) <=> ShowsTurn(m, n)
  BY <1>1, <1>2 DEF ShowsTurn
<1> QED
  BY <1>4, <1>5, <1>6 DEF a

LEMMA SaneAnswered ==
    ASSUME NEW m \in Seq(Message), NEW q \in Message, NEW r \in Message,
           q.role = "human", r.role = "ai", q.turn = r.turn,
           NEW k \in Nat, Sane(m, k), r.turn \in 1 .. k, ~Replied(m, r.turn)
    PROVE  LET a == m \o <<q, r>>
           IN /\ Sane(a, k)
              /\ \A n : Replied(a, n) <=> Replied(m, n) \/ n = r.turn
              /\ \A n : ShowsTurn(a, n) <=> ShowsTurn(m, n) \/ n = r.turn
<1> DEFINE a == m \o <<q, r>>
           last == Len(m) + 2
<1>1. /\ a \in Seq(Message) /\ Len(a) = Len(m) + 2 /\ Len(m) \in Nat
      /\ a[Len(m) + 1] = q /\ a[last] = r
      /\ \A i \in 1 .. Len(m) : a[i] = m[i]
      /\ Pairs(a) = Pairs(m) \cup {last}
  BY ShownAnswered
<1>2. DOMAIN a = 1 .. last /\ DOMAIN m = 1 .. Len(m)
  BY <1>1
<1>3. \A i \in Pairs(m) : i \in 1 .. Len(m) /\ i - 1 \in 1 .. Len(m)
  BY <1>1 DEF Pairs
<1> HIDE DEF a
<1>4. \A i \in DOMAIN a : \/ i \in DOMAIN m /\ a[i] = m[i]
                          \/ i = Len(m) + 1 /\ a[i] = q
                          \/ i = last /\ a[i] = r
  BY <1>1, <1>2
<1>5. Sane(a, k)
  <2>1. \A i \in Pairs(a) : a[i].turn = a[i - 1].turn
    BY <1>1, <1>3 DEF Sane
  <2>2. \A i, j \in DOMAIN a :
           a[i].role = "ai" /\ a[j].role = "ai" /\ a[i].turn = a[j].turn => i = j
    BY <1>4 DEF Sane, Replied
  <2>3. \A i \in DOMAIN a : a[i].role = "ai" => a[i].turn \in 1 .. k
    BY <1>4 DEF Sane
  <2> QED
    BY <2>1, <2>2, <2>3 DEF Sane
<1>6. \A n : Replied(a, n) <=> Replied(m, n) \/ n = r.turn
  <2>1. last \in DOMAIN a /\ \A i \in DOMAIN m : i \in DOMAIN a /\ a[i] = m[i]
    BY <1>1, <1>2
  <2> QED
    BY <1>1, <1>4, <2>1 DEF Replied
<1>7. \A n : ShowsTurn(a, n) <=> ShowsTurn(m, n) \/ n = r.turn
  BY <1>1, <1>3 DEF ShowsTurn
<1> QED
  BY <1>5, <1>6, <1>7 DEF a

\* What every step of the service does to the observers.
LEMMA Strains ==
    ASSUME Typed, Typed', StrainInv, Observe
    PROVE  StrainInv' /\ strained \subseteq strained'
<1>1. /\ \A v \in Worker : turn[v].session \in Session
      /\ \A v \in Worker : turn'[v].session \in Session
  BY TurnTypes DEF Typed, TypeOK, Turn
<1>2. strained \subseteq strained' /\ strained' \subseteq Session
  BY <1>1 DEF Observe, StrainInv, strained
<1>3. \A u, v \in Worker :
         InTurn(u)' /\ InTurn(v)' /\ u # v /\ turn'[u].session = turn'[v].session =>
            turn'[u].session \in strained'
  BY DEF Observe, strained, InTurn
<1> QED
  BY <1>2, <1>3 DEF StrainInv

\* A turn goes on without writing, fails, or ends.
Stays(v) ==
    \/ turn'[v] = turn[v]
    \/ turn'[v].pc = "idle" /\ turn'[v].base = <<>>
    \/ /\ InTurn(v) /\ turn'[v].base = turn[v].base
       /\ turn'[v].turn = turn[v].turn /\ turn'[v].session = turn[v].session
       /\ \/ turn[v].pc = "deciding" /\ turn'[v].pc = "deciding"
          \/ turn'[v].pc = "recording" /\ turn'[v].result = "FAILED"

LEMMA HistoryUnwritten ==
    ASSUME Typed, Typed', HistoryInv, Observe, UNCHANGED checkpoint,
           \A a \in answers' \ answers :
              a.session \in strained \/ ShowsTurn(checkpoint[a.session], a.turn),
           served <= served', served' <= MaxRequests, \A v \in Worker : Stays(v)
    PROVE  HistoryInv'
<1>0. /\ served \in Nat /\ served' \in Nat /\ 1 .. served \subseteq 1 .. served'
      /\ StrainInv' /\ strained \subseteq strained'
  BY Strains DEF HistoryInv, Typed, BaseOK
<1>1. CopiesInv'
  <2>1. \A s \in Session : Sane(checkpoint'[s], served')
    BY <1>0, SaneLater DEF HistoryInv, CopiesInv
  <2>2. ASSUME NEW v \in Worker
        PROVE  /\ Sane(turn'[v].base, served')
               /\ \A n : Replied(turn'[v].base, n) => Replied(turn[v].base, n)
    <3>1. turn'[v].base = turn[v].base \/ turn'[v].base = <<>>
      BY DEF Stays
    <3> QED
      BY <1>0, <3>1, SaneLater, SaneEmpty DEF HistoryInv, CopiesInv
  <2>3. ASSUME NEW v \in Worker
        PROVE  /\ InTurn(v)' => InTurn(v) /\ turn'[v].turn = turn[v].turn
               /\ turn'[v].pc \in Unanswered => turn[v].pc \in Unanswered
    BY DEF Stays, InTurn, Unanswered
  <2>4. \A v \in Worker : turn[v].pc \in Unanswered => InTurn(v)
    BY DEF InTurn, Unanswered
  <2>5. \A v \in Worker : turn'[v].pc \in Unanswered => InTurn(v)'
    BY DEF InTurn, Unanswered
  <2> QED
    BY <1>0, <2>1, <2>2, <2>3, <2>4, <2>5 DEF HistoryInv, CopiesInv
<1>2. AlignInv'
  <2> SUFFICES ASSUME NEW v \in Worker, turn'[v].session \notin strained'
               PROVE  /\ turn'[v].pc = "asking" =>
                            checkpoint[turn'[v].session] = turn'[v].base
                      /\ turn'[v].pc = "deciding" =>
                            checkpoint[turn'[v].session]
                               = Append(turn'[v].base,
                                        [role |-> "human", turn |-> turn'[v].turn])
                      /\ turn'[v].pc = "recording" /\ turn'[v].result # "FAILED" =>
                            ShowsTurn(checkpoint[turn'[v].session], turn'[v].turn)
    BY DEF AlignInv, Question
  <2> QED
    BY <1>0 DEF HistoryInv, AlignInv, Stays, Question
<1>3. VisibleInv'
  BY <1>0 DEF HistoryInv, VisibleInv
<1> QED
  BY <1>0, <1>1, <1>2, <1>3 DEF HistoryInv

\* Steps in which at most whole threads go, with what was answered in them.
LEMMA HistoryManaging ==
    ASSUME Typed, Typed', HistoryInv, NEW w \in Worker, Managing(w)
    PROVE  HistoryInv'
<1> USE DEF files, checklist, agent, locks, observers, bounds
<1>0. /\ turn' = turn /\ Observe /\ served \in Nat /\ served' \in Nat
      /\ threads' \subseteq threads /\ ThreadsGoWithMessages /\ AnswersGoWithThreads
      /\ \A a \in answers : a.session \in Session
  BY ManageMoves DEF Around, Typed, TypeOK, BaseOK, Answer
<1>1. served <= served' /\ served' <= MaxRequests
  <2>1. served' = served \/ (served < MaxRequests /\ served' = served + 1)
    BY DEF Managing, OpenSession, LockEmpty, RefuseDeletion, CloseRefused, ClearThread,
       CommitProjectDeletion, FailProjectDeletion, Accept
  <2>2. served <= MaxRequests /\ MaxRequests \in Nat
    BY DEF HistoryInv, CopiesInv
  <2> QED
    BY <1>0, <2>1, <2>2
<1>2. StrainInv' /\ strained \subseteq strained'
  BY <1>0, Strains DEF HistoryInv
<1>3. \A s \in Session : checkpoint'[s] = checkpoint[s] \/ checkpoint'[s] = <<>>
  BY <1>0 DEF ThreadsGoWithMessages
<1>4. CopiesInv'
  <2>1. \A s \in Session : Sane(checkpoint'[s], served')
    BY <1>0, <1>1, <1>3, SaneLater, SaneEmpty DEF HistoryInv, CopiesInv
  <2>2. \A v \in Worker : Sane(turn[v].base, served')
    BY <1>0, <1>1, SaneLater DEF HistoryInv, CopiesInv
  <2>3. \A s \in Session : \A n : Replied(checkpoint'[s], n) => Replied(checkpoint[s], n)
    BY <1>3, <1>0, SaneEmpty
  <2> QED
    BY <1>0, <1>1, <2>1, <2>2, <2>3 DEF HistoryInv, CopiesInv, InTurn
<1>5. AlignInv'
  <2>1. ASSUME NEW v \in Worker, InTurn(v), turn[v].session \notin strained'
        PROVE  checkpoint'[turn[v].session] = checkpoint[turn[v].session]
    <3>1. turn[v].session \notin threads \ threads'
      BY <1>0, <2>1, Overtakes DEF strained
    <3>2. turn[v].session \in Session
      BY TurnTypes DEF Typed, TypeOK
    <3> QED
      BY <1>0, <3>1, <3>2 DEF ThreadsGoWithMessages
  <2> QED
    BY <1>0, <1>2, <2>1 DEF HistoryInv, AlignInv, InTurn, Question
<1>6. VisibleInv'
  <2>1. \A a \in answers' : a \in answers /\ checkpoint'[a.session] = checkpoint[a.session]
    BY <1>0 DEF AnswersGoWithThreads, ThreadsGoWithMessages
  <2> QED
    BY <1>2, <2>1 DEF HistoryInv, VisibleInv
<1> QED
  BY <1>2, <1>4, <1>5, <1>6 DEF HistoryInv

\* The steps that neither write nor answer.
LEMMA HistoryRest ==
    ASSUME Typed, Typed', HistoryInv,
           \/ \E w \in Worker : LoggingIn(w)
           \/ ExpireAccess /\ Beside
           \/ ExpireLogin /\ Beside
           \/ Crash
    PROVE  HistoryInv'
<1> USE DEF stored, files, checklist, agent, locks, observers, bounds
<1>0. served \in Nat /\ served' \in Nat /\ served <= MaxRequests /\ MaxRequests \in Nat
  BY DEF Typed, BaseOK, HistoryInv, CopiesInv
<1>1. CASE Crash
  <2>1. UNCHANGED <<checkpoint, answers, served>> /\ Observe
    BY <1>1 DEF Crash
  <2>2. \A v \in Worker : turn'[v] = NoTurn
    BY <1>1 DEF Crash
  <2>3. \A v \in Worker : Stays(v)
    BY <2>2, RecordTypes DEF Stays
  <2> QED
    BY <1>0, <2>1, <2>3, HistoryUnwritten
<1>2. CASE ~Crash
  <2>1. /\ UNCHANGED <<checkpoint, answers, turn>> /\ Observe
        /\ served' = served \/ (served < MaxRequests /\ served' = served + 1)
    BY <1>2 DEF LoggingIn, Beside, talking, RegisterUser, LogIn, ReadForRefresh, CommitRefresh,
       ReadForLogout, CommitLogout, ExpireAccess, ExpireLogin, Accept
  <2>2. \A v \in Worker : Stays(v)
    BY <2>1 DEF Stays
  <2> QED
    BY <1>0, <2>1, <2>2, HistoryUnwritten
<1> QED
  BY <1>1, <1>2

\* The steps of a turn that neither write nor answer.
LEMMA HistoryGoesOn ==
    ASSUME Typed, Typed', HistoryInv, NEW w \in Worker, Observe,
           CallTool(w) \/ TurnFails(w) \/ CheckpointFails(w) \/ RecordsFail(w)
    PROVE  HistoryInv'
<1> USE DEF platform, files, checklist, agent, locks, observers, bounds
<1>0. /\ turn \in [Worker -> Turn] /\ turn[w] \in Turn
      /\ served \in Nat /\ served <= MaxRequests /\ MaxRequests \in Nat
  BY DEF Typed, TypeOK, BaseOK, HistoryInv, CopiesInv
<1>1. UNCHANGED <<checkpoint, answers, served>> /\ InTurn(w)
  BY DEF CallTool, TurnFails, CheckpointFails, RecordsFail, Fault, Withhold, InTurn
<1>2. \A r : Go(w, r) => turn'[w] = r /\ \A v \in Worker \ {w} : turn'[v] = turn[v]
  BY <1>0 DEF Go
<1>3. CASE CallTool(w)
  <2>1. PICK e : Go(w, [turn[w] EXCEPT !.events = e])
    BY <1>3 DEF CallTool
  <2> DEFINE r == [turn[w] EXCEPT !.events = e]
  <2>2. /\ r.pc = "deciding" /\ turn[w].pc = "deciding" /\ r.base = turn[w].base
        /\ r.turn = turn[w].turn /\ r.session = turn[w].session
    BY <1>0, <1>3 DEF Turn, CallTool
  <2>3. Go(w, r)
    BY <2>1
  <2> HIDE DEF r
  <2>4. \A v \in Worker : Stays(v)
    BY <1>1, <1>2, <2>2, <2>3 DEF Stays
  <2> QED
    BY <1>0, <1>1, <2>4, HistoryUnwritten
<1>4. CASE TurnFails(w) \/ CheckpointFails(w)
  <2>1. PICK e : Go(w, [turn[w] EXCEPT !.pc = "recording", !.result = "FAILED", !.events = e])
    BY <1>4 DEF TurnFails, CheckpointFails, Fail
  <2> DEFINE r == [turn[w] EXCEPT !.pc = "recording", !.result = "FAILED", !.events = e]
  <2>2. /\ r.pc = "recording" /\ r.result = "FAILED" /\ r.base = turn[w].base
        /\ r.turn = turn[w].turn /\ r.session = turn[w].session
    BY <1>0 DEF Turn
  <2>3. Go(w, r)
    BY <2>1
  <2> HIDE DEF r
  <2>4. \A v \in Worker : Stays(v)
    BY <1>1, <1>2, <2>2, <2>3 DEF Stays
  <2> QED
    BY <1>0, <1>1, <2>4, HistoryUnwritten
<1>5. CASE RecordsFail(w)
  <2>1. Go(w, NoTurn)
    BY <1>5 DEF RecordsFail, End
  <2>2. \A v \in Worker : Stays(v)
    BY <1>2, <2>1, RecordTypes DEF Stays
  <2> QED
    BY <1>0, <1>1, <2>2, HistoryUnwritten
<1> QED
  BY <1>3, <1>4, <1>5

LEMMA HistorySend ==
    ASSUME Typed, Typed', HistoryInv, NEW w \in Worker, Send(w), Observe
    PROVE  HistoryInv'
<1> USE DEF platform, files, checklist, agent, locks, observers, bounds
<1>0. /\ turn \in [Worker -> Turn] /\ UNCHANGED <<checkpoint, answers>>
      /\ served \in Nat /\ served' = served + 1 /\ served' <= MaxRequests
      /\ StrainInv' /\ strained \subseteq strained'
      /\ \A v \in Worker : turn[v].turn \in Nat
  <2>1. /\ turn \in [Worker -> Turn] /\ UNCHANGED <<checkpoint, answers>>
        /\ served \in Nat /\ served' = served + 1 /\ served < MaxRequests
    BY DEF Send, Accept, Typed, TypeOK, BaseOK
  <2>2. StrainInv' /\ strained \subseteq strained'
    BY Strains DEF HistoryInv
  <2>3. \A v \in Worker : turn[v].turn \in Nat
    BY <2>1 DEF Turn
  <2> QED
    BY <2>1, <2>2, <2>3
<1>1. PICK s \in Session :
         Go(w, [NoTurn EXCEPT !.pc = "loading", !.session = s, !.turn = served + 1])
  BY DEF Send
<1> DEFINE r == [NoTurn EXCEPT !.pc = "loading", !.session = s, !.turn = served + 1]
<1>2. r.pc = "loading" /\ r.turn = served + 1 /\ r.base = <<>>
  BY RecordTypes DEF Turn
<1>3. turn'[w] = r /\ \A v \in Worker \ {w} : turn'[v] = turn[v]
  BY <1>0, <1>1 DEF Go
<1> HIDE DEF r
<1>4. CopiesInv'
  <2>1. \A x \in Session : Sane(checkpoint'[x], served')
    BY <1>0, SaneLater DEF HistoryInv, CopiesInv
  <2>2. \A v \in Worker : Sane(turn'[v].base, served')
    BY <1>0, <1>2, <1>3, SaneLater, SaneEmpty DEF HistoryInv, CopiesInv
  <2>3. \A v \in Worker : InTurn(v)' => turn'[v].turn \in 1 .. served'
    BY <1>0, <1>2, <1>3 DEF HistoryInv, CopiesInv, InTurn
  <2>4. ASSUME NEW v \in Worker, turn'[v].pc \in Unanswered
        PROVE  /\ \A x \in Session : ~Replied(checkpoint'[x], turn'[v].turn)
               /\ \A u \in Worker : ~Replied(turn'[u].base, turn'[v].turn)
    <3>1. CASE v = w
      <4>1. \A m : Sane(m, served) => ~Replied(m, served + 1)
        BY <1>0 DEF Sane, Replied
      <4> QED
        BY <1>0, <1>2, <1>3, <3>1, <4>1, SaneEmpty DEF HistoryInv, CopiesInv
    <3>2. CASE v # w
      BY <1>0, <1>2, <1>3, <2>4, <3>2, SaneEmpty DEF HistoryInv, CopiesInv
    <3> QED
      BY <3>1, <3>2
  <2> QED
    BY <1>0, <2>1, <2>2, <2>3, <2>4 DEF CopiesInv
<1>5. AlignInv'
  BY <1>0, <1>2, <1>3 DEF HistoryInv, AlignInv, Question
<1>6. VisibleInv'
  BY <1>0 DEF HistoryInv, VisibleInv
<1> QED
  BY <1>0, <1>4, <1>5, <1>6 DEF HistoryInv

\* The copy is the thread at this moment.
LEMMA HistoryLoad ==
    ASSUME Typed, Typed', HistoryInv, NEW w \in Worker, LoadThread(w), Observe
    PROVE  HistoryInv'
<1> USE DEF platform, files, checklist, agent, locks, observers, bounds
<1>0. /\ turn \in [Worker -> Turn] /\ turn[w] \in Turn /\ turn[w].session \in Session
      /\ UNCHANGED <<checkpoint, answers, served>> /\ turn[w].pc = "loading"
      /\ StrainInv' /\ strained \subseteq strained'
  BY Strains, TurnTypes DEF LoadThread, HistoryInv, Typed, TypeOK, BaseOK
<1> DEFINE r == [turn[w] EXCEPT !.pc = "asking", !.base = checkpoint[turn[w].session]]
<1>1. /\ r.pc = "asking" /\ r.base = checkpoint[turn[w].session]
      /\ r.turn = turn[w].turn /\ r.session = turn[w].session
  BY <1>0 DEF Turn
<1>2. turn'[w] = r /\ \A v \in Worker \ {w} : turn'[v] = turn[v]
  BY <1>0 DEF LoadThread, Go
<1> HIDE DEF r
<1>3. CopiesInv'
  BY <1>0, <1>1, <1>2 DEF HistoryInv, CopiesInv, InTurn, Unanswered
<1>4. AlignInv'
  BY <1>0, <1>1, <1>2 DEF HistoryInv, AlignInv, Question
<1>5. VisibleInv'
  BY <1>0 DEF HistoryInv, VisibleInv
<1> QED
  BY <1>0, <1>3, <1>4, <1>5 DEF HistoryInv

\* A turn writes m over its thread.
LEMMA HistoryWrites ==
    ASSUME Typed, Typed', AnswerInv, HistoryInv, Observe, UNCHANGED <<answers, served>>,
           NEW w \in Worker, NEW m,
           checkpoint' = [checkpoint EXCEPT ![turn[w].session] = m],
           InTurn(w), turn'[w].session = turn[w].session,
           turn'[w].turn = turn[w].turn, turn'[w].base = turn[w].base,
           \A v \in Worker \ {w} : turn'[v] = turn[v],
           Sane(m, served),
           \A n : Replied(m, n) => Replied(turn[w].base, n) \/ n = turn[w].turn,
           turn'[w].pc = "deciding" =>
              /\ turn[w].pc \in Unanswered
              /\ ~Replied(m, turn[w].turn) /\ m = Append(turn[w].base, Question(w)),
           turn'[w].pc \in {"deciding", "recording"},
           turn'[w].pc = "recording" => ShowsTurn(m, turn[w].turn),
           turn[w].session \notin strained =>
              \A n : ShowsTurn(checkpoint[turn[w].session], n) => ShowsTurn(m, n)
    PROVE  HistoryInv'
<1> DEFINE s == turn[w].session
<1>0. /\ s \in Session /\ checkpoint \in [Session -> Seq(Message)]
      /\ StrainInv' /\ strained \subseteq strained'
      /\ \A a \in answers : a.session \in Session
  BY Strains, TurnTypes DEF HistoryInv, Typed, TypeOK, BaseOK, Answer
<1>1. checkpoint'[s] = m /\ \A x \in Session \ {s} : checkpoint'[x] = checkpoint[x]
  BY <1>0
<1> HIDE DEF s
<1>2. CopiesInv'
  <2>1. \A x \in Session : Sane(checkpoint'[x], served)
    BY <1>0, <1>1 DEF HistoryInv, CopiesInv
  <2>2. \A v \in Worker : turn'[v].base = turn[v].base /\ turn'[v].turn = turn[v].turn
    OBVIOUS
  <2>3. \A v \in Worker : turn'[v].pc \in Unanswered => turn[v].pc \in Unanswered
    BY DEF Unanswered
  <2>4. \A v \in Worker : InTurn(v)' => InTurn(v)
    BY DEF InTurn
  <2>5. ASSUME NEW v \in Worker, turn'[v].pc \in Unanswered
        PROVE  \A x \in Session : ~Replied(checkpoint'[x], turn[v].turn)
    <3>1. ~Replied(m, turn[v].turn)
      <4>1. CASE v = w
        BY <2>5, <4>1 DEF Unanswered
      <4>2. CASE v # w
        <5>1. InTurn(v) /\ turn[v].turn # turn[w].turn
          BY <2>5, <4>2 DEF AnswerInv, NumberInv, InTurn, Unanswered
        <5>2. ~Replied(turn[w].base, turn[v].turn)
          BY <2>3, <2>5 DEF HistoryInv, CopiesInv
        <5> QED
          BY <5>1, <5>2
      <4> QED
        BY <4>1, <4>2
    <3> QED
      BY <1>0, <1>1, <2>3, <2>5, <3>1 DEF HistoryInv, CopiesInv
  <2> QED
    BY <2>1, <2>2, <2>3, <2>4, <2>5 DEF HistoryInv, CopiesInv
<1>3. AlignInv'
  <2> SUFFICES ASSUME NEW v \in Worker, turn'[v].session \notin strained'
               PROVE  /\ turn'[v].pc = "asking" =>
                            checkpoint'[turn'[v].session] = turn'[v].base
                      /\ turn'[v].pc = "deciding" =>
                            checkpoint'[turn'[v].session]
                               = Append(turn'[v].base,
                                        [role |-> "human", turn |-> turn'[v].turn])
                      /\ turn'[v].pc = "recording" /\ turn'[v].result # "FAILED" =>
                            ShowsTurn(checkpoint'[turn'[v].session], turn'[v].turn)
    BY DEF AlignInv, Question
  <2>1. CASE v = w
    BY <1>1, <2>1 DEF Question, s
  <2>2. CASE v # w /\ InTurn(v)
    <3>1. turn[v].session # s /\ turn[v].session \in Session
      BY <1>0, <2>2, TurnTypes DEF HistoryInv, StrainInv, Typed, TypeOK, s
    <3>2. turn'[v] = turn[v] /\ turn[v].session \notin strained
          /\ checkpoint'[turn[v].session] = checkpoint[turn[v].session]
      BY <1>0, <1>1, <2>2, <3>1
    <3>3. /\ turn[v].pc = "asking" => checkpoint[turn[v].session] = turn[v].base
          /\ turn[v].pc = "deciding" =>
                checkpoint[turn[v].session] = Append(turn[v].base, Question(v))
          /\ turn[v].pc = "recording" /\ turn[v].result # "FAILED" =>
                ShowsTurn(checkpoint[turn[v].session], turn[v].turn)
      BY <3>2 DEF HistoryInv, AlignInv
    <3> QED
      BY <3>2, <3>3 DEF Question
  <2>3. CASE v # w /\ ~InTurn(v)
    BY <2>3 DEF InTurn
  <2> QED
    BY <2>1, <2>2, <2>3
<1>4. VisibleInv'
  BY <1>0, <1>1 DEF HistoryInv, VisibleInv, s
<1> QED
  BY <1>0, <1>2, <1>3, <1>4 DEF HistoryInv

LEMMA HistoryQuestion ==
    ASSUME Typed, Typed', AnswerInv, HistoryInv, NEW w \in Worker, WriteQuestion(w), Observe
    PROVE  HistoryInv'
<1> USE DEF platform, files, checklist, agent, locks, observers, bounds
<1> DEFINE b == turn[w].base
           m == Append(b, Question(w))
           r == [turn[w] EXCEPT !.pc = "deciding"]
<1>0. /\ turn \in [Worker -> Turn] /\ turn[w] \in Turn /\ b \in Seq(Message)
      /\ Question(w) \in Message /\ Question(w).role = "human"
      /\ UNCHANGED <<answers, served>> /\ turn[w].pc = "asking" /\ served \in Nat
      /\ checkpoint' = [checkpoint EXCEPT ![turn[w].session] = m]
  BY TurnTypes, MessageTypes DEF WriteQuestion, Write, Typed, TypeOK, BaseOK, Question
<1>1. /\ r.pc = "deciding" /\ r.base = turn[w].base
      /\ r.turn = turn[w].turn /\ r.session = turn[w].session
  BY <1>0 DEF Turn
<1>2. turn'[w] = r /\ \A v \in Worker \ {w} : turn'[v] = turn[v]
  BY <1>0 DEF WriteQuestion, Go
<1>3. /\ Sane(b, served) /\ InTurn(w) /\ turn[w].pc \in Unanswered
      /\ ~Replied(b, turn[w].turn)
      /\ turn[w].session \notin strained => checkpoint[turn[w].session] = b
  BY <1>0 DEF HistoryInv, CopiesInv, AlignInv, Unanswered, InTurn
<1>4. /\ Sane(m, served)
      /\ \A n : Replied(m, n) <=> Replied(b, n)
      /\ \A n : ShowsTurn(m, n) <=> ShowsTurn(b, n)
  BY <1>0, <1>3, SaneAsked
<1> HIDE DEF r
<1>5. turn'[w].pc = "deciding" => m = Append(turn[w].base, Question(w))
  OBVIOUS
<1> HIDE DEF m
<1> QED
  BY <1>0, <1>1, <1>2, <1>3, <1>4, <1>5, HistoryWrites

LEMMA HistoryAnswer ==
    ASSUME Typed, Typed', AnswerInv, HistoryInv, NEW w \in Worker, WriteAnswer(w), Observe
    PROVE  HistoryInv'
<1> USE DEF platform, files, checklist, agent, locks, observers, bounds
<1> DEFINE b == turn[w].base
           m == ThreadAfter(w)
<1>0. /\ turn \in [Worker -> Turn] /\ turn[w] \in Turn /\ b \in Seq(Message)
      /\ Question(w) \in Message /\ Question(w).role = "human"
      /\ Reply(w) \in Message /\ Reply(w).role = "ai"
      /\ Question(w).turn = turn[w].turn /\ Reply(w).turn = turn[w].turn
      /\ UNCHANGED <<answers, served>> /\ turn[w].pc = "deciding" /\ served \in Nat
      /\ checkpoint' = [checkpoint EXCEPT ![turn[w].session] = m]
      /\ m = b \o <<Question(w), Reply(w)>>
  BY TurnTypes, MessageTypes DEF WriteAnswer, Write, Typed, TypeOK, BaseOK, Question, Reply,
     ThreadAfter
<1>1. PICK x \in ResultsFrom(turn[w].events) :
         Go(w, [turn[w] EXCEPT !.pc = "recording", !.result = x])
  BY DEF WriteAnswer
<1> DEFINE r == [turn[w] EXCEPT !.pc = "recording", !.result = x]
<1>2. /\ r.pc = "recording" /\ r.base = turn[w].base
      /\ r.turn = turn[w].turn /\ r.session = turn[w].session
  BY <1>0 DEF Turn
<1>3. turn'[w] = r /\ \A v \in Worker \ {w} : turn'[v] = turn[v]
  BY <1>0, <1>1 DEF Go
<1>4. /\ Sane(b, served) /\ InTurn(w) /\ turn[w].turn \in 1 .. served
      /\ ~Replied(b, turn[w].turn)
      /\ turn[w].session \notin strained =>
            checkpoint[turn[w].session] = Append(b, Question(w))
  BY <1>0 DEF HistoryInv, CopiesInv, AlignInv, Unanswered, InTurn
<1>5. /\ Sane(m, served)
      /\ \A n : Replied(m, n) <=> Replied(b, n) \/ n = turn[w].turn
      /\ \A n : ShowsTurn(m, n) <=> ShowsTurn(b, n) \/ n = turn[w].turn
  <2> DEFINE q == Question(w)
             a == Reply(w)
  <2>1. /\ q \in Message /\ a \in Message /\ q.role = "human" /\ a.role = "ai"
        /\ q.turn = a.turn /\ a.turn = turn[w].turn /\ m = b \o <<q, a>>
        /\ a.turn \in 1 .. served /\ ~Replied(b, a.turn)
    BY <1>0, <1>4
  <2> HIDE DEF q, a, m
  <2>2. /\ Sane(b \o <<q, a>>, served)
        /\ \A n : Replied(b \o <<q, a>>, n) <=> Replied(b, n) \/ n = a.turn
        /\ \A n : ShowsTurn(b \o <<q, a>>, n) <=> ShowsTurn(b, n) \/ n = a.turn
    BY <1>0, <1>4, <2>1, SaneAnswered
  <2> QED
    BY <2>1, <2>2
<1>6. \A n : ShowsTurn(Append(b, Question(w)), n) <=> ShowsTurn(b, n)
  BY <1>0, <1>4, SaneAsked
<1> HIDE DEF r, m
<1> QED
  BY <1>0, <1>2, <1>3, <1>4, <1>5, <1>6, HistoryWrites

LEMMA HistoryCommits ==
    ASSUME Typed, Typed', HistoryInv, NEW w \in Worker, CommitRecords(w), Observe
    PROVE  HistoryInv'
<1> USE DEF platform, files, checklist, agent, locks, observers, bounds
<1>0. /\ turn \in [Worker -> Turn] /\ UNCHANGED <<checkpoint, served>>
      /\ turn[w].pc = "recording" /\ served \in Nat /\ served <= MaxRequests
  BY DEF CommitRecords, Typed, TypeOK, BaseOK, HistoryInv, CopiesInv
<1>1. turn'[w] = NoTurn /\ \A v \in Worker \ {w} : turn'[v] = turn[v]
  BY <1>0 DEF CommitRecords, End, Go
<1>2. \A v \in Worker : Stays(v)
  BY <1>1, RecordTypes DEF Stays
<1>3. ASSUME NEW a \in answers' \ answers
      PROVE  a.session \in strained \/ ShowsTurn(checkpoint[a.session], a.turn)
  <2>1. /\ turn[w].result # "FAILED"
        /\ a.session = turn[w].session /\ a.turn = turn[w].turn
    BY DEF CommitRecords, Deliver, DeliverAnyway, Withhold
  <2> QED
    BY <1>0, <2>1 DEF HistoryInv, AlignInv
<1> QED
  BY <1>0, <1>2, <1>3, HistoryUnwritten

LEMMA HistoryNext ==
    ASSUME Typed, Typed', AnswerInv, HistoryInv, [Next]_service
    PROVE  HistoryInv'
<1>1. CASE UNCHANGED service
  <2>1. UNCHANGED <<turn, checkpoint, answers, served, overlapped, overtaken>>
    BY <1>1 DEF service, vars, talking, bounds
  <2> QED
    BY <2>1 DEF HistoryInv, CopiesInv, AlignInv, StrainInv, VisibleInv, InTurn, Question,
       strained
<1>2. ASSUME NEW w \in Worker, Conversing(w)
      PROVE  HistoryInv'
  <2>1. Observe
    BY <1>2 DEF Conversing, Aside
  <2> QED
    BY <1>2, <2>1, HistorySend, HistoryLoad, HistoryQuestion, HistoryAnswer, HistoryCommits,
       HistoryGoesOn DEF Conversing
<1> QED
  BY <1>1, <1>2, HistoryManaging, HistoryRest DEF Next

LEMMA HistoryInit == Init => HistoryInv
<1> SUFFICES ASSUME Init PROVE HistoryInv
  OBVIOUS
<1>1. PICK p \in Project, s \in Session, u \in User, l \in Login, n \in Name,
           f \in File, c \in CallId,
           live \in BOOLEAN, formal \in BOOLEAN, opened \in BOOLEAN, talked \in BOOLEAN :
           Init!(p, s, u, l, n, f, c, live, formal, opened, talked)
  BY DEF Init
<1> DEFINE asked == <<[role |-> "human", turn |-> 0]>>
<1>2. Sane(asked, 0) /\ \A k : ~Replied(asked, k)
  BY DEF Sane, Replied, Pairs
<1>3. /\ \A t \in Session : checkpoint[t] = asked \/ checkpoint[t] = <<>>
      /\ turn = [v \in Worker |-> NoTurn] /\ served = 0 /\ answers = {} /\ strained = {}
  BY <1>1 DEF strained
<1>4. CopiesInv
  <2>1. \A t \in Session : Sane(checkpoint[t], served)
    BY <1>2, <1>3, SaneEmpty
  <2>2. \A v \in Worker : turn[v].base = <<>> /\ turn[v].pc = "idle"
    BY <1>3, RecordTypes
  <2> QED
    BY <1>3, <2>1, <2>2, SaneEmpty DEF CopiesInv, InTurn, Unanswered
<1>5. AlignInv /\ StrainInv /\ VisibleInv
  BY <1>3, RecordTypes DEF AlignInv, StrainInv, VisibleInv, InTurn
<1> QED
  BY <1>4, <1>5 DEF HistoryInv

AgentInv == Typed /\ ClearInv /\ RefusedInv /\ RemnantInv /\ AnswerInv /\ HistoryInv

LEMMA AgentInvariant == Spec => []AgentInv
<1>1. AgentInv /\ [Next]_service => AgentInv'
  BY TypeNext, RemnantNext, AnswerNext, HistoryNext DEF AgentInv
<1>2. Init => AgentInv
  BY TypeInit, RemnantInit, AnswerInit, HistoryInit DEF AgentInv
<1> QED
  BY <1>1, <1>2, PTL DEF Spec

\* However many turns overlap on a session, and whatever old copies they write
\* over its thread, the history pairs each answer with its own question and shows
\* no exchange twice.
THEOREM HistoriesPairUp == Spec => []HistoryIsConsistent
<1>1. AgentInv => HistoryIsConsistent
  <2> SUFFICES ASSUME AgentInv, NEW s \in Session
               PROVE  /\ \A i \in Pairs(checkpoint[s]) :
                            checkpoint[s][i].turn = checkpoint[s][i - 1].turn
                      /\ \A i, j \in DOMAIN Shown(checkpoint[s]) :
                            i # j => Shown(checkpoint[s])[i] # Shown(checkpoint[s])[j]
    BY DEF HistoryIsConsistent
  <2> DEFINE m == checkpoint[s]
  <2>1. m \in Seq(Message) /\ Sane(m, served)
    BY DEF AgentInv, Typed, TypeOK, HistoryInv, CopiesInv
  <2> HIDE DEF m
  <2>2. \A i \in Pairs(m) : i \in DOMAIN m /\ m[i].role = "ai"
    BY DEF Pairs
  <2>3. ASSUME NEW i \in DOMAIN Shown(m), NEW j \in DOMAIN Shown(m), Shown(m)[i] = Shown(m)[j]
        PROVE  i = j
    <3>1. PICK x \in Pairs(m) : Rank(Pairs(m), x) = i /\ Shown(m)[i] = m[x].turn
      BY <2>1, ShownPairs
    <3>2. PICK y \in Pairs(m) : Rank(Pairs(m), y) = j /\ Shown(m)[j] = m[y].turn
      BY <2>1, ShownPairs
    <3>3. x = y
      BY <2>1, <2>2, <2>3, <3>1, <3>2 DEF Sane
    <3> QED
      BY <3>1, <3>2, <3>3
  <2> QED
    BY <2>1, <2>3 DEF Sane, m
<1> QED
  BY <1>1, AgentInvariant, PTL

\* Who waits for each answer finds all of them in the history, however many turns
\* on other sessions and failures there are, until the project is deleted.
THEOREM AnswersAreShown == Spec => []AnswersStayVisible
<1>1. AgentInv => AnswersStayVisible
  <2> SUFFICES ASSUME AgentInv, NEW a \in answers, a.session \notin strained
               PROVE  \E i \in DOMAIN Shown(checkpoint[a.session]) :
                         Shown(checkpoint[a.session])[i] = a.turn
    BY DEF AnswersStayVisible, strained
  <2>1. checkpoint[a.session] \in Seq(Message)
    BY DEF AgentInv, Typed, TypeOK, Answer
  <2>2. PICK i \in Pairs(checkpoint[a.session]) : checkpoint[a.session][i].turn = a.turn
    BY DEF AgentInv, HistoryInv, VisibleInv, ShowsTurn
  <2> QED
    BY <2>1, <2>2, ShownPairs
<1> QED
  BY <1>1, AgentInvariant, PTL

-----------------------------------------------------------------------------
(***************************************************************************)
(* The threads implement the conversation of Conversation.tla.              *)
(***************************************************************************)
LEMMA ShownSane ==
    ASSUME NEW m \in Seq(Message), NEW k \in Nat, Sane(m, k)
    PROVE  /\ Shown(m) \in Seq(1 .. k)
           /\ \A n : ~Replied(m, n) => \A i \in DOMAIN Shown(m) : Shown(m)[i] # n
<1>1. \A i \in Pairs(m) : i \in DOMAIN m /\ m[i].role = "ai"
  BY DEF Pairs
<1>2. \A i \in DOMAIN Shown(m) :
         /\ Shown(m)[i] \in 1 .. k
         /\ \A n : ~Replied(m, n) => Shown(m)[i] # n
  <2> SUFFICES ASSUME NEW i \in DOMAIN Shown(m)
               PROVE  /\ Shown(m)[i] \in 1 .. k
                      /\ \A n : ~Replied(m, n) => Shown(m)[i] # n
    OBVIOUS
  <2>1. PICK x \in Pairs(m) : Shown(m)[i] = m[x].turn
    BY ShownPairs
  <2> QED
    BY <1>1, <2>1 DEF Sane, Replied
<1>3. Shown(m) \in Seq(Nat)
  BY ShownPairs
<1> DEFINE h == Shown(m)
<1>4. h \in Seq(1 .. k)
  <2>1. h \in Seq(Nat) /\ \A i \in DOMAIN h : h[i] \in 1 .. k
    BY <1>2, <1>3
  <2> HIDE DEF h
  <2>2. Len(h) \in Nat /\ h \in [1 .. Len(h) -> Nat] /\ DOMAIN h = 1 .. Len(h)
    BY <2>1, LenProperties
  <2>3. h \in [1 .. Len(h) -> 1 .. k]
    BY <2>1, <2>2
  <2> QED
    BY <2>2, <2>3
<1> QED
  BY <1>2, <1>4

LEMMA ShownNothing ==
    ASSUME NEW m \in Seq(Message), Pairs(m) = {}
    PROVE  Shown(m) = <<>>
<1> DEFINE h == Shown(m)
<1>1. h \in Seq(Nat) /\ Len(h) = 0
  BY ShownPairs, FS_EmptySet
<1> HIDE DEF h
<1>2. h = <<>>
  BY <1>1
<1> QED
  BY <1>2 DEF h

\* One history changes.
LEMMA OneTalkMoves ==
    ASSUME checkpoint \in [Session -> Seq(Message)],
           NEW s \in Session, NEW m, checkpoint' = [checkpoint EXCEPT ![s] = m]
    PROVE  talk' = [talk EXCEPT ![s] = Shown(m)]
BY DEF talk

LEMMA TalkManaging ==
    ASSUME AgentInv, NEW w \in Worker, Managing(w)
    PROVE  UNCHANGED talk \/ \E s \in Session : Talk!Forget(s)
<1>0. /\ checkpoint \in [Session -> Seq(Message)] /\ ThreadsGoWithMessages
      /\ task \in [Worker -> Task]
  BY ManageMoves DEF AgentInv, Typed, TypeOK, BaseOK, Around
<1>1. CASE threads' = threads
  <2>1. checkpoint' = checkpoint
    BY <1>0, <1>1 DEF ThreadsGoWithMessages
  <2> QED
    BY <2>1 DEF talk
<1>2. CASE threads' # threads
  <2>1. ClearThread(w)
    BY <1>2 DEF Managing, OpenSession, LockEmpty, RefuseDeletion, CloseRefused,
       CommitProjectDeletion, FailProjectDeletion, agent
  <2>2. PICK s \in task[w].todo : threads' = threads \ {s}
    BY <2>1 DEF ClearThread
  <2>3. s \in Session /\ s \in threads
    BY <1>0, <1>2, <2>2 DEF Task
  <2>4. checkpoint' = [checkpoint EXCEPT ![s] = <<>>]
    BY <1>0, <2>2, <2>3 DEF ThreadsGoWithMessages
  <2>5. Shown(<<>>) = <<>>
    <3>1. Pairs(<<>>) = {} /\ <<>> \in Seq(Message)
      BY DEF Pairs
    <3> QED
      BY <3>1, ShownNothing
  <2> QED
    BY <1>0, <2>3, <2>4, <2>5, OneTalkMoves DEF Talk!Forget
<1> QED
  BY <1>1, <1>2

\* Under strain a write may put any exchanges into the history.
LEMMA TalkMuddled ==
    ASSUME AgentInv, AgentInv', NEW s \in strained, NEW m,
           checkpoint' = [checkpoint EXCEPT ![s] = m]
    PROVE  Talk!Muddle(s)
<1>1. /\ s \in Session /\ checkpoint \in [Session -> Seq(Message)]
      /\ checkpoint' \in [Session -> Seq(Message)]
      /\ served' \in Nat /\ served' <= MaxRequests /\ Sane(checkpoint'[s], served')
  BY DEF AgentInv, Typed, TypeOK, BaseOK, HistoryInv, CopiesInv, StrainInv
<1>2. Shown(m) \in Seq(1 .. MaxRequests)
  <2>1. m \in Seq(Message) /\ Sane(m, MaxRequests)
    BY <1>1, SaneLater
  <2> QED
    BY <2>1, ShownSane
<1>3. talk' = [talk EXCEPT ![s] = Shown(m)] /\ talk'[s] = Shown(m)
  BY <1>1, OneTalkMoves DEF talk
<1> QED
  BY <1>2, <1>3 DEF Talk!Muddle

LEMMA TalkQuestion ==
    ASSUME AgentInv, AgentInv', NEW w \in Worker, WriteQuestion(w)
    PROVE  UNCHANGED talk \/ \E s \in Session : Talk!Muddle(s)
<1> DEFINE s == turn[w].session
           b == turn[w].base
<1>1. /\ s \in Session /\ checkpoint \in [Session -> Seq(Message)] /\ b \in Seq(Message)
      /\ Question(w) \in Message /\ Question(w).role = "human"
      /\ checkpoint' = [checkpoint EXCEPT ![s] = Append(b, Question(w))]
  BY TurnTypes, MessageTypes DEF WriteQuestion, Write, AgentInv, Typed, TypeOK, Question
<1>2. CASE s \in strained
  BY <1>1, <1>2, TalkMuddled
<1>3. CASE s \notin strained
  <2>1. checkpoint[s] = b
    BY <1>3 DEF WriteQuestion, AgentInv, HistoryInv, AlignInv
  <2>2. Shown(Append(b, Question(w))) = Shown(b)
    BY <1>1, ShownAsked
  <2> HIDE DEF s, b
  <2>3. talk' = [talk EXCEPT ![s] = Shown(checkpoint[s])]
    BY <1>1, <2>1, <2>2, OneTalkMoves
  <2> QED
    BY <1>1, <2>3 DEF talk
<1> QED
  BY <1>2, <1>3

LEMMA TalkAnswer ==
    ASSUME AgentInv, AgentInv', NEW w \in Worker, WriteAnswer(w)
    PROVE  \E s \in Session : Talk!Exchange(s) \/ Talk!Muddle(s)
<1> DEFINE s == turn[w].session
           b == turn[w].base
           q == Question(w)
           r == Reply(w)
<1>1. /\ s \in Session /\ checkpoint \in [Session -> Seq(Message)] /\ b \in Seq(Message)
      /\ q \in Message /\ r \in Message /\ q.role = "human" /\ r.role = "ai"
      /\ q.turn = r.turn /\ r.turn = turn[w].turn
      /\ checkpoint' = [checkpoint EXCEPT ![s] = b \o <<q, r>>]
  BY TurnTypes, MessageTypes DEF WriteAnswer, Write, AgentInv, Typed, TypeOK, Question, Reply,
     ThreadAfter
<1>2. CASE s \in strained
  BY <1>1, <1>2, TalkMuddled
<1>3. CASE s \notin strained
  <2>1. checkpoint[s] = Append(b, q)
    BY <1>3 DEF WriteAnswer, AgentInv, HistoryInv, AlignInv
  <2>2. /\ Sane(b, served) /\ served \in Nat /\ served <= MaxRequests
        /\ turn[w].turn \in 1 .. served /\ ~Replied(b, turn[w].turn)
    BY DEF WriteAnswer, AgentInv, Typed, BaseOK, HistoryInv, CopiesInv, InTurn, Unanswered
  <2> HIDE DEF q, r, b, s
  <2>3. Shown(checkpoint[s]) = Shown(b) /\ Shown(b \o <<q, r>>) = Append(Shown(b), r.turn)
    BY <1>1, <2>1, ShownAsked, ShownAnswered
  <2>4. talk[s] = Shown(b) /\ talk' = [talk EXCEPT ![s] = Append(Shown(b), r.turn)]
    BY <1>1, <2>3, OneTalkMoves DEF talk
  <2>5. \A i \in DOMAIN talk[s] : talk[s][i] # r.turn
    BY <1>1, <2>2, <2>4, ShownSane
  <2>6. r.turn \in 1 .. MaxRequests
    BY <1>1, <2>2
  <2> QED
    BY <1>1, <2>4, <2>5, <2>6 DEF Talk!Exchange
<1> QED
  BY <1>2, <1>3

LEMMA TalkNext ==
    ASSUME AgentInv, AgentInv', [Next]_service
    PROVE  [Talk!CNext]_(Talk!cvars)
<1> USE DEF platform, files, checklist, agent, locks, observers, bounds, stored
<1>1. CASE UNCHANGED service
  BY <1>1 DEF service, talking, Talk!cvars, talk, strained
<1>2. CASE Next
  <2>1. Observe
    BY <1>2, ManageMoves DEF Next, Managing, Conversing, LoggingIn, Around, Aside, Beside, Crash
  <2>2. strained \subseteq strained' /\ strained' \subseteq Session
    BY <2>1, Strains DEF AgentInv, HistoryInv, StrainInv
  <2>3. \/ UNCHANGED talk
        \/ \E s \in Session : Talk!Exchange(s) \/ Talk!Forget(s) \/ Talk!Muddle(s)
    <3>1. CASE \E w \in Worker : Managing(w) \/ WriteQuestion(w) \/ WriteAnswer(w)
      BY <3>1, TalkManaging, TalkQuestion, TalkAnswer
    <3>2. CASE checkpoint' = checkpoint
      BY <3>2 DEF talk
    <3>3. \/ \E w \in Worker : Managing(w) \/ WriteQuestion(w) \/ WriteAnswer(w)
          \/ checkpoint' = checkpoint
      BY <1>2 DEF Next, Conversing, Send, LoadThread, CallTool, TurnFails, CheckpointFails,
         CommitRecords, RecordsFail, LoggingIn, Beside, talking, Crash
    <3> QED
      BY <3>1, <3>2, <3>3
  <2> QED
    BY <2>2, <2>3 DEF Talk!CNext
<1> QED
  BY <1>1, <1>2

LEMMA TalkInit == Init => Talk!CInit
<1> SUFFICES ASSUME Init PROVE Talk!CInit
  OBVIOUS
<1>1. PICK p \in Project, s \in Session, u \in User, l \in Login, n \in Name,
           f \in File, c \in CallId,
           live \in BOOLEAN, formal \in BOOLEAN, opened \in BOOLEAN, talked \in BOOLEAN :
           Init!(p, s, u, l, n, f, c, live, formal, opened, talked)
  BY DEF Init
<1>2. \A t \in Session : Pairs(checkpoint[t]) = {} /\ checkpoint[t] \in Seq(Message)
  <2>1. \A t \in Session :
           checkpoint[t] = <<[role |-> "human", turn |-> 0]>> \/ checkpoint[t] = <<>>
    BY <1>1
  <2>2. Pairs(<<[role |-> "human", turn |-> 0]>>) = {} /\ Pairs(<<>>) = {}
    BY DEF Pairs
  <2> QED
    BY <2>1, <2>2, TypeInit DEF Typed, TypeOK
<1>3. talk = [t \in Session |-> <<>>]
  BY <1>2, ShownNothing DEF talk
<1> QED
  BY <1>1, <1>3 DEF Talk!CInit, strained

\* The checkpoints, the old copies and the two-step writes of every turn come down
\* to a history that grows by whole exchanges and is forgotten as a whole, and that
\* only overlapping turns and deletions can muddle.
THEOREM ThreadsAreConversations == Spec => ImplementsConversation
<1>1. AgentInv /\ AgentInv' /\ [Next]_service => [Talk!CNext]_(Talk!cvars)
  BY TalkNext
<1> QED
  BY <1>1, TalkInit, AgentInvariant, PTL DEF Spec, ImplementsConversation, Talk!CSpec
=============================================================================
