----------------------------- MODULE ArchiveTurn -----------------------------
(***************************************************************************)
(* One turn of the archive agent (app/agents/archive/graph.py, runtime.py,  *)
(* history.py, app/services/agent/archive_execution.py): the thread is      *)
(* loaded and gets the question, the model calls at most two tools, the     *)
(* answer is judged and written to the thread, and only then the audit rows *)
(* are committed and the client is answered.                                *)
(***************************************************************************)
EXTENDS ProjectRecord, Sequences

CONSTANTS
    CallId,    \* the tool call ids the model may choose
    MaxCalls   \* bound on the tool calls under way or recorded

ASSUME CallBoundAssumption == MaxCalls \in Nat

VARIABLES
    turn,        \* per worker, the turn it is working on
    checkpoint,  \* per session, the messages of its thread
    logs,        \* the agent_tool_call_logs rows, with the turn they stem from
    answers      \* the answers the clients have received in a thread that exists

talking == <<turn, checkpoint, logs, answers>>
platform == <<projects, files, checklist, sessions, locks, observers>>

\* What became of a call: a catalogue page, evidence, no evidence, or a failure:
\* arguments refused, or an error the retry did not cure.
Outcome == {"page", "found", "empty", "failed"}
Completed == {"page", "found", "empty"}
Event == [id : CallId, outcome : Outcome]
Message == [role : {"human", "ai"}, turn : Nat]
Result == {"CATALOG", "ANSWERED", "REFUSED", "FAILED"}
Log == [session : Session, id : CallId, turn : Nat, status : {"COMPLETED", "FAILED"}]
Answer == [session : Session, turn : Nat, result : Result, calls : Seq(Event)]

TurnPc == {"idle", "loading", "asking", "deciding", "recording"}
Turn == [pc : TurnPc, session : Session, turn : Nat, base : Seq(Message),
         events : Seq(Event), result : Result]
NoTurn == [pc |-> "idle", session |-> CHOOSE s \in Session : TRUE, turn |-> 0,
           base |-> <<>>, events |-> <<>>, result |-> "FAILED"]

InTurn(w) == turn[w].pc # "idle"
Go(w, record) == turn' = [turn EXCEPT ![w] = record]
Question(w) == [role |-> "human", turn |-> turn[w].turn]
Reply(w) == [role |-> "ai", turn |-> turn[w].turn]

\* send_archive_agent_message; the session row was found by all its scope
\* fields.  Turns are numbered by the requests accepted.
Send(w) ==
    /\ Accept(w, "send")
    /\ \E s \in Session :
          /\ sessions[s] # None
          /\ Go(w, [NoTurn EXCEPT !.pc = "loading", !.session = s, !.turn = served + 1])
    /\ Become(w, [Idle EXCEPT !.pc = "sending"])
    /\ UNCHANGED <<platform, threads, checkpoint, logs, answers>>

\* runtime.invoke clears the registry, and LangGraph loads the latest
\* checkpoint of the thread: every write of this turn builds on it.
LoadThread(w) ==
    /\ turn[w].pc = "loading"
    /\ Go(w, [turn[w] EXCEPT !.pc = "asking", !.base = checkpoint[turn[w].session]])
    /\ UNCHANGED <<platform, threads, checkpoint, logs, answers, task, bounds>>

Write(w, messages) ==
    /\ checkpoint' = [checkpoint EXCEPT ![turn[w].session] = messages]
    /\ threads' = threads \cup {turn[w].session}

\* The question is checkpointed as the input, before the node runs.
WriteQuestion(w) ==
    /\ turn[w].pc = "asking"
    /\ Write(w, Append(turn[w].base, Question(w)))
    /\ Go(w, [turn[w] EXCEPT !.pc = "deciding"])
    /\ UNCHANGED <<platform, logs, answers, task, bounds>>

-----------------------------------------------------------------------------
Fail(w, events) ==
    Go(w, [turn[w] EXCEPT !.pc = "recording", !.result = "FAILED", !.events = events])
SeenIds(events) == {events[i].id : i \in DOMAIN events}
Successful(events) == {i \in DOMAIN events : events[i].outcome \in Completed}
LastSuccessful(events) ==
    events[CHOOSE i \in Successful(events) : \A j \in Successful(events) : j <= i].outcome

\* Mutant: evidence of an earlier call of the turn still counts.
AnySuccessful(events) ==
    IF \E i \in Successful(events) : events[i].outcome = "found"
    THEN "found" ELSE LastSuccessful(events)
\* The final answer rests on the last successful call alone.
FinalBasis(events) == LastSuccessful(events)

CallsSoFar ==
    Cardinality(logs) + Cardinality({c \in Worker \X (1 .. 2) : c[2] \in DOMAIN turn[c[1]].events})

\* The third call is one too many, and an id may not come back in the turn.
CallAllowed(w, id) == Len(turn[w].events) < 2 /\ id \notin SeenIds(turn[w].events)

\* The model is out of reach twice, or breaks the protocol (several calls at
\* once, an unknown tool, a repeated id, a third call), its calls have all
\* failed, or the judge fails twice: the events made so far are recorded.
TurnFails(w) ==
    /\ turn[w].pc = "deciding"
    /\ Fail(w, turn[w].events)
    /\ UNCHANGED <<platform, threads, checkpoint, logs, answers, task, bounds>>

\* Evidence and catalogue pages can only come from formal documents.
HasFormal(s) ==
    \E p \in Project, f \in File :
        sessions[s] = p /\ documents[<<p, f>>].status = "CONFIRMED"
OutcomesOf(s) ==
    {"page", "empty", "failed"} \cup (IF HasFormal(s) THEN {"found"} ELSE {})

\* The model asks for one tool and the tool is run, with its retry.  Refused
\* arguments go back to the model once; after any other failure, or the second
\* one, TurnFails is what follows.
CallTool(w) ==
    /\ turn[w].pc = "deciding" /\ CallsSoFar < MaxCalls
    /\ \E id \in CallId, outcome \in OutcomesOf(turn[w].session) :
          /\ CallAllowed(w, id)
          /\ Go(w, [turn[w] EXCEPT !.events = Append(@, [id |-> id, outcome |-> outcome])])
    /\ UNCHANGED <<platform, threads, checkpoint, logs, answers, task, bounds>>

-----------------------------------------------------------------------------
\* What the calls of a turn allow as its answer: judge_archive_answer decides
\* on evidence, and a turn whose only or second call has failed has none.
ResultsFrom(events) ==
    IF events = <<>> THEN {"REFUSED"}
    ELSE IF Successful(events) = {} \/ (Len(events) = 2 /\ 2 \notin Successful(events)) THEN {}
    ELSE CASE FinalBasis(events) = "page" -> {"CATALOG"}
           [] FinalBasis(events) = "empty" -> {"REFUSED"}
           [] FinalBasis(events) = "found" -> {"ANSWERED", "REFUSED"}

\* Mutant: the thread is written from the messages of this turn alone.
ThreadOfTurnOnly(w) == <<Question(w), Reply(w)>>
\* Mutant: the reply is appended to whatever the thread holds by now.
ThreadAppended(w) == Append(checkpoint[turn[w].session], Reply(w))
ThreadAfter(w) == turn[w].base \o <<Question(w), Reply(w)>>

\* No further tool call: the turn comes to its answer and LangGraph writes the
\* final message to the thread.
WriteAnswer(w) ==
    /\ turn[w].pc = "deciding"
    /\ \E result \in ResultsFrom(turn[w].events) :
          Go(w, [turn[w] EXCEPT !.pc = "recording", !.result = result])
    /\ Write(w, ThreadAfter(w))
    /\ UNCHANGED <<platform, logs, answers, task, bounds>>

\* A store that fails, at most MaxFaults times.
Fault == faults < MaxFaults /\ faults' = faults + 1 /\ UNCHANGED served

\* SQLite fails: the error carries no events, so nothing is audited.
CheckpointFails(w) ==
    /\ Fault
    /\ turn[w].pc \in {"loading", "asking", "deciding"}
    /\ Fail(w, <<>>)
    /\ UNCHANGED <<platform, threads, checkpoint, logs, answers, task>>

\* record_archive_tool_events: an id the session has used before is taken for
\* a repetition of the same call.
NewLogs(w) ==
    {[session |-> turn[w].session, id |-> e.id, turn |-> turn[w].turn,
      status |-> IF e.outcome \in Completed THEN "COMPLETED" ELSE "FAILED"] :
        e \in {turn[w].events[i] : i \in
                  {j \in DOMAIN turn[w].events :
                      \A l \in logs : ~(l.session = turn[w].session
                                        /\ l.id = turn[w].events[j].id)}}}

\* Mutant: the client is answered whether or not the commit went through.
DeliverAnyway(w) ==
    answers' = answers \cup {[session |-> turn[w].session, turn |-> turn[w].turn,
                              result |-> turn[w].result, calls |-> turn[w].events]}
Withhold(w) == UNCHANGED answers
Deliver(w) == DeliverAnyway(w)

End(w) == Go(w, NoTurn) /\ Finish(w)

\* The audit rows reference the session row, which must still be there.
CommitRecords(w) ==
    /\ turn[w].pc = "recording"
    /\ sessions[turn[w].session] # None
    /\ logs' = logs \cup NewLogs(w)
    /\ IF turn[w].result = "FAILED" THEN Withhold(w) ELSE Deliver(w)
    /\ End(w)
    /\ UNCHANGED <<platform, threads, checkpoint, bounds>>

\* 503, although the thread may hold the exchange already: the session row is
\* gone, or PostgreSQL fails.
RecordsFail(w) ==
    /\ turn[w].pc = "recording"
    /\ IF sessions[turn[w].session] = None THEN UNCHANGED bounds ELSE Fault
    /\ Withhold(w)
    /\ End(w)
    /\ UNCHANGED <<platform, threads, checkpoint, logs>>

-----------------------------------------------------------------------------
\* Mutant: a question is shown whether or not it was answered.
AllQuestions(messages) == {i \in DOMAIN messages : messages[i].role = "human"}
\* project_complete_archive_messages: a question counts only together with
\* the answer right after it.
Pairs(messages) ==
    {i \in DOMAIN messages :
        i > 1 /\ messages[i].role = "ai" /\ messages[i - 1].role = "human"}
\* The answers in their order: the k-th of them is the one with k pairs up to it.
Shown(messages) ==
    LET UpTo(i) == {j \in Pairs(messages) : j <= i}
        Nth(k) == CHOOSE i \in Pairs(messages) : Cardinality(UpTo(i)) = k
    IN [k \in 1 .. Cardinality(Pairs(messages)) |-> messages[Nth(k)].turn]
=============================================================================
