--------------------------- MODULE ArchiveReading ---------------------------
(***************************************************************************)
(* The readers of the formal scope (catalog.py, retrieval.py, questions.py, *)
(* archive_tools.py) beside the life of the document: every SELECT and every*)
(* query of Chroma is a step of its own, in READ COMMITTED, and none of them *)
(* takes a lock.                                                            *)
(***************************************************************************)
EXTENDS ArchiveLifecycle

CONSTANTS
    Reader,    \* the requests that read
    MaxReads   \* bound on the reads of a behaviour

ASSUME ReadBoundAssumption == MaxReads \in Nat

VARIABLES
    reader,    \* per reader, how far it is and what it has read
    reads,     \* reads so far
    window     \* observer: what was true of the document during the read

service == <<vars, reader, reads, window>>
reading == <<reader, reads>>

ReadKind == {"catalogue", "detail", "search", "evidence"}
ReadPc == {"idle", "blocked", "rows", "query", "fields", "returned", "nothing"}
Read == [pc : ReadPc, kind : ReadKind, blocked : BOOLEAN, again : BOOLEAN, rev : Nat]
Window == [visible : BOOLEAN, signed : SUBSET Nat, left : BOOLEAN, hidden : BOOLEAN]
NoRead == [pc |-> "idle", kind |-> "catalogue", blocked |-> FALSE,
           again |-> FALSE, rev |-> 0]

Under(r) == reader[r].pc \notin {"idle", "returned", "nothing"}
Move(r, record) == reader' = [reader EXCEPT ![r] = record]
At(r, pc) == [reader[r] EXCEPT !.pc = pc]

\* Mutant: only a deletion under way blocks.
BlockedWhileRunning == doc.present /\ deleteOp = "RUNNING"
\* list_visibility_blocked_document_ids: RUNNING or FAILED, joined with the
\* document row.
Blocked == doc.present /\ deleteOp \in {"RUNNING", "FAILED"}

\* read_formal_archive looks at the status first, all others at the blocking.
BeginRead(r) ==
    /\ reader[r].pc = "idle" /\ reads < MaxReads
    /\ reads' = reads + 1
    /\ \E kind \in ReadKind :
          Move(r, [NoRead EXCEPT !.kind = kind,
                      !.pc = IF kind = "detail" THEN "rows" ELSE "blocked"])

ReadBlocked(r) ==
    /\ reader[r].pc = "blocked"
    /\ IF reader[r].kind = "detail"
       THEN Move(r, At(r, IF Blocked THEN "nothing" ELSE "fields"))
       ELSE Move(r, [At(r, "rows") EXCEPT !.blocked = Blocked])
    /\ UNCHANGED reads

\* Mutant: the status is not looked at.
AnyRow == doc.present
\* What the SELECTs of the formal scope require of a row.
FormalRow == doc.present /\ doc.status = "CONFIRMED"

\* _formal_document_ids and _formal_archive_rows: the CONFIRMED rows less the
\* ids read before.
ReadRows(r) ==
    /\ reader[r].pc = "rows"
    /\ Move(r, At(r,
          IF ~FormalRow \/ reader[r].blocked THEN "nothing"
          ELSE CASE reader[r].kind = "detail" -> "blocked"
                 [] reader[r].kind = "catalogue" \/ reader[r].again -> "fields"
                 [] OTHER -> "query"))
    /\ UNCHANGED reads

\* Mutant: the titles are joined without looking at the document again.
CandidatesUnchecked(r) == [At(r, "fields") EXCEPT !.again = TRUE]
\* The tool of the agent looks the candidates up in the formal scope again.
CandidatesOf(r) == [At(r, "blocked") EXCEPT !.again = TRUE]

\* The chunks of the document among the nearest, restricted to the ids read.
QueryVectors(r) ==
    /\ reader[r].pc = "query"
    /\ Move(r, IF vectors = {} THEN At(r, "nothing")
               ELSE IF reader[r].kind = "search" THEN At(r, "returned")
               ELSE CandidatesOf(r))
    /\ UNCHANGED reads

\* The field values, or titles, in a statement after the rows.
ReadFields(r) ==
    /\ reader[r].pc = "fields"
    /\ Move(r, [At(r, "returned") EXCEPT !.rev = IF fields.exists THEN fields.rev ELSE 0])
    /\ UNCHANGED reads

\* The client has its answer.
EndRead(r) ==
    /\ reader[r].pc \in {"returned", "nothing"}
    /\ Move(r, NoRead)
    /\ UNCHANGED reads

ReadStep(r) ==
    \/ BeginRead(r) \/ ReadBlocked(r) \/ ReadRows(r)
    \/ QueryVectors(r) \/ ReadFields(r) \/ EndRead(r)

-----------------------------------------------------------------------------
Confirmed == doc.present /\ doc.status = "CONFIRMED"
\* What the observer notes: it opens with a read and takes in every state
\* until the read is over.
Noted(seen) ==
    [seen EXCEPT !.visible = @ \/ Visible', !.left = @ \/ (Confirmed /\ ~Confirmed'),
                 !.signed = @ \cup IF Confirmed' THEN {fields'.rev} ELSE {}]
Opened ==
    [visible |-> Visible, left |-> FALSE,
     signed |-> IF Confirmed THEN {fields.rev} ELSE {},
     hidden |-> ~doc.present \/ deleteOp # "NONE"]
Closed == [visible |-> FALSE, signed |-> {}, left |-> FALSE, hidden |-> FALSE]
Observe ==
    window' = [r \in Reader |->
        IF reader'[r].pc = "idle" THEN Closed
        ELSE IF reader[r].pc = "idle" THEN Opened
        ELSE IF Under(r) THEN Noted(window[r]) ELSE window[r]]

ReadingInit ==
    /\ Init
    /\ reader = [r \in Reader |-> NoRead] /\ reads = 0
    /\ window = [r \in Reader |-> Closed]

Beside == UNCHANGED reading /\ Observe
ReadingNext ==
    \/ \E w \in Worker : Request(w) /\ Beside
    \/ \E w \in Worker : Step(w) /\ Beside
    \/ \E w \in Worker : LoseBookkeeping(w) /\ Beside
    \/ Crash /\ Beside
    \/ \E r \in Reader : ReadStep(r) /\ UNCHANGED vars /\ Observe

ReadingSpec == ReadingInit /\ [][ReadingNext]_service

-----------------------------------------------------------------------------
\* Every variable of the readers stays in its domain.
ReadingTypeOK ==
    /\ reader \in [Reader -> Read] /\ reads \in Nat
    /\ window \in [Reader -> Window]

Returned(r) == reader[r].pc = "returned"
\* The detail of a document that vanished while it was read is an empty shell.
Shows(r) == Returned(r) /\ (reader[r].kind = "detail" => reader[r].rev # 0)

\* A read that begins once the deletion of a document has begun never returns
\* the document, however its deletion fails, is resumed or ends meanwhile.
HiddenStaysHidden == \A r \in Reader : Shows(r) => ~window[r].hidden

\* The evidence of the agent and the detail of an archive come from a document
\* that was formal and not blocked at some moment of the request, although
\* status, blocking and vectors are read one after the other.
EvidenceWasVisible ==
    \A r \in Reader :
        Shows(r) /\ reader[r].kind \in {"evidence", "detail"} => window[r].visible

\* The values a catalogue, detail or evidence title shows are values somebody
\* confirmed and that were formal during the request, unless the document left
\* the formal scope before the request was over.
ValuesWereConfirmed ==
    \A r \in Reader :
        Returned(r) /\ reader[r].kind # "search" =>
            reader[r].rev \in window[r].signed \/ window[r].left
=============================================================================
