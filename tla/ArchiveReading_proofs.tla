------------------------ MODULE ArchiveReading_proofs ------------------------
(***************************************************************************)
(* What the readers of the formal scope may return, for any number of      *)
(* readers, reads, workers, requests and faults.  A read only moves on     *)
(* what it finds, so all it needs of the document is that a deletion never *)
(* turns back, which the refinement of FormalArchive says, and that the    *)
(* values go with the row.                                                 *)
(***************************************************************************)
EXTENDS ArchiveReading, ArchiveStores_proofs, ArchiveRefinement_proofs

-----------------------------------------------------------------------------
\* No values without their document: the suggestion, which writes without
\* looking again, has kept the row locked since it looked.
PresentInv ==
    /\ fields.exists => doc.present
    /\ \A w \in Worker : task[w].pc = "suggesting" => doc.present

\* The deletion of the document has begun.
Hidden == ~doc.present \/ deleteOp # "NONE"
\* What a read relies on at every moment.
DocInv == TypeOK /\ ConfirmedAsSigned /\ PresentInv
\* What it relies on between two moments.
Onward ==
    /\ doc'.present => doc.present
    /\ Hidden => Hidden'

Pc(r) == reader[r].pc
\* While the read lasts, the window has seen what is visible or formal now.
WindowInv(r) ==
    /\ Pc(r) = "idle" => window[r] = Closed
    /\ Under(r) => /\ Visible => window[r].visible
                   /\ Confirmed => fields.rev \in window[r].signed

\* A read that began after the deletion: the blocking is read before the rows
\* everywhere but in the detail, and there before the values.
LateInv(r) ==
    window[r].hidden =>
        /\ Hidden
        /\ reader[r].kind = "detail" =>
              /\ Pc(r) = "fields" => ~doc.present
              /\ Pc(r) = "returned" => reader[r].rev = 0
        /\ reader[r].kind # "detail" =>
              /\ Pc(r) \in {"blocked", "rows", "nothing"}
              /\ Pc(r) = "rows" /\ ~reader[r].blocked => ~doc.present

\* A read that has found the row formal and not seen it visible has met a
\* deletion, and looks at the blocking once more before it shows anything.
UnseenInv(r) ==
    ~window[r].visible =>
        /\ reader[r].kind = "detail" =>
              /\ Pc(r) = "blocked" => Hidden
              /\ Pc(r) = "fields" => ~doc.present
              /\ Pc(r) = "returned" => reader[r].rev = 0
        /\ reader[r].kind = "evidence" =>
              /\ Pc(r) \notin {"fields", "returned"}
              /\ Pc(r) = "query" => Hidden
              /\ reader[r].again /\ Pc(r) = "blocked" => Hidden
              /\ reader[r].again /\ Pc(r) = "rows" /\ ~reader[r].blocked
                    => ~doc.present

\* Values are read only once the row has been found formal.
ValueInv(r) ==
    /\ reader[r].kind = "detail" => Pc(r) # "query" /\ ~reader[r].again
    /\ reader[r].kind # "search" =>
          /\ Pc(r) = "fields" \/ (reader[r].kind = "detail" /\ Pc(r) = "blocked")
                => Confirmed \/ window[r].left
          /\ Pc(r) = "returned"
                => reader[r].rev \in window[r].signed \/ window[r].left

ReaderInv(r) == WindowInv(r) /\ LateInv(r) /\ UnseenInv(r) /\ ValueInv(r)
ReadersInv == ReadingTypeOK /\ \A r \in Reader : ReaderInv(r)

-----------------------------------------------------------------------------
LEMMA ManualCorrect == Spec => []ManualInv
BY ManualInit, ManualNext, LifeCorrect, PTL DEF Spec

LEMMA RevCorrect == Spec => []RevInv
<1>1. LifeInv /\ RevInv /\ [Next]_vars => RevInv'
  BY RevNext DEF LifeInv
<1> QED
  BY <1>1, InitRefines, LifeCorrect, PTL DEF Spec

\* What a step of w that leaves the row where it is does for PresentInv.
PresentKept(w) ==
    /\ doc'.present = doc.present
    /\ fields'.exists => fields.exists \/ doc.present
    /\ task'[w].pc = "suggesting" => task[w].pc = "suggesting" \/ doc.present
    /\ \A v \in Worker \ {w} : task'[v] = task[v]

LEMMA PresentStep ==
    ASSUME PresentInv, NEW w \in Worker, PresentKept(w)
    PROVE  PresentInv'
<1>1. ASSUME NEW v \in Worker, task'[v].pc = "suggesting"
      PROVE  doc'.present
  <2>1. CASE v = w
    BY <1>1, <2>1 DEF PresentKept, PresentInv
  <2>2. CASE v # w
    BY <1>1, <2>2 DEF PresentKept, PresentInv
  <2> QED
    BY <2>1, <2>2
<1> QED
  BY <1>1 DEF PresentKept, PresentInv

LEMMA PresentDraft ==
    ASSUME LifeInv, PresentInv, NEW w \in Worker,
           DraftRequest(w) \/ LeaveDraft(w) \/ DraftStep(w)
    PROVE  PresentKept(w)
<1> USE DEF ReadsOnly, rows
<1>1. /\ doc'.present = doc.present
      /\ \A v \in Worker \ {w} : task'[v] = task[v]
  BY KeptDraft DEF LifeInv, Outside, Quiet
<1>2. fields' = fields \/ doc.present
  <2>1. CASE DraftRequest(w)
    BY <2>1 DEF DraftRequest, ReadDraftRow, BeginEdit, CreateManualDraft,
       StartSuggestion, BeginRegenerate
  <2>2. CASE LeaveDraft(w)
    BY <2>2 DEF LeaveDraft
  <2>3. CASE DraftStep(w)
    BY <2>3 DEF DraftStep, ReadDraftFields, EditField, EditHits, EditConflict,
       PersistSuggestion, PresentInv, SuggestionNotSaved, SuggestionFails,
       RecordSuggestionFailure, CommitRegenerate, RegenerateRecheck,
       RegenerateAllowed, GiveUpRegenerate
  <2> QED
    BY <2>1, <2>2, <2>3
<1>3. task'[w].pc = "suggesting" => doc.present
  <2>1. CASE StartSuggestion(w)
    BY <2>1 DEF StartSuggestion
  <2>2. CASE ~StartSuggestion(w)
    BY <2>2, NoSuggestion DEF LifeInv
  <2> QED
    BY <2>1, <2>2
<1> QED
  BY <1>1, <1>2, <1>3 DEF PresentKept

LEMMA PresentOther ==
    ASSUME LifeInv, PresentInv, NEW w \in Worker,
           \/ BeginParse(w) \/ ParseStep(w)
           \/ QuietFormal(w) \/ Confirm(w)
    PROVE  PresentKept(w)
<1>1. Outside(w)
  BY KeptParse, KeptFormal, KeptConfirm DEF LifeInv
<1>2. UNCHANGED <<fields, rowLock>>
  BY DEF BeginParse, ParseStep, ParseFile, ParseFails, WriteSnapshotFile,
     CommitSnapshot, RollBackSnapshot, UnlinkSnapshotFile, QuietFormal, Confirm,
     Cancel, ReloadConfirmed, CleanUpVectors, CleanUpFails, StartIndex,
     LoseBookkeeping, rows
<1>3. ~StartSuggestion(w)
  <2>1. StartSuggestion(w) => rowLock' = w /\ Unlocked
    BY DEF StartSuggestion
  <2> QED
    BY <1>2, <2>1, NoWorkerAssumption DEF Unlocked
<1>4. task'[w].pc # "suggesting"
  BY <1>3, NoSuggestion DEF LifeInv
<1> QED
  BY <1>1, <1>2, <1>4 DEF PresentKept, Outside, Quiet

LEMMA PresentOwner ==
    ASSUME LifeInv, ManualInv, PresentInv, NEW w \in Worker, OwnerStep(w)
    PROVE  PresentInv'
<1>1. CASE RemoveRows(w)
  <2>1. fields'.exists = FALSE /\ Unlocked
    BY <1>1 DEF RemoveRows, LifeInv, TypeOK, FieldValues
  <2>2. \A v \in Worker : task[v].pc # "suggesting"
    BY <2>1, NoWorkerAssumption DEF ManualInv, Unlocked
  <2>3. \A v \in Worker : task'[v].pc # "suggesting"
    BY <1>1, <2>2, FinishType DEF RemoveRows, LifeInv, TypeOK, Idle
  <2> QED
    BY <2>1, <2>3 DEF PresentInv
<1>2. CASE ~RemoveRows(w)
  <2>1. fields' = fields /\ doc' \in {doc, IndexedDocument}
    BY <1>2 DEF OwnerStep, ReplayConfirm, StartIndex, BuildChunks, UpsertChunks,
       FinishIndex, IndexFails, MarkIndexFailed, DeleteRequest, StartDelete,
       RefuseDelete, DeleteStep, ClearVectors, RemoveFiles, DeleteFails,
       MarkDeleteFailed, rows
  <2>2. doc'.present = doc.present
    BY <2>1 DEF IndexedDocument, LifeInv, TypeOK, ArchiveDocument
  <2>3. task'[w].pc = "suggesting" => task' = task
    BY OwnerPc DEF LifeInv, IndexPc, DeletePc
  <2>4. PresentKept(w)
    BY <2>1, <2>2, <2>3, OwnerOthers DEF PresentKept, LifeInv
  <2> QED
    BY <2>4, PresentStep
<1> QED
  BY <1>1, <1>2

LEMMA PresentNext ==
    ASSUME LifeInv, ManualInv, PresentInv, [Next]_vars
    PROVE  PresentInv'
<1>1. CASE UNCHANGED vars
  BY <1>1 DEF vars, rows, PresentInv
<1>2. CASE Crash
  <2>1. UNCHANGED <<doc, fields>>
    BY <1>2 DEF Crash, rows
  <2>2. \A v \in Worker : task'[v].pc # "suggesting"
    BY <1>2 DEF Crash, Busy, BusyPc, SuggestPc, Idle
  <2> QED
    BY <2>1, <2>2 DEF PresentInv
<1>3. CASE Next /\ ~Crash
  BY <1>3, NextCases, PresentOther, PresentDraft, PresentOwner, PresentStep
<1> QED
  BY <1>1, <1>2, <1>3

LEMMA PresentInit == Init => PresentInv
<1> SUFFICES ASSUME Init PROVE PresentInv
  OBVIOUS
<1>1. doc.present = TRUE /\ \A w \in Worker : task[w].pc = "idle"
  BY DEF Init, Idle
<1> QED
  BY <1>1 DEF PresentInv

\* A deletion never turns back: the abstract life of FormalArchive says so,
\* and every step refines it.
LEMMA StepsOnward ==
    ASSUME LifeInv, RevInv, [Next]_vars
    PROVE  Onward
<1>1. [Formal!FNext]_Formal!fvars
  BY NextRefines
<1>2. Hidden <=> phase \in {"HIDDEN", "GONE"}
  BY DEF Hidden, phase
<1>3. Hidden' <=> phase' \in {"HIDDEN", "GONE"}
  BY DEF Hidden, phase
<1>4. (doc.present <=> phase # "GONE") /\ (doc'.present <=> phase' # "GONE")
  BY DEF phase
<1>5. phase = "GONE" => phase' = "GONE"
  BY <1>1 DEF Formal!FNext, Formal!Publish, Formal!Withdraw, Formal!Hide,
              Formal!Destroy, Formal!fvars
<1>6. phase \in {"HIDDEN", "GONE"} => phase' \in {"HIDDEN", "GONE"}
  BY <1>1 DEF Formal!FNext, Formal!Publish, Formal!Withdraw, Formal!Hide,
              Formal!Destroy, Formal!fvars
<1> QED
  BY <1>2, <1>3, <1>4, <1>5, <1>6 DEF Onward

\* Beside any number of readers the document lives as ArchiveLifecycle says.
LEMMA LifeGoesOn == ReadingSpec => Spec
<1>1. ReadingInit => Init
  BY DEF ReadingInit
<1>2. [ReadingNext]_service => [Next]_vars
  BY DEF ReadingNext, service, Next, vars
<1> QED
  BY <1>1, <1>2, PTL DEF ReadingSpec, Spec

LEMMA DocCorrect == Spec => []DocInv /\ [][Onward]_vars
<1>1. LifeInv /\ PresentInv => DocInv
  BY DEF LifeInv, SignedInv, DocInv
<1>2. LifeInv /\ RevInv /\ [Next]_vars => [Onward]_vars
  BY StepsOnward
<1>3. Spec => []PresentInv
  BY PresentInit, PresentNext, ManualCorrect, LifeCorrect, PTL DEF Spec
<1> QED
  BY <1>1, <1>2, <1>3, LifeCorrect, RevCorrect, PTL DEF Spec

-----------------------------------------------------------------------------
LEMMA NoReadType == NoRead \in Read /\ NoRead.pc = "idle" /\ ~NoRead.again
BY DEF NoRead, Read, ReadKind, ReadPc

LEMMA AtFacts ==
    ASSUME ReadingTypeOK, NEW r \in Reader, NEW pc \in ReadPc
    PROVE  /\ At(r, pc) \in Read /\ At(r, pc).pc = pc
           /\ At(r, pc).kind = reader[r].kind /\ At(r, pc).rev = reader[r].rev
           /\ At(r, pc).again = reader[r].again
           /\ At(r, pc).blocked = reader[r].blocked
BY DEF At, ReadingTypeOK, Read

\* What a reader becomes in each of its steps, field by field.
Becomes(r, pc, blocked, again, rev) ==
    /\ reader'[r].pc = pc /\ reader'[r].kind = reader[r].kind
    /\ reader'[r].blocked = blocked /\ reader'[r].again = again
    /\ reader'[r].rev = rev
Stays(r, pc) == Becomes(r, pc, reader[r].blocked, reader[r].again, reader[r].rev)

LEMMA MoveFacts ==
    ASSUME ReadingTypeOK, NEW r \in Reader, NEW record \in Read, Move(r, record)
    PROVE  /\ reader' \in [Reader -> Read] /\ reader'[r] = record
           /\ \A q \in Reader \ {r} : reader'[q] = reader[q]
BY DEF Move, ReadingTypeOK

LEMMA StaysFacts ==
    ASSUME ReadingTypeOK, NEW r \in Reader, NEW pc \in ReadPc, Move(r, At(r, pc))
    PROVE  /\ reader' \in [Reader -> Read] /\ Stays(r, pc)
           /\ \A q \in Reader \ {r} : reader'[q] = reader[q]
BY AtFacts, MoveFacts DEF Stays, Becomes

\* Nothing a reader does touches another reader.
ReaderOnly(r) ==
    reader' \in [Reader -> Read] /\ \A q \in Reader \ {r} : reader'[q] = reader[q]

LEMMA BeginFacts ==
    ASSUME ReadingTypeOK, NEW r \in Reader, BeginRead(r)
    PROVE  /\ ReaderOnly(r) /\ reader[r].pc = "idle"
           /\ reader'[r].pc = IF reader'[r].kind = "detail" THEN "rows" ELSE "blocked"
           /\ ~reader'[r].again /\ ~reader'[r].blocked
<1>1. PICK kind \in ReadKind :
         Move(r, [NoRead EXCEPT !.kind = kind,
                     !.pc = IF kind = "detail" THEN "rows" ELSE "blocked"])
  BY DEF BeginRead
<1> DEFINE record == [NoRead EXCEPT !.kind = kind,
                        !.pc = IF kind = "detail" THEN "rows" ELSE "blocked"]
<1>2. /\ record \in Read /\ record.kind = kind
      /\ record.pc = IF kind = "detail" THEN "rows" ELSE "blocked"
      /\ record.again = FALSE /\ record.blocked = FALSE
  BY DEF NoRead, Read, ReadPc, ReadKind
<1> HIDE DEF record
<1> QED
  BY <1>1, <1>2, MoveFacts DEF BeginRead, ReaderOnly, record

LEMMA BlockedFacts ==
    ASSUME ReadingTypeOK, NEW r \in Reader, ReadBlocked(r)
    PROVE  /\ ReaderOnly(r) /\ reader[r].pc = "blocked"
           /\ \/ reader[r].kind = "detail" /\ Blocked /\ Stays(r, "nothing")
              \/ reader[r].kind = "detail" /\ ~Blocked /\ Stays(r, "fields")
              \/ /\ reader[r].kind # "detail"
                 /\ Becomes(r, "rows", Blocked, reader[r].again, reader[r].rev)
<1>1. CASE reader[r].kind = "detail"
  <2>1. \/ Blocked /\ Move(r, At(r, "nothing"))
        \/ ~Blocked /\ Move(r, At(r, "fields"))
    BY <1>1 DEF ReadBlocked
  <2> QED
    BY <1>1, <2>1, StaysFacts DEF ReadBlocked, ReaderOnly, ReadPc
<1>2. CASE reader[r].kind # "detail"
  <2> DEFINE record == [At(r, "rows") EXCEPT !.blocked = Blocked]
  <2>1. Blocked \in BOOLEAN /\ "rows" \in ReadPc
    BY DEF Blocked, ReadPc
  <2>2. /\ record \in Read /\ record.pc = "rows" /\ record.kind = reader[r].kind
        /\ record.blocked = Blocked /\ record.again = reader[r].again
        /\ record.rev = reader[r].rev
    BY <2>1, AtFacts DEF Read
  <2>3. Move(r, record)
    BY <1>2 DEF ReadBlocked
  <2> HIDE DEF record
  <2> QED
    BY <1>2, <2>2, <2>3, MoveFacts DEF ReadBlocked, ReaderOnly, Becomes
<1> QED
  BY <1>1, <1>2

LEMMA RowsFacts ==
    ASSUME ReadingTypeOK, NEW r \in Reader, ReadRows(r),
           reader[r].kind = "detail" => ~reader[r].again
    PROVE  /\ ReaderOnly(r) /\ reader[r].pc = "rows"
           /\ \/ Stays(r, "nothing")
              \/ /\ Confirmed /\ ~reader[r].blocked
                 /\ \/ reader[r].kind = "detail" /\ Stays(r, "blocked")
                    \/ /\ reader[r].kind # "detail"
                       /\ reader[r].kind = "catalogue" \/ reader[r].again
                       /\ Stays(r, "fields")
                    \/ /\ reader[r].kind \in {"search", "evidence"}
                       /\ Stays(r, "query")
<1>1. reader[r].kind \in ReadKind
  BY DEF ReadingTypeOK, Read
<1>2. CASE ~FormalRow \/ reader[r].blocked
  <2>1. Move(r, At(r, "nothing"))
    BY <1>2 DEF ReadRows
  <2> QED
    BY <2>1, StaysFacts DEF ReadRows, ReaderOnly, ReadPc
<1>3. CASE FormalRow /\ ~reader[r].blocked
  <2>1. CASE reader[r].kind = "detail"
    <3>1. Move(r, At(r, "blocked"))
      BY <1>3, <2>1 DEF ReadRows
    <3> QED
      BY <1>3, <2>1, <3>1, StaysFacts
         DEF ReadRows, ReaderOnly, ReadPc, FormalRow, Confirmed
  <2>2. CASE reader[r].kind # "detail" /\ (reader[r].kind = "catalogue" \/ reader[r].again)
    <3>1. Move(r, At(r, "fields"))
      BY <1>3, <2>2 DEF ReadRows
    <3> QED
      BY <1>3, <2>2, <3>1, StaysFacts
         DEF ReadRows, ReaderOnly, ReadPc, FormalRow, Confirmed
  <2>3. CASE reader[r].kind \in {"search", "evidence"} /\ ~reader[r].again
    <3>1. Move(r, At(r, "query"))
      BY <1>3, <2>3 DEF ReadRows
    <3> QED
      BY <1>3, <2>3, <3>1, StaysFacts
         DEF ReadRows, ReaderOnly, ReadPc, FormalRow, Confirmed
  <2> QED
    BY <1>1, <2>1, <2>2, <2>3 DEF ReadKind
<1> QED
  BY <1>2, <1>3

LEMMA QueryFacts ==
    ASSUME ReadingTypeOK, NEW r \in Reader, QueryVectors(r)
    PROVE  /\ ReaderOnly(r) /\ reader[r].pc = "query"
           /\ \/ Stays(r, "nothing")
              \/ reader[r].kind = "search" /\ Stays(r, "returned")
              \/ /\ reader[r].kind # "search"
                 /\ Becomes(r, "blocked", reader[r].blocked, TRUE, reader[r].rev)
<1>1. CASE Move(r, At(r, "nothing")) \/ (reader[r].kind = "search" /\ Move(r, At(r, "returned")))
  BY <1>1, StaysFacts DEF QueryVectors, ReaderOnly, ReadPc
<1>2. CASE reader[r].kind # "search" /\ Move(r, CandidatesOf(r))
  <2> DEFINE base == At(r, "blocked")
             record == [base EXCEPT !.again = TRUE]
  <2>1. /\ base \in Read /\ base.pc = "blocked" /\ base.kind = reader[r].kind
        /\ base.blocked = reader[r].blocked /\ base.rev = reader[r].rev
    BY AtFacts DEF ReadPc
  <2> HIDE DEF base
  <2>2. /\ record \in Read /\ record.pc = "blocked" /\ record.kind = reader[r].kind
        /\ record.blocked = reader[r].blocked /\ record.again = TRUE
        /\ record.rev = reader[r].rev
    BY <2>1 DEF Read
  <2>3. Move(r, record)
    BY <1>2 DEF CandidatesOf, base
  <2> HIDE DEF record
  <2> QED
    BY <1>2, <2>2, <2>3, MoveFacts DEF QueryVectors, ReaderOnly, Becomes
<1> QED
  BY <1>1, <1>2 DEF QueryVectors

LEMMA FieldsFacts ==
    ASSUME TypeOK, ReadingTypeOK, NEW r \in Reader, ReadFields(r)
    PROVE  /\ ReaderOnly(r) /\ reader[r].pc = "fields"
           /\ Becomes(r, "returned", reader[r].blocked, reader[r].again,
                      IF fields.exists THEN fields.rev ELSE 0)
<1> DEFINE rev == IF fields.exists THEN fields.rev ELSE 0
           record == [At(r, "returned") EXCEPT !.rev = rev]
<1>1. rev \in Nat /\ "returned" \in ReadPc
  BY DEF TypeOK, FieldValues, ReadPc
<1>3. Move(r, record)
  BY DEF ReadFields
<1> HIDE DEF rev
<1>2. /\ record \in Read /\ record.pc = "returned" /\ record.kind = reader[r].kind
      /\ record.blocked = reader[r].blocked /\ record.again = reader[r].again
      /\ record.rev = rev
  BY <1>1, AtFacts DEF Read
<1> HIDE DEF record
<1>4. Becomes(r, "returned", reader[r].blocked, reader[r].again, rev)
  BY <1>2, <1>3, MoveFacts DEF Becomes
<1> QED
  BY <1>2, <1>3, <1>4, MoveFacts DEF ReadFields, ReaderOnly, rev

LEMMA EndFacts ==
    ASSUME ReadingTypeOK, NEW r \in Reader, EndRead(r)
    PROVE  /\ ReaderOnly(r) /\ reader[r].pc \in {"returned", "nothing"}
           /\ reader'[r].pc = "idle" /\ ~reader'[r].again
BY NoReadType, MoveFacts DEF EndRead, ReaderOnly

-----------------------------------------------------------------------------
\* What the observer makes of a read that goes on.
LEMMA NotedFacts ==
    ASSUME TypeOK', ReadingTypeOK, Observe, NEW r \in Reader, Under(r),
           reader'[r].pc # "idle"
    PROVE  /\ window'[r] \in Window
           /\ window'[r].visible <=> window[r].visible \/ Visible'
           /\ window'[r].left <=> window[r].left \/ (Confirmed /\ ~Confirmed')
           /\ window[r].signed \subseteq window'[r].signed
           /\ Confirmed' => fields'.rev \in window'[r].signed
           /\ window'[r].hidden <=> window[r].hidden
<1> DEFINE visible == window[r].visible \/ Visible'
           left == window[r].left \/ (Confirmed /\ ~Confirmed')
           more == IF Confirmed' THEN {fields'.rev} ELSE {}
           seen == window[r]
<1>1. seen \in Window /\ visible \in BOOLEAN /\ left \in BOOLEAN
  BY DEF ReadingTypeOK, Window
<1>2. more \in SUBSET Nat /\ (Confirmed' => fields'.rev \in more)
  BY DEF TypeOK, FieldValues
<1>3. window'[r] = [seen EXCEPT !.visible = visible, !.left = left,
                                !.signed = seen.signed \cup more]
  BY <1>1 DEF Observe, Under, Noted, Window
<1> HIDE DEF visible, left, more, seen
<1>4. /\ window'[r] \in Window
      /\ window'[r].visible = visible /\ window'[r].left = left
      /\ window'[r].signed = seen.signed \cup more
      /\ window'[r].hidden = seen.hidden
  BY <1>1, <1>2, <1>3 DEF Window
<1> QED
  BY <1>2, <1>4 DEF visible, left, seen

LEMMA OpenedFacts ==
    ASSUME TypeOK, Observe, NEW r \in Reader, ~Under(r), reader[r].pc = "idle",
           reader'[r].pc # "idle"
    PROVE  /\ window'[r] \in Window
           /\ window'[r].visible <=> Visible
           /\ Confirmed => fields.rev \in window'[r].signed
           /\ window'[r].hidden <=> Hidden
<1>1. window'[r] = Opened
  BY DEF Observe
<1>2. Visible \in BOOLEAN /\ Hidden \in BOOLEAN
  BY DEF Visible, Hidden
<1> DEFINE shownNow == IF Confirmed THEN {fields.rev} ELSE {}
<1>3. shownNow \in SUBSET Nat /\ (Confirmed => fields.rev \in shownNow)
  BY DEF TypeOK, FieldValues
<1>4. Opened = [visible |-> Visible, left |-> FALSE, signed |-> shownNow,
                hidden |-> Hidden]
  BY DEF Opened, Hidden
<1> HIDE DEF shownNow
<1> QED
  BY <1>1, <1>2, <1>3, <1>4 DEF Window

LEMMA ClosedType == Closed \in Window /\ ~Closed.hidden /\ ~Closed.visible
BY DEF Closed, Window

LEMMA WindowType ==
    ASSUME TypeOK, TypeOK', ReadingTypeOK, Observe
    PROVE  window' \in [Reader -> Window]
<1>1. ASSUME NEW r \in Reader
      PROVE  window'[r] \in Window
  <2>1. CASE reader'[r].pc = "idle"
    BY <2>1, ClosedType DEF Observe
  <2>2. CASE reader'[r].pc # "idle" /\ reader[r].pc = "idle"
    BY <2>2, OpenedFacts DEF Under
  <2>3. CASE reader'[r].pc # "idle" /\ Under(r)
    BY <2>3, NotedFacts
  <2>4. CASE reader'[r].pc # "idle" /\ reader[r].pc # "idle" /\ ~Under(r)
    BY <2>4 DEF Observe, ReadingTypeOK
  <2> QED
    BY <2>1, <2>2, <2>3, <2>4 DEF Under
<1>2. DOMAIN window' = Reader /\ window' = [r \in Reader |-> window'[r]]
  BY DEF Observe
<1> QED
  BY <1>1, <1>2

\* A reader that does not move, whatever the document does.
LEMMA ReaderWaits ==
    ASSUME DocInv, DocInv', Onward, ReadingTypeOK, Observe,
           NEW r \in Reader, ReaderInv(r), reader'[r] = reader[r]
    PROVE  ReaderInv(r)'
<1> USE DEF Pc
<1>1. CASE reader[r].pc = "idle"
  <2>1. window'[r] = Closed
    BY <1>1 DEF Observe
  <2> QED
    BY <1>1, <2>1, ClosedType
       DEF ReaderInv, WindowInv, LateInv, UnseenInv, ValueInv, Under
<1>2. CASE Under(r)
  <2>1. /\ window'[r].visible <=> window[r].visible \/ Visible'
        /\ window'[r].left <=> window[r].left \/ (Confirmed /\ ~Confirmed')
        /\ Confirmed' => fields'.rev \in window'[r].signed
        /\ window'[r].hidden <=> window[r].hidden
    BY <1>2, NotedFacts DEF DocInv, Under
  <2>2. reader[r].pc \notin {"idle", "returned", "nothing"}
    BY <1>2 DEF Under
  <2>3. WindowInv(r)'
    BY <2>1, <2>2 DEF WindowInv
  <2>4. LateInv(r)'
    BY <2>1, <2>2 DEF ReaderInv, LateInv, Onward
  <2>5. UnseenInv(r)'
    BY <2>1, <2>2 DEF ReaderInv, UnseenInv, Onward
  <2>6. ValueInv(r)'
    BY <2>1, <2>2 DEF ReaderInv, ValueInv
  <2> QED
    BY <2>3, <2>4, <2>5, <2>6 DEF ReaderInv
<1>3. CASE reader[r].pc # "idle" /\ ~Under(r)
  <2>1. window'[r] = window[r]
    BY <1>3 DEF Observe
  <2>2. reader[r].pc \in {"returned", "nothing"}
    BY <1>3 DEF Under
  <2> QED
    BY <1>3, <2>1, <2>2
       DEF ReaderInv, WindowInv, LateInv, UnseenInv, ValueInv, Under, Onward
<1> QED
  BY <1>1, <1>2, <1>3 DEF Under

\* A reader that opens its window.
LEMMA ReaderBegins ==
    ASSUME DocInv, UNCHANGED vars, ReadingTypeOK, Observe,
           NEW r \in Reader, ReaderInv(r), BeginRead(r)
    PROVE  ReaderInv(r)'
<1>1. /\ reader[r].pc = "idle"
      /\ reader'[r].pc = IF reader'[r].kind = "detail" THEN "rows" ELSE "blocked"
      /\ ~reader'[r].again /\ ~reader'[r].blocked
  BY BeginFacts
<1>2. /\ window'[r].visible <=> Visible
      /\ Confirmed => fields.rev \in window'[r].signed
      /\ window'[r].hidden <=> Hidden
  BY <1>1, OpenedFacts DEF DocInv, Under
<1>3. UNCHANGED <<doc, fields, deleteOp>>
  BY DEF vars, rows
<1>4. (Visible' <=> Visible) /\ (Confirmed' <=> Confirmed) /\ (Hidden' <=> Hidden)
  BY <1>3 DEF Visible, Confirmed, Hidden
<1>5. WindowInv(r)'
  BY <1>1, <1>2, <1>3, <1>4 DEF WindowInv, Pc
<1>6. LateInv(r)' /\ UnseenInv(r)' /\ ValueInv(r)'
  BY <1>1, <1>2, <1>3, <1>4 DEF LateInv, UnseenInv, ValueInv, Pc
<1> QED
  BY <1>5, <1>6 DEF ReaderInv

\* What the window of a moving reader says stays what it has been.
LEMMA WindowSteady ==
    ASSUME DocInv, UNCHANGED vars, ReadingTypeOK, Observe,
           NEW r \in Reader, ReaderInv(r), Under(r), reader'[r].pc # "idle"
    PROVE  /\ WindowInv(r)'
           /\ UNCHANGED <<doc, fields, deleteOp>>
           /\ (Visible' <=> Visible) /\ (Confirmed' <=> Confirmed)
           /\ (Hidden' <=> Hidden)
           /\ Visible => window[r].visible
           /\ Confirmed => fields.rev \in window'[r].signed
           /\ window'[r].visible <=> window[r].visible
           /\ window'[r].left <=> window[r].left
           /\ window[r].signed \subseteq window'[r].signed
           /\ window'[r].hidden <=> window[r].hidden
<1>1. UNCHANGED <<doc, fields, deleteOp>>
  BY DEF vars, rows
<1>2. (Visible' <=> Visible) /\ (Confirmed' <=> Confirmed) /\ (Hidden' <=> Hidden)
  BY <1>1 DEF Visible, Confirmed, Hidden
<1>3. TypeOK'
  BY DEF DocInv, TypeOK, vars, rows, stores, bounds, observers
<1>4. Visible => window[r].visible
  BY DEF ReaderInv, WindowInv
<1>5. /\ window'[r].visible <=> window[r].visible \/ Visible'
      /\ window'[r].left <=> window[r].left \/ (Confirmed /\ ~Confirmed')
      /\ window[r].signed \subseteq window'[r].signed
      /\ Confirmed' => fields'.rev \in window'[r].signed
      /\ window'[r].hidden <=> window[r].hidden
  BY <1>3, NotedFacts
<1> QED
  BY <1>1, <1>2, <1>4, <1>5 DEF WindowInv, Pc

\* The steps of a read under way, whose window is open.
LEMMA ReaderGoesOn ==
    ASSUME DocInv, UNCHANGED vars, ReadingTypeOK, Observe,
           NEW r \in Reader, ReaderInv(r),
           ReadBlocked(r) \/ ReadRows(r) \/ QueryVectors(r) \/ ReadFields(r)
    PROVE  ReaderInv(r)'
<1> USE DEF Pc, Stays, Becomes
<1>0. Hidden /\ ~Blocked => ~doc.present
  BY DEF DocInv, TypeOK, Hidden, Blocked
<1>1. CASE ReadBlocked(r)
  <2>1. /\ reader[r].pc = "blocked"
        /\ \/ reader[r].kind = "detail" /\ Blocked /\ Stays(r, "nothing")
           \/ reader[r].kind = "detail" /\ ~Blocked /\ Stays(r, "fields")
           \/ /\ reader[r].kind # "detail"
              /\ Becomes(r, "rows", Blocked, reader[r].again, reader[r].rev)
    BY <1>1, BlockedFacts
  <2>2. Under(r) /\ reader'[r].pc # "idle"
    BY <2>1 DEF Under
  <2> USE WindowSteady, <2>2
  <2>3. LateInv(r)'
    BY <1>0, <2>1 DEF ReaderInv, LateInv
  <2>4. UnseenInv(r)'
    BY <1>0, <2>1 DEF ReaderInv, UnseenInv
  <2>5. ValueInv(r)'
    BY <2>1 DEF ReaderInv, ValueInv
  <2> QED
    BY <2>3, <2>4, <2>5 DEF ReaderInv
<1>2. CASE ReadRows(r)
  <2>1. /\ reader[r].pc = "rows"
        /\ \/ Stays(r, "nothing")
           \/ /\ Confirmed /\ ~reader[r].blocked
              /\ \/ reader[r].kind = "detail" /\ Stays(r, "blocked")
                 \/ /\ reader[r].kind # "detail"
                    /\ reader[r].kind = "catalogue" \/ reader[r].again
                    /\ Stays(r, "fields")
                 \/ /\ reader[r].kind \in {"search", "evidence"}
                    /\ Stays(r, "query")
    BY <1>2, RowsFacts DEF ReaderInv, ValueInv
  <2>2. Under(r) /\ reader'[r].pc # "idle"
    BY <2>1 DEF Under
  <2>3. Confirmed => doc.present /\ (Hidden \/ Visible)
    BY DEF Confirmed, Hidden, Visible
  <2> USE WindowSteady, <2>2
  <2>4. LateInv(r)'
    BY <2>1, <2>3 DEF ReaderInv, LateInv
  <2>5. UnseenInv(r)'
    BY <2>1, <2>3 DEF ReaderInv, UnseenInv
  <2>6. ValueInv(r)'
    BY <2>1 DEF ReaderInv, ValueInv
  <2> QED
    BY <2>4, <2>5, <2>6 DEF ReaderInv
<1>3. CASE QueryVectors(r)
  <2>1. /\ reader[r].pc = "query"
        /\ \/ Stays(r, "nothing")
           \/ reader[r].kind = "search" /\ Stays(r, "returned")
           \/ /\ reader[r].kind # "search"
              /\ Becomes(r, "blocked", reader[r].blocked, TRUE, reader[r].rev)
    BY <1>3, QueryFacts
  <2>2. Under(r) /\ reader'[r].pc # "idle"
    BY <2>1 DEF Under
  <2> USE WindowSteady, <2>2
  <2>3. LateInv(r)'
    BY <2>1 DEF ReaderInv, LateInv, ValueInv
  <2>4. UnseenInv(r)'
    BY <2>1 DEF ReaderInv, UnseenInv, ValueInv
  <2>5. ValueInv(r)'
    BY <2>1 DEF ReaderInv, ValueInv
  <2> QED
    BY <2>3, <2>4, <2>5 DEF ReaderInv
<1>4. CASE ReadFields(r)
  <2>1. /\ reader[r].pc = "fields"
        /\ Becomes(r, "returned", reader[r].blocked, reader[r].again,
                   IF fields.exists THEN fields.rev ELSE 0)
    BY <1>4, FieldsFacts DEF DocInv
  <2>2. Under(r) /\ reader'[r].pc # "idle"
    BY <2>1 DEF Under
  <2>3. (~doc.present => ~fields.exists) /\ (Confirmed => fields.exists)
    BY DEF DocInv, PresentInv, ConfirmedAsSigned, Confirmed
  <2> USE WindowSteady, <2>2
  <2>4. LateInv(r)'
    BY <2>1, <2>3 DEF ReaderInv, LateInv
  <2>5. UnseenInv(r)'
    BY <2>1, <2>3 DEF ReaderInv, UnseenInv
  <2>6. ValueInv(r)'
    BY <2>1, <2>3 DEF ReaderInv, ValueInv
  <2> QED
    BY <2>4, <2>5, <2>6 DEF ReaderInv
<1> QED
  BY <1>1, <1>2, <1>3, <1>4

LEMMA ReaderEnds ==
    ASSUME ReadingTypeOK, Observe, NEW r \in Reader, ReaderInv(r), EndRead(r)
    PROVE  ReaderInv(r)'
<1>1. reader'[r].pc = "idle" /\ ~reader'[r].again /\ window'[r] = Closed
  BY EndFacts DEF Observe
<1> QED
  BY <1>1, ClosedType
     DEF ReaderInv, WindowInv, LateInv, UnseenInv, ValueInv, Under, Pc

LEMMA ReadersNext ==
    ASSUME DocInv, DocInv', [Onward]_vars, ReadersInv, [ReadingNext]_service
    PROVE  ReadersInv'
<1>1. CASE UNCHANGED service
  BY <1>1 DEF service, vars, rows, stores, bounds, observers, ReadersInv, ReaderInv,
     ReadingTypeOK, WindowInv, LateInv, UnseenInv, ValueInv, Under, Pc, Visible,
     Confirmed, Hidden
<1>2. CASE Beside
  <2>1. reader' = reader /\ reads' = reads /\ Observe
    BY <1>2 DEF Beside, reading
  <2>2. Onward
    BY DEF Onward, Hidden, vars, rows
  <2>3. ReadingTypeOK'
    BY <2>1, WindowType DEF ReadersInv, ReadingTypeOK, DocInv
  <2>4. \A r \in Reader : ReaderInv(r)'
    BY <2>1, <2>2, ReaderWaits DEF ReadersInv
  <2> QED
    BY <2>3, <2>4 DEF ReadersInv
<1>3. ASSUME NEW r \in Reader, ReadStep(r), UNCHANGED vars, Observe
      PROVE  ReadersInv'
  <2>1. Onward
    BY <1>3 DEF Onward, Hidden, vars, rows
  <2>2. ReaderOnly(r)
    <3>1. ReadingTypeOK /\ TypeOK /\ (reader[r].kind = "detail" => ~reader[r].again)
      BY DEF ReadersInv, DocInv, ReaderInv, ValueInv
    <3>2. CASE BeginRead(r) \/ EndRead(r)
      BY <3>1, <3>2, BeginFacts, EndFacts
    <3>3. CASE ReadBlocked(r) \/ ReadRows(r)
      BY <3>1, <3>3, BlockedFacts, RowsFacts
    <3>4. CASE QueryVectors(r) \/ ReadFields(r)
      BY <3>1, <3>4, QueryFacts, FieldsFacts
    <3> QED
      BY <1>3, <3>2, <3>3, <3>4 DEF ReadStep
  <2>3. reads' \in Nat
    <3>1. reads' \in {reads, reads + 1}
      BY <1>3 DEF ReadStep, BeginRead, ReadBlocked, ReadRows, QueryVectors,
         ReadFields, EndRead
    <3> QED
      BY <3>1 DEF ReadersInv, ReadingTypeOK
  <2>4. ReadingTypeOK'
    BY <1>3, <2>2, <2>3, WindowType DEF ReadersInv, ReadingTypeOK, DocInv, ReaderOnly
  <2>5. ReaderInv(r)'
    BY <1>3, ReaderBegins, ReaderGoesOn, ReaderEnds DEF ReadStep, ReadersInv
  <2>6. ASSUME NEW q \in Reader \ {r}
        PROVE  ReaderInv(q)'
    BY <1>3, <2>1, <2>2, <2>6, ReaderWaits DEF ReadersInv, ReaderOnly
  <2> QED
    BY <2>4, <2>5, <2>6 DEF ReadersInv
<1> QED
  BY <1>1, <1>2, <1>3 DEF ReadingNext

LEMMA ReadersInit == ReadingInit => ReadersInv
<1> SUFFICES ASSUME ReadingInit PROVE ReadersInv
  OBVIOUS
<1>1. reader = [r \in Reader |-> NoRead] /\ window = [r \in Reader |-> Closed]
  BY DEF ReadingInit
<1>2. ReadingTypeOK
  BY <1>1, NoReadType, ClosedType DEF ReadingInit, ReadingTypeOK
<1>3. ASSUME NEW r \in Reader
      PROVE  ReaderInv(r)
  <2>1. reader[r].pc = "idle" /\ ~reader[r].again /\ window[r] = Closed
    BY <1>1, NoReadType
  <2> QED
    BY <2>1, ClosedType
       DEF ReaderInv, WindowInv, LateInv, UnseenInv, ValueInv, Under, Pc
<1> QED
  BY <1>2, <1>3 DEF ReadersInv

\* All readers and their windows, each in its domain, keep what they have
\* found in step with what the document has gone through.
THEOREM ReadersCorrect == ReadingSpec => []ReadersInv
<1>1. ReadingSpec => []DocInv /\ [][Onward]_vars
  BY LifeGoesOn, DocCorrect, PTL
<1> QED
  BY <1>1, ReadersInit, ReadersNext, PTL DEF ReadingSpec

\* No read that begins after the deletion of a document has begun returns the
\* document, although blocking, rows and values are read one after the other
\* and the deletion may fail, be resumed and end in between.
THEOREM LateReadsSeeNothing == ReadingSpec => []HiddenStaysHidden
<1>1. ReadersInv => HiddenStaysHidden
  BY DEF ReadersInv, ReaderInv, LateInv, HiddenStaysHidden, Shows, Returned, Pc
<1> QED
  BY <1>1, ReadersCorrect, PTL

\* What the agent cites and what a detail shows was formal and not blocked at
\* one moment of the request, for any number of requests that race with it.
THEOREM EvidenceCorrect == ReadingSpec => []EvidenceWasVisible
<1>1. ReadersInv => EvidenceWasVisible
  BY DEF ReadersInv, ReaderInv, UnseenInv, EvidenceWasVisible, Shows, Returned, Pc
<1> QED
  BY <1>1, ReadersCorrect, PTL

\* The values that a catalogue, a detail or a title shows were confirmed ones
\* while the request lasted, unless the document left the formal scope.
THEOREM ShownValuesConfirmed == ReadingSpec => []ValuesWereConfirmed
<1>1. ReadersInv => ValuesWereConfirmed
  BY DEF ReadersInv, ReaderInv, ValueInv, ValuesWereConfirmed, Returned, Pc
<1> QED
  BY <1>1, ReadersCorrect, PTL
=============================================================================
