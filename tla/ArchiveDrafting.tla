--------------------------- MODULE ArchiveDrafting ---------------------------
(***************************************************************************)
(* drafts.py and suggestions.py: reading the draft, editing one field under *)
(* the optimistic version, the blank manual draft, and the AI suggestions,  *)
(* first, retried and regenerated.                                          *)
(***************************************************************************)
EXTENDS ArchiveRecord

RowAndFieldsOnly == UNCHANGED <<indexOps, deleteOp, stores, observers>>
ReadsOnly == UNCHANGED <<rows, stores, rowLock, observers>>

-----------------------------------------------------------------------------
\* read_document_draft: the version comes from the first of two statements,
\* the values from the second.
ReadDraftRow(w) ==
    /\ Accept(w, "draft")
    /\ doc.present /\ doc.status \notin {"UPLOADED", "PARSE_FAILED"}
    /\ Become(w, [Idle EXCEPT !.pc = "reading", !.ver = doc.version])
    /\ ReadsOnly

ReadDraftFields(w) ==
    /\ task[w].pc = "reading"
    /\ IF fields.exists
       THEN Become(w, [task[w] EXCEPT !.pc = "drafted", !.rev = fields.rev])
       ELSE Finish(w)
    /\ UNCHANGED bounds /\ ReadsOnly

\* The client drops the draft, or what it sends back is refused.
LeaveDraft(w) ==
    /\ task[w].pc = "drafted"
    /\ Finish(w)
    /\ UNCHANGED bounds /\ ReadsOnly

-----------------------------------------------------------------------------
\* update_field up to the conditional UPDATE: no lock, status kept for later.
BeginEdit(w) ==
    /\ "edit" \in Kinds
    /\ task[w].pc = "drafted"
    /\ doc.present /\ fields.exists
    /\ doc.status \in EditableStatus \cup {"CONFIRMED"}
    /\ doc.version = task[w].ver
    /\ Become(w, [task[w] EXCEPT !.pc = "editing", !.st = doc.status])
    /\ UNCHANGED bounds /\ ReadsOnly

\* Mutant: the UPDATE forgets the version condition.
EditHitsAnyVersion(w) == doc.present
\* WHERE document_id = ... AND version = expected_version
EditHits(w) == doc.present /\ doc.version = task[w].ver

\* Mutant: editing a formal archive leaves it confirmed.
StatusKeptByEdit(loaded) == loaded
StatusAfterEdit(loaded) ==
    IF loaded = "CONFIRMED" THEN "PENDING_RECONFIRMATION" ELSE loaded

\* The columns of the conditional UPDATE; leaving the formal scope clears the
\* index facts in the same statement.
EditedDocument(w) ==
    LET next == StatusAfterEdit(task[w].st)
        edited == [doc EXCEPT !.status = next, !.version = @ + 1]
    IN IF next = "PENDING_RECONFIRMATION"
       THEN [edited EXCEPT !.hash = FALSE, !.chunks = 0]
       ELSE edited

\* Mutant: a check counts one field too many.
EditedFieldsMiscounted(p) ==
    [fields EXCEPT !.rev = @ + 1, !.manual = TRUE, !.pending = p + 1]
\* One field becomes a MANUAL value: checked, unchecked or left as it was.
EditedFields(p) == [fields EXCEPT !.rev = @ + 1, !.manual = TRUE, !.pending = p]

EditField(w) ==
    /\ task[w].pc = "editing"
    /\ Unlocked
    /\ EditHits(w)
    /\ doc' = EditedDocument(w)
    /\ \E p \in {fields.pending - 1, fields.pending, fields.pending + 1}
                  \cap (0 .. FieldCount) : fields' = EditedFields(p)
    /\ Finish(w)
    /\ UNCHANGED <<rowLock, bounds>> /\ RowAndFieldsOnly

EditConflict(w) ==
    /\ task[w].pc = "editing"
    /\ Unlocked
    /\ ~EditHits(w)
    /\ Finish(w)
    /\ UNCHANGED bounds /\ ReadsOnly

-----------------------------------------------------------------------------
\* A new set of seven unchecked values, AI or blank, and the status they open.
FreshFields == [exists |-> TRUE, rev |-> fields.rev + 1, manual |-> FALSE,
                pending |-> FieldCount]
\* Mutant: replacing the draft keeps the version.
FreshDocumentSameVersion == [doc EXCEPT !.status = "PENDING_CONFIRMATION"]
FreshDocument == [doc EXCEPT !.status = "PENDING_CONFIRMATION", !.version = @ + 1]
OpenFreshDraft == doc' = FreshDocument /\ fields' = FreshFields

\* Mutant: a document that could not be parsed may be filled in by hand.
ManualDraftAfterParseFailure ==
    doc.status \in {"PARSED", "SUGGESTION_FAILED", "PARSE_FAILED"}
ManualDraftAllowed ==
    /\ doc.status \in {"PARSED", "SUGGESTION_FAILED"}
    /\ doc.status = "PARSED" => ~fields.exists

\* create_manual_draft: one transaction under the row lock.
CreateManualDraft(w) ==
    /\ Accept(w, "manual")
    /\ Unlocked /\ doc.present
    /\ ManualDraftAllowed
    /\ OpenFreshDraft
    /\ UNCHANGED <<rowLock, task>> /\ RowAndFieldsOnly

-----------------------------------------------------------------------------
\* First suggestion: no draft yet.  Retry: nothing of the user's in it.
SuggestionAllowed ==
    \/ doc.status = "PARSED" /\ ~fields.exists
    \/ doc.status = "SUGGESTION_FAILED" /\ ~fields.manual

\* _generate_suggestions holds the row lock over the call of the model.
StartSuggestion(w) ==
    /\ Accept(w, "suggest")
    /\ Unlocked /\ doc.present
    /\ SuggestionAllowed
    /\ doc.snapshot /\ files.snapshot
    /\ rowLock' = w
    /\ Become(w, [Idle EXCEPT !.pc = "suggesting"])
    /\ UNCHANGED <<rows, stores, observers>>

PersistSuggestion(w) ==
    /\ task[w].pc = "suggesting"
    /\ OpenFreshDraft
    /\ rowLock' = NoWorker
    /\ Finish(w)
    /\ UNCHANGED bounds /\ RowAndFieldsOnly

\* The answer was usable but saving it failed: rolled back, nothing recorded.
SuggestionNotSaved(w) ==
    /\ task[w].pc = "suggesting"
    /\ rowLock' = NoWorker
    /\ Finish(w)
    /\ UNCHANGED <<rows, stores, bounds, observers>>

\* Mutant: the failure path forgets the rollback and keeps the row lock.
SuggestionFailsLocked(w) ==
    /\ task[w].pc = "suggesting"
    /\ Goto(w, "suggest_failed")
    /\ UNCHANGED <<rows, stores, rowLock, bounds, observers>>
\* The model failed: roll back, which releases the lock, then record.
SuggestionFails(w) ==
    /\ task[w].pc = "suggesting"
    /\ rowLock' = NoWorker
    /\ Goto(w, "suggest_failed")
    /\ UNCHANGED <<rows, stores, bounds, observers>>

\* _record_suggestion_failure: whatever the status has become by now.
RecordSuggestionFailure(w) ==
    /\ task[w].pc = "suggest_failed"
    /\ Unlocked
    /\ doc' = IF doc.present THEN [doc EXCEPT !.status = "SUGGESTION_FAILED"] ELSE doc
    /\ Finish(w)
    /\ UNCHANGED <<fields, rowLock, bounds>> /\ RowAndFieldsOnly

-----------------------------------------------------------------------------
\* _ensure_regenerate_allowed: all seven still unchecked and none manual.
UntouchedDraft == fields.exists /\ ~fields.manual /\ fields.pending = FieldCount

RegenerateAllowed(version) ==
    /\ doc.present
    /\ doc.version = version
    /\ doc.status = "PENDING_CONFIRMATION"
    /\ doc.snapshot
    /\ UntouchedDraft

\* regenerate_suggestions: checked without a lock before the model is called,
\* checked again under the lock with the answer in hand.
BeginRegenerate(w) ==
    /\ "regenerate" \in Kinds
    /\ task[w].pc = "drafted"
    /\ RegenerateAllowed(task[w].ver)
    /\ files.snapshot
    /\ Goto(w, "regenerating")
    /\ UNCHANGED bounds /\ ReadsOnly

\* Mutant: no second look at the version and the fields after the model call.
RegenerateNoRecheck(w) == doc.present /\ doc.status = "PENDING_CONFIRMATION"
RegenerateRecheck(w) == RegenerateAllowed(task[w].ver)

CommitRegenerate(w) ==
    /\ task[w].pc = "regenerating"
    /\ Unlocked
    /\ RegenerateRecheck(w)
    /\ OpenFreshDraft
    /\ Finish(w)
    /\ UNCHANGED <<rowLock, bounds>> /\ RowAndFieldsOnly

\* The model failed, or the second check or the commit did: nothing is written.
GiveUpRegenerate(w) ==
    /\ task[w].pc = "regenerating"
    /\ Finish(w)
    /\ UNCHANGED bounds /\ ReadsOnly

DraftStep(w) ==
    \/ ReadDraftFields(w) \/ EditField(w) \/ EditConflict(w)
    \/ PersistSuggestion(w) \/ SuggestionNotSaved(w) \/ SuggestionFails(w)
    \/ RecordSuggestionFailure(w) \/ CommitRegenerate(w) \/ GiveUpRegenerate(w)
DraftRequest(w) ==
    \/ ReadDraftRow(w) \/ BeginEdit(w) \/ CreateManualDraft(w)
    \/ StartSuggestion(w) \/ BeginRegenerate(w)
=============================================================================
