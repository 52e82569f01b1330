# mini-rag: a TLA+ model of the archive service

The repository is a FastAPI service that turns uploaded project documents into
formal archives and answers questions over them. Its facts live in four places
that share no transaction: PostgreSQL (SQLModel, READ COMMITTED), files, vectors
in Chroma, and a SQLite checkpoint of the agent. Requests are handled by a pool
of threads in one process. The interesting part is what happens when requests
meet, fail half way, or the process dies. That is what is modelled here.

## Inventory

| Component | State | Operations | What is hard | What makes it correct |
|---|---|---|---|---|
| parse pipeline (`services/archive/documents.py`, `parser.py`) | status, snapshot row, snapshot file | upload, parse, retry | no lock, one file path for every parse of a document | one immutable snapshot, its row and its file together |
| drafts (`drafts.py`, `reads.py`) | seven field values, version | read, update a field, manual draft | two-statement read, conditional UPDATE after an unlocked read | nobody overwrites what he has not seen |
| AI suggestions (`suggestions.py`) | fields, status | first, retry, regenerate | model call under the row lock, or between check and write; failure recorded late | AI never replaces a person's values |
| confirmation and index (`confirmation.py`, `indexing.py`, `final_chunks.py`) | status, hash, chunk count, INDEX rows, vectors | confirm, replay, index | three transactions and one upsert, stale copies between them | formal content is what was signed; one operation at a time |
| cancellation (`cancellation.py`) | status, vectors | cancel, clean up | cleanup outside any lock or operation | no formal document without vectors |
| deletion (`deletion.py`, `infrastructure/files.py`) | DELETE row, files, vectors, all rows | delete, resume | three stores, failures, restarts | hidden at once, nothing left at the end, can always be resumed |
| operation rows (`models/archive_audit.py`) | RUNNING, SUCCEEDED, FAILED | created, resolved | bookkeeping that fails, no recovery at start | a RUNNING row has a handler |
| catalogue and retrieval (`catalog.py`, `retrieval.py`, `questions.py`) | none | read formal documents, search, answer | two statements and then Chroma | only visible documents |
| projects (`services/project/management.py`) | project row, document counter | create, update, delete if empty | counter updated with and without a lock; checkpoint threads | the counter is the number of documents |
| checklists (`checklists.py`, `checklist_links.py`) | items, links, versions | create, update, delete, link | version compared in Python; invalidation in another transaction | fulfilled means a valid confirmed link |
| archive agent (`agents/archive`, `services/agent`) | checkpoint, tool audit, session | send a message, read the history | at most two tools, retries, checkpoint before audit | the history shows complete turns only |
| authentication (`services/identity`) | sessions | login, refresh, logout | refresh against revocation and expiry | a revoked session gives no token |
| acceptance and evaluation tools (`scripts/archive_*_acceptance.py`, `archive_world_bank_extension_eval.py`) | user, projects, documents and threads they seed; schema, Chroma database and directories they create; call budget; capture and result files | seed, measure, report, clean up, verify; reserve and consume model calls; prepare and take down | every request and store may fail after having acted; names shared by two invocations | what is left is reported, files tell the truth, the budget covers the plan |
| HTTP routers and schemas (`app/routers`, `app/schemas`) | none | dispatch of each request to one service call | authentication before everything else | one transaction or handler per request |
| audit log, configuration, migrations, clients, other scripts | | | no decisions of their own | not modelled |

The components meet in the `archive_documents` row: its version is the token the
clients send back, its row lock orders the writers, its status and the DELETE
operation decide what the catalogue and the retrieval may show.
The documents of a project meet its row in the counter and in the deletion of the
empty project; the agent meets the project through its session and the
checkpoint thread behind it; every request meets the login it came with. The
acceptance tools use all of this through the API, and then look into the stores.

## Modules

| Module | Models | Correspondence |
|---|---|---|
| `ArchiveRecord` | the rows, files, vectors of one document and the request workers | `doc` is the `archive_documents` row (with the existence of the snapshot row), `fields` the seven field rows as one edited whole (`rev` counts committed changes), `indexOps` and `deleteOp` the `archive_operations` rows, `vectors` the field revisions whose context the stored vectors carry, `task[w]` the program counter of a handler and the attributes its session has read |
| `ArchiveParsing` | `documents.py`, parse | one action per external call or commit of `_parse_project_document` |
| `ArchiveDrafting` | `drafts.py`, `suggestions.py` | reads without a lock leave a copy in `task[w]`; a commit under the lock is one action; a lock kept over a model call is `rowLock` |
| `ArchiveFormalising` | `confirmation.py`, `indexing.py`, `cancellation.py` | the two transactions of a confirmation, the unlocked reload between them, each step of the index pipeline, the cleanup |
| `ArchiveDeleting` | `deletion.py` | preparation, vectors, files, rows, failure, resumption |
| `ArchiveLifecycle` | the composition, `Crash` and `LoseBookkeeping`; the properties; the refinement mapping | |
| `ArchiveReading` | `catalog.py`, `retrieval.py`, `questions.py`, `archive_tools.py`, composed with the life of the document | `reader[r]` is one read: every SELECT and the query of Chroma are steps; `blocked` the ids read before the rows |
| `FormalArchive` | the abstract promise of a document: DRAFT, FORMAL (one fixed revision on show), HIDDEN, GONE | |
| `ProjectRecord` | the stores of one user's projects, the requests at work on them, the row locks and their return | `projects[p].count` is `document_count`, `rev` counts changes of the content; `originals` are the files of documents, `leftovers` those whose document will never have a row; `projectLock` a `FOR UPDATE` kept between steps, `task[w].rows` the rows of items, links and documents a request keeps or waits for; `loop` who occupies the event loop; `CloseRefused` is the exit of `get_session` |
| `ProjectManaging` | `services/project/management.py`, opening of sessions | update by a version compared in Python; deletion: lock and check, threads one by one, rows; a refused deletion keeps the row it has locked |
| `ProjectUploading` | upload in `documents.py`; deletion, review and second parse as far as the project and its locks see them | hash, claim of the row on the event loop, save, commit or removal of the file, which may fail; the counter read without a lock |
| `ProjectChecklist` | `checklists.py`, `checklist_links.py` | items, links, their invalidation; `match` stands for the fields that decide which documents match; the flush of an update or deletion is two steps when its audit row comes first |
| `ProjectLife` | the composition of the four and `Crash`; the properties | |
| `ArchiveTurn` | `agents/archive/*`, `archive_execution.py` | load, question, tool calls, answer, audit rows; `checkpoint` is the thread in SQLite, `Shown` the projection of the history |
| `AccountSessions` | `services/identity`, `dependencies/auth.py` | `auth_sessions` rows, the access tokens out there, the row a refresh or a logout has read |
| `AgentService` | `ProjectManaging`, `ArchiveTurn` and `AccountSessions` composed, with `Crash` | every request but registration, login and refresh needs a usable login |
| `Conversation` | the abstract promise of a history: it grows by whole exchanges and is forgotten as a whole | |
| `EvaluationStores` | the stores an acceptance run writes and the state of the run | `run.failed` is `cleanup_errors`, `run.primary` the primary exception, `seeded`/`listed` what the run remembers |
| `EvaluationSeeding`, `EvaluationCleanup` | the two halves of the runs in `archive_v1_p14_acceptance.py`, `archive_lushan_persistence_acceptance.py`, `archive_world_bank_retrieval_acceptance.py` | one action per request or store |
| `AnswerBudget` | `AttemptBudget` and the samples of `archive_world_bank_answer_acceptance.py` | `attempted`, `reserved`, `remaining` are its counters |
| `EvaluationPreparation`, `EvaluationTeardown` | `prepare_extension_eval` | the `try` and the `finally` of the function; `made` are the `*_created` flags |
| `EvaluationTools` | the composition and the properties | |
| `MCArchiveLifecycle`, `MCArchiveReading`, `MCProjectLife`, `MCAgentService`, `MCEvaluationTools` | kinds of request, symmetry, plan of samples | |
| `ArchiveLifecycle_proofs`, `ArchiveRefinement_proofs`, `ArchiveStores_proofs`, `ArchiveReading_proofs`, `ProjectLife_proofs`, `AgentService_proofs`, `AnswerBudget_proofs`, `EvaluationTools_proofs` | theorems | |

Requests are bounded by `MaxRequests`, reads by `MaxReads`, tool calls by
`MaxCalls`, faults (crashes, lost commits, failing stores, clean-ups that fail) by
`MaxFaults`. A
client that has read a page keeps its version and revision and may send them
back at any time, or never.

What is abstracted: texts, evidence and prompts (only which revision of the
fields, and whether a value is manual or still unchecked); the seven fields are
`FieldCount` of them; a parse, a model call, an embedding, a Chroma or file call
succeeds or fails, and a failing one may have acted. `last_error_code`,
`last_completed_step` and `documents.status` are written by the code and never
read for a decision, so they are left out. A request refused with 4xx without any
change of state is a step that is not taken, except `RefuseDelete`, which a
property is about, and the refusals that keep a row (below). In `ProjectRecord` a
document is its status, its version and its DELETE operation; `review` is the
confirmation or cancellation, in one step, that `ArchiveLifecycle` takes apart.

An upload that fails unlinks its file (`_cleanup_saved_file`,
`_cleanup_partial_file`), and when that fails too the code only logs it, or not even
that. `CleanedUpOrLeft` is this choice: the file is gone, or one of the `leftovers`,
at the price of a fault. A crash leaves a file that was saved, and perhaps one that
was being written.

`Crash` ends every handler and releases its locks; committed rows, files,
vectors and checkpoints stay. `main.py` runs only migrations on start, so there
is no recovery action. `LoseBookkeeping` is the commit in `_mark_index_failed`,
`_mark_delete_failed`, `_record_suggestion_failure` or the failure branch of the
parse that fails itself: the code rolls back and, at most, logs.

The upload is the one endpoint of its kind that is a coroutine: its blocking
calls run on the event loop, and all handlers that need the loop wait for it.
The synchronous endpoints run in the pool of threads.

### Row locks of a project

Three kinds of lock are modelled, because waiting for them may stop the event loop:

- the project row `FOR UPDATE`, taken by uploads and by the deletion of the project
  (`projectLock`);
- the project row shared: nearly every write adds an audit row
  (`models/archive_audit.py`), whose foreign key locks the project against
  `FOR UPDATE` until the commit. A write that may add its audit row before the row it
  is about has a step in between (`AuditedPc`); the order within one flush of
  SQLAlchemy is not fixed between unrelated tables, so both orders are behaviours;
- the rows of items, links and documents that a request refused after a
  `SELECT ... FOR UPDATE` keeps.

A handler that raises `AppError` there does not roll back. Its session is closed by the
exit of `get_session`, a synchronous generator that FastAPI runs in the pool, but only
when the loop has scheduled it: `CloseRefused` and `CloseRefusedRows` need `loop = None`.
Refused uploads (`documents.py:78` to 96), refused deletions of a project
(`management.py:236`), links (`checklist_links.py:150` to 174), confirmations,
cancellations and deletions of a document are such requests. Locks a handler takes
and returns within one action are its guard only. A link to an item of another
project, which would keep that item's row, is not sent; a link that is made again
while its deletion waits counts as the same row.

### Observers

Some variables belong to no store. They remember what happened, never restrict a
step, and make the exceptions of a property precise:

| Variable | Set when |
|---|---|
| `signed` | a confirmation commits: the revision its client had read |
| `disturbed` | the cleanup of a cancellation empties a newer index |
| `window` | a read is under way: whether the document was visible, what was confirmed, whether it left the formal scope |
| `drifted` | a deletion writes a counter computed from a value that is no longer stored |
| `raced` | an update of a project or an item commits over a newer one |
| `overlapped` | two turns are under way on one session |
| `overtaken` | a deletion takes the session or thread of a turn under way |

## Runs

| Run | Instance | Shows |
|---|---|---|
| `intake` | 2 workers, fresh upload, 7 requests, 1 fault, fairness | `TypeOK`; `SeenIsCurrent`: a draft with the current version has the current values; `DraftsHaveSnapshot`; `AINeverOverwritesManual`; `RequestsAreAnswered` although a lock is kept over model calls |
| `formal` | 2 workers, reviewed draft, 4 requests, no fault, fairness | `ConfirmedAsSigned`, `CommitsOnSeenRevision`, `RefusalHasOwner`, `OperationsResolve`, `ImplementsFormalArchive` |
| `formal_crash` | 2 workers and 1 reader, reviewed draft, 4 requests, 1 read, 1 fault | `OneOperation`, `DeletionLeavesNothing`, `IndexedHasVectors`; of the reader `HiddenStaysHidden`, `EvidenceWasVisible`, `ValuesWereConfirmed` |
| `project` | 3 workers, 1 project, 3 files (1 large), limit 2, 1 item with 2 matching values, 1 session, 3 requests, 1 crash or failing clean-up, fairness; starts with no project, or with one that has no document or one (a draft, confirmed, or confirmed and linked to the item; `StartFiles`) | `TypeOK`; `CapacityKept`; `DeletionIsComplete`; `OriginalsAccounted`; `PageIsCurrent`; `FulfilmentIsEarned`; `AnsweredUnlessStuck` |
| `agent` | 2 workers, 1 session, user and login, 2 call ids, 2 calls, 2 requests, 1 fault, symmetry | `TypeOK`; `AnswersAreBacked`; `HistoryIsConsistent`; `AnswersStayVisible`; `NothingOutlivesSession`; `RevocationSticks`; `ImplementsConversation` |
| `evaluation` | each run by itself, or 2 preparers with one run id; 2 projects with a document each; 3 samples on both routes, cap 17; 2 faults | `TypeOK`; `CaptureIsFresh`; `ReportIsTrue`; `BudgetCoversPlan`; `SchemaOutlivesApi`; `VerifiedMeansGone`; `ResidueIsReported`; `OwnSchemaOnly` |
| `cancel_cleanup` | counterexample | a late cancellation cleanup empties a newer formal index (`FinalChunksExist`) |
| `restart_delete` | counterexample | after a crash a deletion is refused for ever (`RefusalHasOwner`) |
| `parse_delete` | counterexample | a snapshot file outlives the deletion (`DeletionLeavesNoSnapshot`) |
| `double_parse` | counterexample | the losing parse removes the winner's file (`SnapshotHasFile`) |
| `status_diagram` | counterexample | a late failure moves the status along no edge of the diagram (`FollowsStateDiagram`) |
| `project_stale` | counterexample | of two updates from one page version the later one overwrites the earlier without a conflict (`StaleUpdatesConflict`) |

Why the bounds are enough. Documents: the hazards need two handlers of one
document; a cancellation that meets a newer index needs four requests; the intake
needs parse, suggestion, draft, edit and a racing pair; a reader meets any number
of the requests beside it, so one read sees every interleaving. `FieldCount` is 2:
one field checked, one not. Projects: with a limit of 2 and one document stored,
two uploads race at the last free place and a third file is refused; one large
file lets another handler in while it is spooled, a small one does not; an item
that moves from one value to another and back needs two values; three requests
give a race of two and one that observes or deletes. Requests wait for each other in
chains of three: one that keeps a row, one that shares the project and waits for that
row, one on the loop; hence three workers. The start with a confirmed and linked
document makes every such chain reachable with three requests. Agent: two requests are two
overlapping turns, or a turn and a deletion, a login or its revocation, and the
initial states include a session talked to before; two calls are what a turn may
make; a session of one project is enough because turns meet only on a session or
its project. Evaluation: two faults are a primary error and an error of the
cleanup after it; two documents in two projects let a cleanup fail half way; two
preparers are the smallest collision.

`CHECK_DEADLOCK FALSE` is right because clients may stop sending requests, and the
bound makes them stop; acceptance runs end. That handlers do not block each other
is `RequestsAreAnswered` and `AnsweredUnlessStuck`.

### Fairness

Weak fairness of `Step(w)`, the steps of an accepted handler: a thread of the pool,
or a coroutine of the loop, runs on until it answers. Model calls have a time limit
(`deepseek_request_timeout_seconds`) after which they fail; that Chroma, the files
and PostgreSQL answer or fail is assumed. Clients are not fair: nobody has to send
anything. A handler that waits for a row lock is enabled only while the lock is
free. Weak fairness is enough here because every owner releases the lock and the
bound on requests ends the succession of owners; in the service PostgreSQL grants a
row lock to its waiters in turn. Crashes, failures and lost commits never have to
happen. `OperationsResolve` is checked without faults: with them it is false, as
`restart_delete` shows.

`AnsweredUnlessStuck` has an honest exception, and the service really gets there. An
upload asks for the project row from the event loop (`documents.py:72`) and the loop
stands still until it has it. `LoopStuck` is the state in which it never gets it:

- the row is held by an upload that has yielded while it reads a large file from disk;
- it is held by an upload or by a deletion of the project that was refused and whose
  session the loop has yet to close;
- it is shared by a write that has added its audit row and waits for the row of an
  item, a link or a document, which a refused request keeps until the loop closes its
  session.

The property says that in no other state an accepted request waits for ever. It says
so of the requests modelled here. The writes of `ArchiveDrafting` and the two
transactions of a confirmation, which appear as one `review`, have no step between
their audit row and their commit in this composition.

### What the runs brought to light

The six counterexamples are quoted against documents and comments of the repository
in `PROJECT.json`. Beside them, and worth knowing:

- A catalogue may list a document once whose deletion began between its two reads.
  `HiddenStaysHidden` speaks of reads that begin after the deletion.
- A turn whose audit rows cannot be committed is answered with 503, and its exchange
  is in the history all the same. `AnswersStayVisible` says only the converse.
- Of two preparations with one run id only the schema is protected by a flag: the
  loser removes logs, run directory and database of the winner by name. So
  `OwnSchemaOnly` is about the schema, and artifacts are overwritten.
- A calibration whose login fails does not know the user it has registered, and
  `ResidueIsReported` names that exception. A persistence run in the same position
  verifies its stores afterwards and reports what is left. A calibration that captures
  a snapshot does not unlink it when it fails.
- An upload that fails may leave its file for good: nothing looks for `leftovers`, and
  the deletion of a document or project does not know them.
- The exceptions of the project properties hide hazards that other runs show:
  `drifted` takes a project out of `CapacityKept` once a deletion has written a counter
  from a stale read, so the loss of an update of the counter by a deletion is not caught;
  `raced` takes lost updates of a project or an item out of `PageIsCurrent` and
  `FulfilmentIsEarned`; of a project `project_stale` shows them.
- `formal` has no faults, so `RefusalHasOwner` and `OperationsResolve` say nothing there
  of a crash or a lost bookkeeping commit. `restart_delete` shows what becomes of them.

## Refinements

`ArchiveLifecycle` implements `FormalArchive`: `phase` and `shown` are computed from
`doc`, `deleteOp` and `fields`; every handler, crash and failure maps to `Publish`,
`Withdraw`, `Hide`, `Destroy` or a stutter.

`AgentService` implements `Conversation`: `talk[s]` is the history as the API projects
it from the messages of the thread, `strained` the sessions whose client did not wait
or whose project was deleted below a turn. The question without an answer, the retry,
the two writes of a turn and a crash between them are stutters; the write of the
answer is `Exchange`; the deletion of the thread is `Forget`. Turns that overlap may
drop each other's exchanges (`Muddle`), which is what the checkpoint of LangGraph
does to two writers of one thread. One session moves at a time, but several may come
under strain in one step: a deletion overtakes the turns of all sessions of its
project at once. The proof asked for this; with the single session of the run it
cannot be seen.

## Proofs

For every set of workers, readers, projects, files, items, fields, chunks, sessions,
users, logins, call ids and preparers, every plan of samples and every bound, from the
named assumptions of the modules only:

| Theorem | Property |
|---|---|
| `TypeCorrect` | `TypeOK` of `ArchiveLifecycle` |
| `SeenCorrect` | `SeenIsCurrent` |
| `OperationsExclusive` | `OneOperation` |
| `DeletionClean` | `DeletionLeavesNothing` |
| `ConfirmedCorrect` | `ConfirmedAsSigned` |
| `CommitsCorrect` | `CommitsOnSeenRevision` |
| `Refinement` | `ImplementsFormalArchive` |
| `RefusalsPass` | `RefusalHasOwner`, where `MaxFaults = 0` |
| `DraftsSourced` | `DraftsHaveSnapshot` |
| `VectorsIndexed` | `IndexedHasVectors` |
| `ManualValuesKept` | `AINeverOverwritesManual` |
| `LateReadsSeeNothing` | `HiddenStaysHidden` |
| `EvidenceCorrect` | `EvidenceWasVisible` |
| `ShownValuesConfirmed` | `ValuesWereConfirmed` |
| `ProjectLife_proofs!TypeCorrect` | `TypeOK` of `ProjectLife` |
| `CounterCounts` | `CapacityKept` |
| `NothingIsLeftBehind` | `DeletionIsComplete` |
| `FilesAreAccounted` | `OriginalsAccounted` |
| `PagesAreCurrent` | `PageIsCurrent` |
| `LinksAreEarned` | `FulfilmentIsEarned` |
| `AgentService_proofs!TypeCorrect` | `TypeOK` of `AgentService` |
| `AnswersHaveRecords` | `AnswersAreBacked` |
| `SessionsEndWhole` | `NothingOutlivesSession` |
| `HistoriesPairUp` | `HistoryIsConsistent` |
| `AnswersAreShown` | `AnswersStayVisible` |
| `ThreadsAreConversations` | `ImplementsConversation` |
| `RevocationIsFinal` | `RevocationSticks` |
| `BudgetSuffices` | `BudgetCoversPlan` |
| `ToolsTyped` | `TypeOK` of `EvaluationTools` |
| `CapturesAreFresh` | `CaptureIsFresh` |
| `ReportHolds` | `ReportIsTrue` |
| `SchemaOutlives` | `SchemaOutlivesApi` |
| `VerifiedIsGone` | `VerifiedMeansGone` |
| `NothingIsHidden` | `ResidueIsReported` |
| `SchemaIsOwn` | `OwnSchemaOnly` |

The argument. `SeenInv` strengthens `SeenIsCurrent` by the case of a client
between the two statements of its read and by the fact that no client has a
version from the future. It is inductive because the values never change without
the version (`VersionGuards`), which is all the optimistic lock has to give.
`OpsInv` joins `OneOperation` with what a deletion has already emptied: the vectors
stay empty from `removing` on because only the owner of a RUNNING INDEX may fill
them, and that needs the exclusion. `SignedInv` adds to `ConfirmedAsSigned` that a
worker inside an edit holds a status that may be edited, so its conditional UPDATE
never writes CONFIRMED; `Confirm` needs `SeenInv` to know that the revision its
client has read is the stored one. The steps are grouped by what they leave alone
(`Outside`, `FormalKept`, `OwnerStep`), and `LifeInv` is the conjunction of all.
The refinement adds that stored values have a revision above 0, maps each step to
`Publish`, `Withdraw`, `Hide`, `Destroy` or a stutter, and uses the exclusion where
the last transaction of a deletion must start in HIDDEN. `RefusalsPass` has a
hypothesis, because one lost commit leaves a RUNNING row without a handler for ever
(`restart_delete`): `HandledInv` says that until the first fault every RUNNING row has
the handler that will resolve it.

`SourceInv` says that a snapshot row, once there, stays while the document does, and
that every handler of the second half of the intake was let in with one; the late
failures of parse and suggestion move the status only where that is harmless.
`FullInv` says of the vectors that a worker past its upsert can rely on them: no other
worker empties them, because cancellation cleanups are observed and a deletion is
excluded by `OneOperation`; and only the end of an index makes a formal document claim
chunks. `ManualInv` rests on the row lock, which a suggestion keeps over its model
call and which excludes every writer, and for the regeneration, which keeps none, on
the version it has read (`SeenInv`).

A reader only looks, so `ReadingSpec` implies `Spec` and every theorem of the document
may be used beside a read. What the readers need from them is `Onward`, a consequence
of the refinement: a deletion once begun never turns back, and a document that is gone
does not return. `WindowInv` keeps the observer honest while the read lasts; `LateInv`
and `UnseenInv` go through the statements in their order and say what each has still to
find if the document was hidden from the start, or was never visible during the read:
the blocked ids come before the rows, the vectors after both, and the evidence looks at
the blocked ids once more. `ValueInv` says that values are read only after the row was
found formal. `ReadersInv` is their conjunction, and inductive beside `DocInv`.

For projects, `HoldInv` says what the row lock is worth: whoever keeps it finds the
counter, the absence of his document or the emptiness of the project as he judged
them. Without it not even `TypeOK` is inductive, because the counter could leave
`0 .. Limit`. `RemoveInv` gives every deletion under way a document that is still
stored and that nobody else deletes, so that an undrifted counter loses exactly what
the project loses (`CountInv`). `LinkInv` and `DeadInv` tie links, items and sessions
to rows that exist; both need `HoldInv` where a project is deleted. `OriginalInv`
follows a file from its upload to its deletion; a leftover is the price of a fault. `SeenInv` of `ProjectLife_proofs` is
the optimistic lock again, for two rows whose version may be written twice: outside
`raced`, a version only grows, and content changes only with it.

For the agent, `TypeOK` is inductive once the shared rows are typed (`Typed`).
`ClearInv` says that whoever deletes a project keeps its row, finds it live, and has
each thread of it still on his list, unless a turn he overtakes has written it again;
so the commit of the deletion leaves only such threads (`RemnantInv`). `RefusedInv` says
that a refused deletion keeps the row until it is closed, so closing it returns nobody
else's lock. The turns
themselves end in `RecordsFail` then, which is why no log row follows the session.
`NumberInv` numbers the turns under way apart from each other and from every row of the
audit: a row found under the id of a call was written by another turn, which is all
`AnswersAreBacked` may say of it. `EvidenceInv` carries the judgement from the answer to
its commit. `GoneInv` uses that `AgentService` has at most one live project and creates
none: a session whose answers are remembered is not opened a second time.

A history is proved in two parts. The first is about sequences: `Shown` gives each
answer of a pair its rank among the pairs (`Ranks`, `ShownPairs`), so that a question
alone changes nothing (`ShownAsked`) and a question with its answer appends one exchange
(`ShownAnswered`). The second is about turns. Every write replaces the thread by an old
copy and what the turn adds to it, so `CopiesInv` says the same of threads and copies:
answers follow their own questions, occur once (`Sane`), and the answer of a turn that
has yet to answer occurs in none of them. That alone makes `HistoryIsConsistent`, for
any overlap. What is answered stays only if nobody else writes: outside the strained
sessions a thread is exactly what its turn has made of its copy (`AlignInv`), because
two turns in one session are always observed (`StrainInv`). The refinement then maps
the write of the answer to `Exchange` by `AlignInv`, or to `Muddle`.

`Covered` is the inductive form of `BudgetCoversPlan`: what is reserved is what remains
of the sample under way, what remains is enough for the decisions, retries and
judgement still possible (`Enough`), and what was attempted, remains, and will be
reserved for the rest of the plan stays within the cap.

For the other tools, `Based` joins the types with the course of a run (`RunShape`: which
kind passes which phase, and that going forward means no error so far). `PrepInv` does
the same for the preparers, of which several may share one run id. A preparer that
remembers having created the schema and has not dropped it, or still has its API up, is
the creator on record (`SchemaInv`), so one that was refused the schema cannot drop it.
The directory of the results stays, therefore only one preparer ever has a run directory
of its own (`DirectoryInv`) and only one retrieval is ever started (`RetrievalInv`);
without that the retrieval of one could take the database of another
(`DatabaseInv`). A verification looks at every container by its name, so `verified`
excludes the preparer's own remains, and nobody else creates them again (`GoneInv`).
`IsolatedInv`, `LoginInv` and `CalibrationInv` say what is
still in the stores at each step of a cleanup that has reported no error so far: the
calibration knows all its projects before its first document, and a document it could
not delete keeps a project it then tries to remove; an isolated run takes its database
and directories with it. From these follows `ResidueIsReported`, and for the answers
`ReportInv` gets `~Residue` when the result file is written for the last time.
`CaptureInv` counts: a dataset that survives its failed run has cost two faults, and
`FaultlessInv` says that without one the calibration has forgotten nothing.

Only model-checked: the liveness properties `OperationsResolve`, `RequestsAreAnswered`
and `AnsweredUnlessStuck`, since fairness and ENABLED are out of the prover's reach. The
counterexamples of the six violation runs are TLC's. Every invariant and action property
of the passing runs is a theorem, as are both refinements.

## Not modelled

- Ranking, reranking, query variants, fusion, the judgement of answers, and the metrics
  of the evaluations: pure computations on candidates, abstracted to which of them
  come back and which results they allow.
- The audit log of business events: append-only rows in the transaction of the action
  they describe, never read for a decision.
- Ownership of projects by several users, and validation of request bodies.
- Configuration, logging, error translation, migrations; the health endpoint.
- Chroma, DeepSeek and embedding clients: external, present as steps that succeed or
  fail.
- Vector rebuild scripts, dataset generators, probes and other scripts run by hand
  beside the application; the runner in `src/evals`, whose budget is the same class
  `AnswerBudget` models in sequential use.
- The field row locks of `update_field`: PostgreSQL ends their deadlock with a
  suggestion by failing one of the two requests.
- PostgreSQL, SQLite and the file system as such: a commit is atomic, a failing one has
  not acted; a failing call of Chroma, of the files or over HTTP may have.

## What could follow

The retrieval computations as functions checked against reference definitions, the field
row locks of `update_field`, and the runner in `src/evals`.
