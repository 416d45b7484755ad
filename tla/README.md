# persona-ai: TLA+ models, model checking and proofs

persona-ai is one Rust process (axum, tokio) on one Postgres database: users
upload documents to personas, a pool of background workers turns each document
into searchable chunks and recomputes the persona's style profile, and a chat
answers in the persona's voice from those chunks. Almost every handler and job
is a sequence of SQL statements that commit one by one. What is hard to get
right, and hard to test, is what happens between two of them: another task, a
stopped process, a client that leaves and takes its handler along, a failing
statement, a detached task that comes late. That is what the modules of this
directory model, check and prove.

## 1. Inventory

Paths are under `src/`, mostly `src/backend/src/`. "State" is what outlives a
statement.

| Component | Source | State | Operations | Interacts with | Module |
|---|---|---|---|---|---|
| Job queue | `services/worker.rs`, `routes/admin.rs` (retry, cancel), `services/cleanup.rs` (prune), `routes/data_rights.rs` (poll), the schema's cascades | rows of `jobs` | pick, mark running, heartbeat, done / retry / give up, reap, retry, cancel, prune, mark an export missing, go with a persona or a user | every kind of job | `JobQueue` on `JobLedger` |
| Document ingest | `services/ingest.rs`, `services/transcriber.rs`, `routes/documents.rs` | `documents.status`, `progress_pct`, `chunks` | the pipeline's statements, reingest, delete, detached progress writes | queue, profiles | `Ingest` |
| Upload and quota | `routes/documents.rs`, `repositories/documents.rs`, `repositories/personas.rs`, `services/cleanup.rs` | storage counters, files, rows | reserve, move, insert, undo, delete, persona delete, sweep, account's removal of files | queue, keys, account deletion | `Storage` |
| Chat generation | `routes/chat.rs`, `repositories/chats.rs` | semaphore, per-user counters, messages, streaming tasks | admit, stream, disconnect, persist, release | keys, retrieval | `Generation` |
| Login, sessions, reset | `routes/auth.rs`, `auth/*`, `repositories/invites.rs` | `login_attempts`, sessions and their index, `password_resets` | login, throttle, logout, forgot, reset, revoke, own data (`me`), disable, delete account | users | `Sessions` |
| Invites, registration, administration of users, account deletion | `routes/admin.rs`, `routes/auth.rs`, `repositories/invites.rs`, `routes/data_rights.rs`, `services/worker.rs` | `invite_tokens`, `users`, `audit_log` | invite, revoke, accept, patch, delete account, its job | queue, sessions | `Accounts` |
| Personas | `routes/personas.rs`, `repositories/personas.rs` | `personas`, their counter, avatar files | create, rename, delete, avatar upload and removal, account's removal of avatars | storage, keys, account deletion | `Personas` |
| Style profiles | `services/analysis_runner.rs`, `routes/profile.rs`, `repositories/style_profiles.rs`, `repositories/eras.rs` | `style_profiles` | enqueue, snapshot, upsert, show | queue, chunks | `Profiles` |
| Data export | `routes/data_rights.rs`, `services/worker.rs`, `services/cleanup.rs` | export jobs and archives | request, run, poll, expire | queue, account deletion | `Exports` |
| Idempotency keys | `services/idempotency.rs` | `idempotency_keys` | check, store, expire, prune | uploads, chat, personas | `Idempotency`, and in the three callers |
| Cleanup | `services/cleanup.rs` | none | nightly deletes and sweeps | all tables and files | in the owners |
| Retrieval, prompt | `services/retriever.rs`, `services/prompt.rs` | none | rank, select, fit | chat | none |
| Text analysis, parser, chunker, embedder | `services/analysis/*`, `services/parser.rs`, ... | none | pure functions | ingest, profiles | none |
| Providers, e-mail, start-up, health, chat export, events | the rest | configuration | I/O | | none |
| Frontend | `frontend/` | browser | | API | none |

What makes each one correct, and what makes it hard:

* **Job queue.** A due job is executed, by one task at a time, is counted once
  per execution, ends, and is given up only after its attempts. Workers, the
  reaper, administrators and a reingest reach for the same rows; the deletion of
  a persona or a user takes rows along whatever their status; the process may
  die at any statement; a live worker's heartbeat may lapse; write-backs name
  the row but not the owner.
* **Document ingest.** A document shown as done is complete and embedded; one
  that is not done is on its way; a deleted one stays deleted. Executions start
  over after a crash on chunks already committed; a reingest is five statements;
  progress writes are detached; job and document are updated apart.
* **Upload and quota.** Rows, files and counters are three things that no
  transaction spans. The counters must equal what they count and no file of a
  live document be taken away, through failures after the reservation.
* **Chat generation.** Permits and slots taken are given back, on every early
  return, timeout and disconnect; a repeated request adds nothing; an answer
  that was begun is written.
* **Sessions.** A session lives in two tables and a password is read long before
  its session is in either; "log out everywhere" is three statements; a handler that
  changes its session stores it again, and deleting the account leaves the store
  alone.
* **Accounts.** One account per invite, none from a revoked one; somebody
  remains to administer; an account whose owner asked for it goes.
* **Personas.** The counter equals the rows although create and delete lock in
  opposite orders; the avatar file and the column that names it are written and
  removed apart, the removal by a task nobody awaits.
* **Style profiles.** Several jobs of one persona read, compute and upsert in any
  order; what is stored last must be what is there.
* **Data export.** Nothing holds the rows still while they are read, and an
  archive is a file that no row takes along when it goes.

`PROJECT.json` lists the hazards at the lines where they bite, with the
properties that would notice.

## 2. Plan

| # | Module | What it composes | Status |
|---|---|---|---|
| 1 | `JobQueue`, abstract `JobLedger` | the refinement between them | modelled, checked, proved |
| 2 | `Ingest` | on `JobLedger` | modelled, checked, proved |
| 3 | `Storage` | uploads, deletions, keys, sweeps; implements `Idempotency` | modelled, checked, proved |
| 4 | `Generation` | handlers, streaming tasks, keys; implements `Idempotency` | modelled, checked, proved |
| 5 | `Sessions` | login, reset, revocation | modelled, checked, proved |
| 6 | `Accounts` | invites, patches, deletion and its job | modelled, checked, proved |
| 7 | `Personas` | create, delete, avatars, keys | modelled, checked, proved |
| 8 | `Exports` | request, job, polls, account deletion | modelled, checked, proved |
| 9 | `Profiles` | jobs, deletions, readers; implements `JobLedger` | modelled, checked, proved |
| 10 | abstract `Idempotency` | the refinements from `Storage` and `Generation` | checked, proved |
| 11 | pure modules for chunk windows and rank fusion | | left |

## 3. The modules

Common to all: one action is one SQL statement, transaction or file operation of
the code, or a point where a task can be cut short; requests are model values
that may arrive once each, in any order. Times are ordinal ("the window has
passed", "seven days have passed"), never numbers. `spent` counts disturbances
against `Budget`, the only bound beside the finite sets of requests. Variables
marked "history" in a module record the past for the properties and are read by
no guard. Operators marked "variant" are the plausible mistakes the mutants of
`PROJECT.json` put in place of the definitions that follow them.

### JobLedger — what the queue promises

`outcome` (absent, pending, done, failed, removed, dropped) and `active`, the set
of jobs being executed. A job begins only when pending and not active, ends with
a result, may be interrupted, reopened when failed, removed when nobody executes
it. Two promises are weaker than one would like, because the code's are: the
jobs of an owner (`Owned`: those of a persona, those of a user) are dropped
together at any moment, also while they are being executed, and what a
`Revocable` job has done (an export) may be withdrawn. No tables, workers or
heartbeats.

### JobQueue — `jobs`, the worker pool, the reaper

| Model | Code |
|---|---|
| `status`, `attempts`, `workerId`, `heartbeat` | the columns; `heartbeat` is NULL, fresh, or older than two minutes; `missing` is the `failed` of an export that was done, `gone` a row deleted by itself, `dropped` one that went with its owner |
| `ready`, `delayed` | queued rows by `scheduled_at`: due ones in order, and future ones |
| `pc`, `cur`, `snap` | a `run_worker` task, the row it holds, `JobRow.attempts` as read |
| `PickLock`, `DeferForCap`/`PassCap`, `MarkRunning`, `PickAborts` | the statements of `pick_job`'s transaction; a row held by an open transaction is skipped by others and blocks their writes |
| `StartDispatch`, `Heartbeat`, `Complete`, `FailAndRequeue`, `FailForGood`, `NotifyDocument` | `execute_job` |
| `LoseWriteBack`, `LoseNotification` | the ignored errors of the same statements |
| `ExpireOrphan`, `ExpireLive`, `Reap` | two minutes pass; `run_reaper`'s one UPDATE |
| `Restart` | the process stops and `start_workers` runs again |
| `RetryJob`, `CancelJob`, `DiscardForReingest`, `PruneFinished` | administrators, `reingest_document`, the daily cleanup |
| `MarkMissing` | `get_export_status` finds no file for a done export: `failed` (`data_rights.rs:140-147`) |
| `DeletePersona`, `DeleteUser`, `Cascade` | `jobs.persona_id` and `jobs.user_id` are ON DELETE CASCADE (`init.sql:261-262`): `delete_persona` (`repositories/personas.rs:260`) and `run_user_delete` (`worker.rs:565`) remove rows of any status, running ones under their executor, which goes on without a row |

These are all the writers of a job's status. The cascade waits for the row locks
of open `pick_job` transactions; a write-back that comes after it finds no row.

A lapse of a live worker's heartbeat (`Budget["lapse"]`) is a disturbance because
the code relies on its absence: without it a task owns the row it executes, with
it two tasks may execute one job and the late one overwrites the other's result.
A panic inside `dispatch` is not modelled: the task would end and leave its
heartbeat running.

### Idempotency — what the keys promise

What `services/idempotency.rs` and its table promise a handler that checks its
key first and stores its response last: `stage` of each request (new, working,
ended), `stored`, the request whose response is in a slot (user, route and key),
`replayed`, and `effects`, the requests whose work is there to see. A request
works unless the slot holds a response it may use; the first response stored
stays; one that is 24 hours old is `Stale`, which `check` no longer sees but on
which `store`'s INSERT still conflicts, until the cleanup removes it. There are
no statements, failures or disconnections in it: those end requests, with
nothing stored, or forget what they did.

### Ingest — one document from row to chunks

Built on `JobLedger` (`Queue == INSTANCE JobLedger`): begin, end, reopen and
removal are the ledger's own actions, conjoined with what the pipeline adds, so
what `JobQueue` is proved to implement is what `Ingest` relies on. It adds
three facts of the queue the ledger leaves out: `abandoned`, the rows that are
still running with no one behind them, `tries`, and `notices`, the failures that
are on the job and not yet on the document. The jobs of the document are those of its
persona, so `Owned` is all of them together, and none is revocable.

| Model | Code |
|---|---|
| `doc`, `progress`, `chunks`, `embedded` | the document row and its chunk rows; one row stands for a batch of 500, identified by the execution that inserted it |
| `at`, `next`, `todo` | an execution of `run_ingest`: its statement, its next batch, the rows it selected for embedding |
| `FetchDocument` ... `MarkIngested` | the statements of `run_ingest`, in order |
| `Transcribe`, `WriteProgress` | the transcriber of this build reports 10 % in a detached task, then always fails |
| `Succeed`, `Fail`, `Fault`, `LoseResult`, `MarkDocFailed` | `execute_job` with its result |
| `CheckNotRunning` ... `EnqueueAgain`, `RequestFails` | the statements of `reingest_document`; concurrent requests have distinct idempotency keys |
| `EnqueueUpload`, `EnqueueUploadFails` | the end of `upload_document` |
| `DeletePersona` | the DELETE of the persona or the user: document, chunks and jobs go in one statement, and an execution under way goes on until a statement misses its row (`Ends` writes nothing) |
| `RefuseUpload`, `RefuseAgain` | the INSERT of a job whose persona is gone, refused by its foreign key |
| `DeleteDocument`, `RetryJob`, `CancelJob`, `Reap`, `Crash` | as named |

Lapsed heartbeats are left to `JobQueue`: here a job has one execution at a
time, but two jobs of one document may run together.

### Storage — rows, files and counters

| Model | Code |
|---|---|
| `Receive`, `CheckKey`, `CheckContent`, `Reserve`, `MakeDir`, `Move`, `Insert`, `Store` | `upload_document`: multipart to `.tmp`, idempotency key, duplicate hash, `atomic_quota_check_and_increment`, directory, rename, INSERT, key |
| `UndoFile`, `UndoQuota` | its error path when the INSERT fails |
| `CheckFails`, `MakeDirFails`, `InsertFails`, `UndoQuotaFails`, `Disconnect`, `Crash` | each statement that may return early, and the client or process that may go |
| `DeleteDocument`, `RemoveFile`, `DeletePersona`, `RemoveDir`, `LoseRemoval` | the deletions and the tasks they spawn |
| `EraseDir` | `run_user_delete` removes the directories of the user's personas before its DELETE of the user (`worker.rs:524-535`), which is mostly refused (below): the rows stay without their files, and `taken` records whose |
| `SweepFile`, `SweepTmp`, `PruneKey` | `services/cleanup.rs` |
| `ExpireKey` | 24 hours pass: the condition of `check` |
| `Contract`, `KeepsContract` | `Idempotency`, an upload's effect being its row |

The size of a set of uploads is the number of their bytes (`BytesOf`), so that
its arithmetic is that of cardinalities. The file name of an upload and the id
of its row are different uuids in the code (`routes/documents.rs:288-301`
against `repositories/documents.rs:87-91`), so that a sweep may take the file
of any row: `SweepFile` has no guard that would protect one. The user's row stays:
when its DELETE does get through, rows, counters and keys go with it at once.

### Generation — permits, slots and streams

| Model | Code |
|---|---|
| `permits`, `line`, `counts` | `generation_semaphore` with its FIFO of waiters, `user_generation_counts` |
| `CheckKey`, `CountChunks`, `Acquire`, `Admit`, `Refuse`, `PersistAsked`, `Prepare`, `CreateAnswer` | `post_message` up to the spawn; until then the handler dies with its client (`HandlerDies`) |
| `Generate`, `Store`, `TaskFails` | the detached streaming task with its guard |
| `WaitTimesOut`, `AnswerSynthetic` | the wait for a permit, 20 s in the code, and the answer for a persona without chunks |
| `InsertSession`, `StoreCreated`, `DeleteSession`, `ExpireKey`, `PruneKey`, `Crash` | as named |
| `Contract`, `KeepsContract` | `Idempotency`, a request's effects being its session or its messages |

### Sessions — one account's sessions

| Model | Code |
|---|---|
| `live`, `indexed`, `csrf` | the tower-sessions store, `session_index`, and the stored sessions with a CSRF token |
| `password`, `emptied`, `status` | `users.password_hash` as the number of its changes, the change that emptied it, `users.status` |
| `CheckWindow`, `Lookup`, `Verify`, `ClearFailures`, `Record`, `Respond` | `login`: count the failures, read the user, verify, delete the attempts, index the session; the session layer stores it with the response |
| `UseToken`, `CommitReset`, ... | `reset_password`: `use_reset_token` keeps the row locked to the commit |
| `SelectIndexed`, `DeleteFound`, `ForgetIndexed` | `revoke_all_sessions`, one statement each |
| `StartRevocation`, `Rotate` | "log out everywhere", which keeps its caller's session |
| `StartVisit`, `SaveVisit` | `me` gives a session its CSRF token (`auth.rs:221-227`), so the session layer stores it again, whatever a revocation did meanwhile |
| `StartDeparture`, `Disown`, `Disable` | `delete_account`: DELETE FROM `session_index`, then the UPDATE that disables the account and empties e-mail and password (`data_rights.rs:323-331`); the stored sessions stay |
| `Logout`, `SetStatus`, `Issue`, `ExpireToken`, `AgeOut`, `CutShort` | as named |

The session store is a library that is not in the repository; it is modelled
from how it is used (a session is stored when the response is made, if it
changed) and marked external. A session is of use only while the account is
active: those that a deletion leaves in the store are of use again once
`patch_user` (`SetStatus`) enables the account. Logins name the address the
account has at first, so none succeeds on an emptied one. `late`, `missed`,
`unrevoked` and `departed` are the histories that the properties except.

### Accounts — who has an account

Invitations (`InsertInvite`, revoke, expire, prune), acceptances (`use_invite` locks
the row, the user is inserted, both commit), `patch_user` (fetch, then update),
the bootstrap administrator of a restart, `delete_account` (count the
administrators, anonymise, enqueue) and `run_user_delete` (check again, remove
the files, DELETE), whose last statement the foreign keys may refuse.
`patched` and `raced` are the histories of the two ways administrators run out.

### Personas — counter, locks, avatars

`LockUser`, `InsertPersona` and `StoreReply` are a creation, `LockPersona` and
`CommitDelete` a deletion; they lock user and persona in opposite orders and
`AbortDeadlocked` is Postgres's choice of a victim. `WriteFile`, `SetPath`,
`RemoveOrphan`, `FindPath`, `ClearPath`, `RemoveAvatar` are the avatar's file and
column. `SpawnRemoval` is what `delete_persona` does after its commit and the
audit entry it awaits: a handler dropped there loses the removal. `EraseAvatar` is
`run_user_delete`, which removes the avatars (`worker.rs:538-548`) before a DELETE
that mostly leaves the rows. `HandlerDies` and `Crash` end any of them.

### Profiles — what is stored last

A profile is the set of documents whose chunks it was computed from. A run
(`Begin`, reading a scope, `Upsert`, `UpsertFails`) goes era by era and then over
the whole persona; `DeleteDocument` and `DeleteEra` enqueue nothing; `DeletePersona` takes all of it
along and leaves a run under way with nothing to write to (`live` is what of the
persona and its eras still exists); a reader takes three statements. `missed` and `overtaken` are the histories of the two ways a
profile becomes stale. `Ledger` reads `JobLedger` off the jobs: queued and running
ones are pending, and the running ones are active.

### Exports — archives

Two checks and an INSERT (`request_export`), an execution that reads persona by
persona and writes at the end, a status poll that marks a job whose file is
gone, the weekly removal of archives, an administrator's retry and cancel, and
an account deletion that removes the user's directory. `straddled`, `holes`,
`raced` and `retried` record what the properties except.

## 4. Runs

Each run is the smallest instance in which its races can happen. `Budget` bounds
disturbances (crashes, failing statements, clients that leave) and nothing else
is bounded, but for `sessions`: seven requests in every order are out of reach, so
its CONSTRAINT explores every behaviour of at most five of them, of which one
that is cut short, or a logout that fails, counts for two more. The other runs
explore their instances in full. Deadlock checking is off everywhere: a system
with no request left stops.

| Run | Instance and bounds | Shows |
|---|---|---|
| `queue_faulty` | an ingest job, an export and an account deletion of one user with one persona, two workers, two attempts; a crash, a retry, and any cascade or poll | ownership, counting of executions, finality of done but for cascades and polls, and that the queue implements `JobLedger`, while heartbeats do not lapse |
| `queue_live` | two ingest jobs of one persona, which may be deleted, a cap of one, two workers; a crash, a failing statement, a lapsed heartbeat (fair) | exclusive picking, recoverability, no early give-up, every job ends, a failure reaches its document |
| `ingest_troubles` | three jobs, two reingests, two batches, two attempts, text and audio; any two disturbances, the deletion of the document or its persona among them (fair) | done is searchable, deleted is empty, verdicts agree, nothing is stranded without an interruption, every job settles its document |
| `storage` | three uploads, two of one file and all with one key, one persona, a quota of two documents and two bytes; one disturbance (fair) | counters accounted for, quota kept, files lost only to the sweep or the account's removal, no file without row, leftovers removed |
| `generation` | two creations and three posts of one user under one key, two permits, one slot; one disturbance (fair) | slots accounted for, repeats add nothing, answers written, every request ends, and both handlers implement `Idempotency` |
| `sessions` | two logins, two resets of one token, a revocation, a visit, an account deletion, a limit of one failure; one request cut short | single use, bounded guesses, what a reset and a revocation reach |
| `accounts` | two acceptances of one invite, two administrators, a patch; one disturbance | one account per invite, none from a revoked one, how administrators run out |
| `personas` | a persona, three creations (two of one name) under a quota of two, a rename, two deletions, two avatar uploads, a removal; one disturbance | the counter, the avatar files |
| `profiles` | a document in an era, two requested recomputes, a reader, the deletion of document, era or persona; one disturbance | a quiet profile is current, a final answer too |
| `exports` | two requests, a poll, two personas; two disturbances (fair) | one export at a time, complete archives, none outlives its account but for a race, all removed |

Two of everything are enough for a race between two; the third upload exhausts
the quota, the third post finds the permits taken, the third job is the one
after two reingests, and the third creation is the one the quota refuses.
`MaxAttempts` is 2 (3 in the code): a first and a last failure; the limit of
login failures is 1 (5 in the code) and the theorem covers every limit. Where a
run has one token, key or persona, the theorems cover any number. What a run
leaves out (in `queue_faulty` failing statements, which `queue_live` has, and in
`sessions` the behaviours of six and seven requests) the theorems about the same
properties include.

Two runs show where the code and the documents disagree:

| Run | Says | The code |
|---|---|---|
| `ingest_crash_duplicates` | sprint-03-ingestion.md:248: no duplicate chunks after a restart | a resumed execution inserts every chunk again |
| `accounts_deletion` | docs/07-data-lifecycle.md:50-51: the audit entries let go of the user; consistent within an hour | the foreign keys refuse the DELETE for every user with an audit entry or an invite, on every attempt |

The exceptions written into the properties are the places where the code keeps
less than one might expect, and each is needed:

* `FailureReachesDocument`: a crash or a failing statement between the two
  statements of a permanent failure leaves a failed job with a document in an
  intermediate status, for ever.
* `NoStrandedDocument`: the same, and an upload or a reingest interrupted before
  its job's INSERT, and a cancelled job, leave a document nothing moves on; so
  does a late progress write of an audio document.
* `ExecutorOwnsRow`, `DoneIsFinal`: a cascade removes a row under its executor, and
  a poll turns a done export into a failed one, which a retry executes again.
* `DoneIsSearchable`: a worker may begin the queued job between a reingest's
  guard and its DELETE. Undisturbed, the new job repairs what that loses; if a
  statement or a stage fails as well, a done document may lack chunks.
* `VerdictAgrees`: a retry, or a reingest, may complete before the old task's
  `failed` reaches the document, which then stays failed.
* `GivenUpOnlyAfterMaxStarts`: a retry resets the count under an execution that
  a lapsed heartbeat left behind.
* `CountersAreAccountedFor` counts `leaked`: a failing `create_dir_all`, a client
  that leaves after the reservation, and a deleted persona leave counts behind.
* `FileLostOnlyToSweepOrErasure` excepts `taken`: the nightly sweep compares file
  names with ids they never equal, and takes the files of live documents; and
  `run_user_delete` removes the directories before a DELETE that leaves the rows.
* `AvatarLostOnlyToLateRemovalOrErasure` excepts `lost`: the spawned removal of an
  older avatar takes a newer one, and `run_user_delete` takes any.
* `SlotsAreAccountedFor` counts `leaked`: the early returns between the counter
  and its guard.
* `OutdatedSessionOverlappedReset`, `LiveSessionIsIndexed`: a login that read the
  old password before a reset; a session stored while a revocation is between its
  statements, or stored again afterwards by its own request (`me`, or the rotation
  of "log out everywhere"); and `delete_account`, which empties the index and the
  password and leaves every stored session.
* `AdminsRunOutOnlyByPatchOrRace`: `patch_user` has no guard for the last
  administrator, and two deletions may both count two.
* `QuietProfileIsCurrent`: an older reading may overwrite a newer one, and a
  deletion recomputes nothing.
* `OneExportUnlessChecksOverlap`, `NoArchiveOutlivesAccount`: check-then-insert,
  and an execution that writes its archive after the deletion.

### Fairness

`run_worker` loops for ever and sleeps at most a second between polls, tokio
schedules every ready task, `run_reaper` ticks every minute, the cleanup runs
every night, and `scheduled_at` is reached by the clock: weak fairness on
picking, on each statement of a task or of a handler that has started, on
`BecomeDue`, `ExpireOrphan`, `Reap`, and on the sweeps. Requests need not arrive,
and nothing obliges a disturbance, a timeout or a client to leave. That a
statement, a parse or a model call returns at all is assumed: the code has no
time-out on them.

## 5. Proofs

Eight modules hold proofs, each about the module it is named after
(`PersonasProofs` also about `Profiles`, with which `Personas` shares no name), for
every value of the constants: any sets of jobs, workers, users, uploads or requests,
any caps, quotas and limits, any budget of disturbances. The assumptions are the
`ASSUME`s of those modules and no others; TLC evaluates them in every run. Two
theorems and a refinement of the queue assume in addition that no live worker's
heartbeat lapses (`Budget["lapse"] = 0`), which the code needs too.

* **`JobQueueProofs`.** `TypeCorrect` adds that a task which is not idle holds a
  row. `PickExclusion` argues with the row lock: whatever takes a row out of
  `queued` holds its lock, waits for it, or is the reaper, which only touches
  running rows. `RunningRowRecoverable`: owner and heartbeat are set with
  `running`. `CapOvershoot` counts, for each user, the running ingests plus the
  pickers between `PassCap` and their commit. `ExecInv` — an executed row is
  running, in its executor's name, with a fresh heartbeat, or was dropped under
  it; and it has one executor — carries
  `ExecutionIsExclusive`, `DoneStaysDone`, `AttemptsAreExact` (with the fact that
  what a task read at its pick is still the column's value) and
  `QueueImplementsLedger`, in which a task's end is the ledger's `End` because
  `ExecInv` makes it the only one, a cascade is `Drop` (of a job being executed, too),
  a poll `Withdraw`, and the end of an execution without a row an `Interrupt`.
  `NeverGivenUpEarly` needs no such assumption:
  without a retry, neither the column nor what a task read is ever ahead of the
  executions begun.
* **`IngestProofs`.** `Placed` ties each task to the ledger. `Attended`: whoever
  moved a text to an intermediate status, or somebody after him, still has to
  act (`TextsComeToRest`). `Verdict`: each status, and each notice that will
  become one, has its job (`StatusAgreesWithJobs`). `DoneMeansRetrievable` has
  two invariants, for its two cases: `Alone`, when the document was never
  reingested, so that its one job may be interrupted at will; and `Covered`,
  when nothing failed, so that every row without an embedding is on somebody's
  list or will be, and every request that removed rows still owes a job.
  `IngestKeepsTheLedger`: every step is one `JobLedger` allows, or none of it.
  The deletion of the persona ends all four at once: nothing is left to cover.
* **`StorageProofs`.** `CountInv`: an upload is counted for its row, its
  reservation or its loss, never for two of them (`CountersAreExact`), hence
  `QuotaIsKept`. Two more invariants about files say what each detached removal
  may take (`FilesAreLostOnlyToSweepOrErasure`) and who will remove a file without row
  (`FilesHaveRows`). The counters' arithmetic rests on lemmas about the
  cardinality of `BytesOf`. `UploadReplaysAreFaithful` is about the keys, and
  `UploadsKeepTheContract` maps each step, failures and crashes included, to one
  of `Idempotency` or to none.
* **`GenerationProofs`.** `AccountInv` with the kind of each request gives
  `SlotsAreNeverGivenBackTwice`; the keys give `RepeatsAddNothing` and
  `ReplaysAreFaithful`; `AnswersAreWritten`. `ChatsKeepTheContract` maps each step
  to one of `Idempotency`, the store of the detached task included, and a crash to
  the end of every request at once.
* **`SessionsProofs`.** The lock on a token's row from its use to its commit
  (`TokensAreSingleUse`); where a session is between index and store, with what
  each revocation has read and which request may store one again
  (`SessionsAreIndexed`); who changed the password last, a reset that will revoke
  or has, or the deletion that leaves what `departed` holds (`ResetsRevoke`); the
  guesses in
  the window plus the logins past the count (`GuessesStayBounded`).
* **`AccountsProofs`.** The lock on an invitation from `use_invite` to its commit
  (`InviteMakesOneAccount`, `RevokedInviteIsDead`); what a deletion that passed
  its count knows of the other administrators (`SomebodyAdministers`).
* **`PersonasProofs`.** The counter with what each open transaction will add or
  take, the locks as evidence (`CounterIsExact`); the
  avatars with the removals and uploads under way (`AvatarsAreThere`,
  `DeletedPersonasAreClean`). Of `Profiles`, `RunsInv` is the type invariant
  (`ProfilesTypeCorrect`) with the bound of the attempts and where a run is.
  `QuietProfileIsCurrent` speaks of states without a pending job and is far from
  inductive. `CoverInv` says it of every state: a document of a scope is in the
  scope's row, or some job will read it (it is queued, or is yet to read that
  scope), or has read it and not yet written; and the same of each reading that
  may still become the row. `GoneInv` is the converse: what a row or a reading
  holds is there, or a deletion is noted against it (`QuietProfilesAreCurrent`).
  `AnswerInv` carries what the reader's first statement saw to its last: an upsert
  in between only replaces the row by a reading that holds as much
  (`FinalAnswersAreCurrent`). `ProfilesKeepTheLedger` is the refinement.
* **`ExportsProofs`.** What a request between check and INSERT knows
  (`OneExportAtATime`), what an execution has read (`DoneArchivesAreComplete`),
  and who was under way when the directory went (`DeletedAccountLeavesNoArchive`).

The refinements are layered: while heartbeats do not lapse, the table with all
its writers, cascades and polls included, implements `JobLedger`; `Ingest` and
`Profiles`, which have the ledger's actions or their equal in place of workers
and reaper, stay within it, with the deletion of the persona as its `Drop`.
`Exports` and `Accounts` have the queue's statements for their one kind of job
written out and are not mapped to it. `Personas` keeps the key of a creation
without expiry, so it is not mapped to `Idempotency`.

Only model-checked: liveness under fairness (`EveryJobSettles`,
`FailureReachesDocument`, `EveryJobSettlesDocument`, `LeftoversAreRemoved`,
`EveryRequestEnds`, `ArchivesAreRemoved`), which is out of the prover's reach. Every
invariant and every other property of a passing run is a theorem. Proved, and
checked by no run since they say least new there or cost most: the type
invariants, `CapOvershoot`, the two theorems on replays,
`IngestKeepsTheLedger`, `ProfilesKeepTheLedger`, and `UploadsKeepTheContract`
(`storage` is the longest run beside its liveness property).

## 6. Observations

Met while translating the code, and not shown by a run of their own:

* Three workers of one user may pass the cap's COUNT together
  (`worker.rs:85`; sprint-03-ingestion.md:247 expects at most three); the bound
  they keep is `CapOvershoot`.
* A job whose every execution is interrupted is requeued by the reaper whatever
  its count (`worker.rs:585`; sprint-03-ingestion.md:95).
* The nightly sweep removes the files of live documents (above;
  sprint-07-polish-deploy.md:272), and `.tmp` is walked like a persona.
* The per-user slot leaks on the early returns of `chat.rs:358-378`
  (sprint-05-chat-rag.md:263). One idempotency key spans all of a user's
  sessions, and two overlapping requests with one key both do their work.
* A response 24 hours old that the nightly cleanup has not reached is ignored by
  `check`, yet `store`'s `ON CONFLICT DO NOTHING` keeps it: the request that works
  in its place is not stored, and its repeat works again (`idempotency.rs:69-72`).
* `fetch_era` (`chat.rs:652-666`) selects `eras.updated_at`, which the migration
  does not have, and swallows the error: no era ever reaches a prompt. In the
  same way `run_user_export` selects columns of `style_profiles` that do not
  exist (`worker.rs:321-325`): exported profiles are always empty.
* The coalescing index compares `payload->>'era_id'`, NULL for a persona-wide
  job, so that nothing is ever coalesced (sprint-04); deleting a document
  enqueues no recompute, and deleting an era's last one leaves its profile.
* `patch_user` may re-enable an account that is being deleted; a crash between
  anonymising and enqueueing strands it; disabling a user leaves his sessions, and
  so does `delete_account` (`data_rights.rs:323-331` removes their index only): if
  the account is enabled again they work, without being in the index.
* Since the DELETE of a user with an audit entry is refused (`accounts_deletion`),
  what `run_user_delete` does before it, removing uploads and avatars, is done on
  each attempt and not undone: documents and personas stay without their files.
* A persona deleted while its jobs run leaves their executors without rows: they
  end on a foreign key or at a write-back that finds nothing, and log it.
* The `Idempotency-Key` of an export request is ignored (sprint-07:309);
  transcripts are not removed with an account.

## 7. Not modelled

* Text parsing, chunking, embedding, language detection, the analysis formulas,
  retrieval and prompt assembly: functions without state, mostly over text and
  floating-point numbers. The pipeline takes their success and their failure.
* Providers and their configuration, e-mail, HTTP, cookies and CSRF, start-up:
  I/O and wiring. The event stream repeats statuses the model has.
* Era and persona edits (`patch_era` is one UPDATE of the columns it is given,
  `eras.rs:134-152`), the read-only pages of the
  administration, chat export and health: single statements or reads.
* The transcript file: this build's transcriber never produces one.
* The frontend keeps no state the server relies on.
* Lapsed heartbeats in `Ingest`, `Exports`, `Profiles` and `Accounts`: their jobs
  have one execution at a time, which is what `JobQueue` proves without lapses.
