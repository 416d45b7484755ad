------------------------------ MODULE JobQueue ------------------------------
(***************************************************************************)
(* The background job queue: the rows of the `jobs` table, the pool of     *)
(* worker tasks that polls it with SELECT ... FOR UPDATE SKIP LOCKED, the  *)
(* heartbeat and the reaper (services/worker.rs), the administrator's      *)
(* retry and cancel (routes/admin.rs), the reingest handler's DELETE       *)
(* (routes/documents.rs), the export poll (routes/data_rights.rs), the     *)
(* daily prune (services/cleanup.rs), and the ON DELETE CASCADE by which   *)
(* the deletion of a persona or of a user takes their jobs with it. The    *)
(* writers of jobs.payload (an export's progress and expiry) are left out. *)
(*                                                                         *)
(* Every SQL statement or transaction of the code is one step; a worker    *)
(* task may be preempted, and the whole process may stop, between any two. *)
(* Time is abstract: a queued row is either due (scheduled_at <= now()) or *)
(* delayed, a heartbeat is either fresh or older than the reaper's two     *)
(* minutes.                                                                *)
(***************************************************************************)
EXTENDS Integers, Sequences, FiniteSets

CONSTANTS
  Jobs,         \* primary keys of the rows that are ever inserted
  IngestJobs,   \* those of kind 'ingest_document'
  Exports,      \* those of kind 'user_export'
  Deletions,    \* those of kind 'user_delete'
  Users,
  UserOf,       \* the column jobs.user_id
  Personas,
  PersonaOf,    \* the column jobs.persona_id, NoPersona for NULL
  Workers,      \* the worker tasks of start_workers
  Cap,          \* MAX_CONCURRENT_INGEST_PER_USER
  MaxAttempts,  \* MAX_ATTEMPTS
  Budget,       \* bound on each kind of disturbance
  NoJob,
  NoWorker,
  NoPersona

(***************************************************************************)
(* What may go wrong, and how often, is a parameter: the process stops and *)
(* restarts; a live worker's heartbeat falls two minutes behind (SIGSTOP,  *)
(* a suspended machine, an unreachable database); a statement fails; an    *)
(* administrator retries a failed job.                                     *)
(***************************************************************************)
Disturbances == {"crash", "lapse", "dbError", "retry"}

ASSUME JobsAssumption ==
  /\ IngestJobs \subseteq Jobs /\ Exports \subseteq Jobs /\ Deletions \subseteq Jobs
  /\ IngestJobs \intersect (Exports \union Deletions) = {}
  /\ UserOf \in [Jobs -> Users]
  /\ PersonaOf \in [Jobs -> Personas \union {NoPersona}]
  /\ NoPersona \notin Personas
  /\ NoJob \notin Jobs
  /\ NoWorker \notin Workers
ASSUME PoolAssumption == IsFiniteSet(Workers) /\ IsFiniteSet(Jobs)
ASSUME CapAssumption == Cap \in Nat \ {0}
ASSUME AttemptsAssumption == MaxAttempts \in Nat \ {0}
ASSUME BudgetAssumption == Budget \in [Disturbances -> Nat]

VARIABLES
  status,     \* jobs.status, and the rows that are not there (see Status)
  attempts,   \* jobs.attempts
  workerId,   \* jobs.worker_id, NoWorker for NULL
  heartbeat,  \* jobs.heartbeat_at: NULL, recent, or older than two minutes
  ready,      \* the rows that are due, by scheduled_at; the queued ones count
  delayed,    \* the queued rows whose scheduled_at is in the future
  pc,         \* where each worker task is
  cur,        \* the row a worker holds (JobRow.id)
  snap,       \* the attempts it read when it picked it (JobRow.attempts)
  docFailed,  \* the ingest jobs whose document shows status 'failed'
  starts,     \* history: executions begun since the last INSERT or retry
  spent       \* history: disturbances so far

rowVars  == <<status, attempts, workerId, heartbeat>>
dueVars  == <<ready, delayed>>
taskVars == <<pc, cur, snap>>
vars     == <<rowVars, dueVars, taskVars, docFailed, starts, spent>>

\* "new" before the INSERT, "gone" after a DELETE, "dropped" after the DELETE of
\* the persona or the user the row refers to, which also refuses its INSERT.
\* "missing" is the 'failed' of an export that was done but has lost its file.
Status == {"new", "queued", "running", "done", "failed", "missing", "gone", "dropped"}
Pc     == {"idle", "locked", "marking", "starting", "executing", "notifying"}

TypeOK ==
  /\ status \in [Jobs -> Status]
  /\ attempts \in [Jobs -> Nat]
  /\ workerId \in [Jobs -> Workers \union {NoWorker}]
  /\ heartbeat \in [Jobs -> {"null", "fresh", "stale"}]
  /\ ready \in Seq(Jobs)
  /\ delayed \in SUBSET Jobs
  /\ pc \in [Workers -> Pc]
  /\ cur \in [Workers -> Jobs \union {NoJob}]
  /\ snap \in [Workers -> Nat]
  /\ docFailed \in SUBSET IngestJobs
  /\ starts \in [Jobs -> Nat]
  /\ spent \in [Disturbances -> Nat]

-----------------------------------------------------------------------------
(* Rows, locks and disturbances.                                           *)

Exists(j) == status[j] \notin {"new", "gone", "dropped"}

\* A transaction of pick_job is open on row j.
LockedRows == {cur[w] : w \in {v \in Workers : pc[v] \in {"locked", "marking"}}}

\* execute_job is running j in task w: its heartbeat task is alive.
Executing(w, j) == pc[w] \in {"starting", "executing"} /\ cur[w] = j

RunningIngest(u) ==
  {j \in IngestJobs : status[j] = "running" /\ UserOf[j] = u}

\* The ordering s with row j taken out of it.
Without(s, j) ==
  IF \E i \in DOMAIN s : s[i] = j
    THEN LET i == CHOOSE k \in DOMAIN s : s[k] = j
         IN  SubSeq(s, 1, i - 1) \o SubSeq(s, i + 1, Len(s))
    ELSE s

Leave(j) == ready' = Without(ready, j) /\ delayed' = delayed \ {j}

GoTo(w, label) == pc' = [pc EXCEPT ![w] = label]

Release(w) ==
  /\ pc' = [pc EXCEPT ![w] = "idle"]
  /\ cur' = [cur EXCEPT ![w] = NoJob]
  /\ snap' = [snap EXCEPT ![w] = 0]

Spend(d) == spent[d] < Budget[d] /\ spent' = [spent EXCEPT ![d] = @ + 1]

Init ==
  /\ status = [j \in Jobs |-> "new"]
  /\ attempts = [j \in Jobs |-> 0]
  /\ workerId = [j \in Jobs |-> NoWorker]
  /\ heartbeat = [j \in Jobs |-> "null"]
  /\ ready = <<>>
  /\ delayed = {}
  /\ pc = [w \in Workers |-> "idle"]
  /\ cur = [w \in Workers |-> NoJob]
  /\ snap = [w \in Workers |-> 0]
  /\ docFailed = {}
  /\ starts = [j \in Jobs |-> 0]
  /\ spent = [d \in Disturbances |-> 0]

-----------------------------------------------------------------------------
(* Enqueueing, and the passage of time.                                    *)

\* INSERT INTO jobs: status 'queued', attempts 0, scheduled_at now().
Enqueue(j) ==
  /\ status[j] = "new"
  /\ status' = [status EXCEPT ![j] = "queued"]
  /\ ready' = Append(ready, j)
  /\ UNCHANGED <<attempts, workerId, heartbeat, delayed, taskVars, docFailed,
                 starts, spent>>

\* The scheduled_at of a delayed row is reached: it is the latest due one.
BecomeDue(j) ==
  /\ j \in delayed
  /\ delayed' = delayed \ {j}
  /\ ready' = Append(ready, j)
  /\ UNCHANGED <<rowVars, taskVars, docFailed, starts, spent>>

-----------------------------------------------------------------------------
(* pick_job: one transaction, three statements.                            *)

\* A due queued row that no other transaction has locked; the earliest is taken.
Pickable(i) ==
  /\ status[ready[i]] = "queued"
  /\ ready[i] \notin LockedRows

PickLock(w) ==
  /\ pc[w] = "idle"
  /\ \E i \in DOMAIN ready :
       /\ Pickable(i)
       /\ \A k \in 1 .. i - 1 : ~Pickable(k)
       /\ cur' = [cur EXCEPT ![w] = ready[i]]
       /\ snap' = [snap EXCEPT ![w] = attempts[ready[i]]]
  /\ GoTo(w, "locked")
  /\ UNCHANGED <<rowVars, dueVars, docFailed, starts, spent>>

AtCap(j) ==
  /\ j \in IngestJobs
  /\ Cardinality(RunningIngest(UserOf[j])) >= Cap

\* The COUNT is at the cap: reschedule in five seconds, commit, return None.
DeferForCap(w) ==
  /\ pc[w] = "locked"
  /\ AtCap(cur[w])
  /\ ready' = Without(ready, cur[w])
  /\ delayed' = delayed \union {cur[w]}
  /\ Release(w)
  /\ UNCHANGED <<rowVars, docFailed, starts, spent>>

\* The COUNT is below the cap, or the job is of another kind.
PassCap(w) ==
  /\ pc[w] = "locked"
  /\ ~AtCap(cur[w])
  /\ GoTo(w, "marking")
  /\ UNCHANGED <<rowVars, dueVars, cur, snap, docFailed, starts, spent>>

SetRunningNoHeartbeat(j, w) ==                   \* variant: heartbeat_at not set
  /\ status' = [status EXCEPT ![j] = "running"]
  /\ workerId' = [workerId EXCEPT ![j] = w]
  /\ UNCHANGED heartbeat

SetRunning(j, w) ==
  /\ status' = [status EXCEPT ![j] = "running"]
  /\ workerId' = [workerId EXCEPT ![j] = w]
  /\ heartbeat' = [heartbeat EXCEPT ![j] = "fresh"]

\* UPDATE ... SET status='running' and COMMIT; execute_job begins.
MarkRunning(w) ==
  LET j == cur[w] IN
  /\ pc[w] = "marking"
  /\ SetRunning(j, w)
  /\ Leave(j)
  /\ GoTo(w, IF j \in IngestJobs THEN "starting" ELSE "executing")
  /\ starts' = [starts EXCEPT ![j] = @ + 1]
  /\ UNCHANGED <<attempts, cur, snap, docFailed, spent>>

\* A statement of the transaction fails: rollback, sleep, poll again.
PickAborts(w) ==
  /\ pc[w] \in {"locked", "marking"}
  /\ Spend("dbError")
  /\ Release(w)
  /\ UNCHANGED <<rowVars, dueVars, docFailed, starts>>

-----------------------------------------------------------------------------
(* execute_job: dispatch, heartbeat, and the write-back of the result.     *)

\* dispatch has found the document and written its first status.
StartDispatch(w) ==
  /\ pc[w] = "starting"
  /\ status[cur[w]] # "dropped"
  /\ GoTo(w, "executing")
  /\ docFailed' = docFailed \ {cur[w]}
  /\ UNCHANGED <<rowVars, dueVars, cur, snap, starts, spent>>

\* The heartbeat task of w: it touches the row only while it is running.
Heartbeat(w) ==
  /\ pc[w] \in {"starting", "executing"}
  /\ status[cur[w]] = "running"
  /\ heartbeat' = [heartbeat EXCEPT ![cur[w]] = "fresh"]
  /\ UNCHANGED <<status, attempts, workerId, dueVars, taskVars, docFailed,
                 starts, spent>>

\* UPDATE jobs SET status=st, attempts=n, worker_id=NULL WHERE id=j: it waits
\* for a row lock, and finds no row once j is gone. A row written as queued
\* is delayed by the backoff.
WriteBack(j, st, n) ==
  /\ j \notin LockedRows
  /\ IF Exists(j)
       THEN /\ status' = [status EXCEPT ![j] = st]
            /\ attempts' = [attempts EXCEPT ![j] = n]
            /\ workerId' = [workerId EXCEPT ![j] = NoWorker]
            /\ ready' = Without(ready, j)
            /\ delayed' = IF st = "queued" THEN delayed \union {j}
                                           ELSE delayed \ {j}
       ELSE UNCHANGED <<status, attempts, workerId, dueVars>>
  /\ UNCHANGED heartbeat

\* dispatch returned Ok: status 'done', whoever owns the row by now.
Complete(w) ==
  /\ pc[w] = "executing"
  /\ WriteBack(cur[w], "done", attempts[cur[w]])
  /\ Release(w)
  /\ UNCHANGED <<docFailed, starts, spent>>

ExhaustedEarly(w) == snap[w] + 1 >= MaxAttempts - 1     \* variant: off by one

\* The failure at hand uses up the attempts, counted from the value read when
\* the row was picked.
Exhausted(w) == snap[w] + 1 >= MaxAttempts

FailAndRequeueUncounted(w) ==                 \* variant: attempts not incremented
  /\ pc[w] \in {"starting", "executing"}
  /\ ~Exhausted(w)
  /\ WriteBack(cur[w], "queued", snap[w])
  /\ Release(w)
  /\ UNCHANGED <<docFailed, starts, spent>>

\* dispatch returned Err and attempts are left: back to the queue.
FailAndRequeue(w) ==
  /\ pc[w] \in {"starting", "executing"}
  /\ ~Exhausted(w)
  /\ WriteBack(cur[w], "queued", snap[w] + 1)
  /\ Release(w)
  /\ UNCHANGED <<docFailed, starts, spent>>

AfterFailureSilently(w) == Release(w)        \* variant: document left as it is

\* After a permanent failure the document of an ingest job is still to mark.
AfterFailure(w) ==
  IF cur[w] \in IngestJobs
    THEN GoTo(w, "notifying") /\ UNCHANGED <<cur, snap>>
    ELSE Release(w)

\* dispatch returned Err on the last attempt.
FailForGood(w) ==
  /\ pc[w] \in {"starting", "executing"}
  /\ Exhausted(w)
  /\ WriteBack(cur[w], "failed", snap[w] + 1)
  /\ AfterFailure(w)
  /\ UNCHANGED <<docFailed, starts, spent>>

\* The write-back fails: the error is logged or dropped and the row stays as
\* it was, with nobody to heartbeat for it. A permanent failure goes on to
\* mark the document all the same.
LoseWriteBack(w) ==
  /\ pc[w] \in {"starting", "executing"}
  /\ Spend("dbError")
  /\ \/ Release(w)
     \/ Exhausted(w) /\ AfterFailure(w)
  /\ UNCHANGED <<rowVars, dueVars, docFailed, starts>>

\* doc_repo::update_status(doc, "failed"), a second statement, which finds no
\* document when its persona is gone.
NotifyDocument(w) ==
  /\ pc[w] = "notifying"
  /\ docFailed' = IF status[cur[w]] = "dropped" THEN docFailed
                                               ELSE docFailed \union {cur[w]}
  /\ Release(w)
  /\ UNCHANGED <<rowVars, dueVars, starts, spent>>

\* ... whose error is ignored.
LoseNotification(w) ==
  /\ pc[w] = "notifying"
  /\ Spend("dbError")
  /\ Release(w)
  /\ UNCHANGED <<rowVars, dueVars, docFailed, starts>>

-----------------------------------------------------------------------------
(* Heartbeats that expire, the reaper, and the death of the process.       *)

\* Two minutes without a heartbeat: nobody executes the row any more, ...
ExpireOrphan(j) ==
  /\ status[j] = "running" /\ heartbeat[j] = "fresh"
  /\ \A w \in Workers : ~Executing(w, j)
  /\ heartbeat' = [heartbeat EXCEPT ![j] = "stale"]
  /\ UNCHANGED <<status, attempts, workerId, dueVars, taskVars, docFailed,
                 starts, spent>>

\* ... or the process was suspended or cut off from the database.
ExpireLive(j) ==
  /\ status[j] = "running" /\ heartbeat[j] = "fresh"
  /\ \E w \in Workers : Executing(w, j)
  /\ Spend("lapse")
  /\ heartbeat' = [heartbeat EXCEPT ![j] = "stale"]
  /\ UNCHANGED <<status, attempts, workerId, dueVars, taskVars, docFailed,
                 starts>>

ExpiredByStatus == {j \in Jobs : status[j] = "running"}  \* variant: no heartbeat test

ExpiredWithAttemptsLeft ==                   \* variant: the last attempt is not reaped
  {j \in Jobs : /\ status[j] = "running" /\ heartbeat[j] = "stale"
                /\ attempts[j] + 1 < MaxAttempts}

Expired == {j \in Jobs : status[j] = "running" /\ heartbeat[j] = "stale"}

\* run_reaper: one UPDATE over every expired row.
Reap ==
  /\ Expired # {}
  /\ status' = [j \in Jobs |-> IF j \in Expired THEN "queued" ELSE status[j]]
  /\ attempts' = [j \in Jobs |->
                    IF j \in Expired THEN attempts[j] + 1 ELSE attempts[j]]
  /\ workerId' = [j \in Jobs |->
                    IF j \in Expired THEN NoWorker ELSE workerId[j]]
  /\ heartbeat' = [j \in Jobs |->
                    IF j \in Expired THEN "null" ELSE heartbeat[j]]
  /\ delayed' = delayed \union Expired
  /\ UNCHANGED <<ready, taskVars, docFailed, starts, spent>>

\* The process stops and start_workers runs again: open transactions roll
\* back, the heartbeat tasks are gone, running rows stay running.
Restart ==
  /\ Spend("crash")
  /\ pc' = [w \in Workers |-> "idle"]
  /\ cur' = [w \in Workers |-> NoJob]
  /\ snap' = [w \in Workers |-> 0]
  /\ UNCHANGED <<rowVars, dueVars, docFailed, starts>>

-----------------------------------------------------------------------------
(* The requests and the daily cleanup that write the table.                *)

\* attempts back to 0, scheduled_at now(); the heartbeat and the document are
\* left as they were.
RequeueForRetry(j) ==
  /\ Spend("retry")
  /\ status' = [status EXCEPT ![j] = "queued"]
  /\ attempts' = [attempts EXCEPT ![j] = 0]
  /\ workerId' = [workerId EXCEPT ![j] = NoWorker]
  /\ ready' = Append(ready, j)
  /\ starts' = [starts EXCEPT ![j] = 0]
  /\ UNCHANGED <<heartbeat, delayed, taskVars, docFailed>>

RetryEnded(j) ==                                  \* variant: done jobs too
  status[j] \in {"done", "failed", "missing"} /\ RequeueForRetry(j)

\* retry_job: UPDATE ... WHERE status='failed'.
RetryJob(j) == status[j] \in {"failed", "missing"} /\ RequeueForRetry(j)

DeleteLockedRow(j) ==                             \* variant: no row lock respected
  /\ status' = [status EXCEPT ![j] = "gone"]
  /\ Leave(j)
  /\ UNCHANGED <<attempts, workerId, heartbeat, taskVars, docFailed, starts,
                 spent>>

DeleteRow(j) ==
  /\ j \notin LockedRows
  /\ status' = [status EXCEPT ![j] = "gone"]
  /\ Leave(j)
  /\ UNCHANGED <<attempts, workerId, heartbeat, taskVars, docFailed, starts,
                 spent>>

CancelAny(j) == Exists(j) /\ DeleteRow(j)        \* variant: no status in the WHERE

\* cancel_job: DELETE ... WHERE status='queued'.
CancelJob(j) == status[j] = "queued" /\ DeleteRow(j)

\* reingest_document: DELETE of the document's queued and failed jobs.
DiscardForReingest(j) ==
  /\ j \in IngestJobs
  /\ status[j] \in {"queued", "failed"}
  /\ DeleteRow(j)

\* run_cleanup: DELETE of rows that ended 30 days ago, long after any task
\* that executed them.
PruneFinished(j) ==
  /\ status[j] \in {"done", "failed", "missing"}
  /\ \A w \in Workers : cur[w] # j
  /\ DeleteRow(j)

\* get_export_status finds no file for a done export: UPDATE ... SET
\* status='failed' WHERE status='done'.
MarkMissing(j) ==
  /\ j \in Exports
  /\ status[j] = "done"
  /\ status' = [status EXCEPT ![j] = "missing"]
  /\ UNCHANGED <<attempts, workerId, heartbeat, dueVars, taskVars, docFailed,
                 starts, spent>>

-----------------------------------------------------------------------------
(* The rows a persona or a user owns go with it, whatever their status: a  *)
(* task that executes one of them goes on without a row. The cascade waits *)
(* for the row locks of open pick_job transactions.                        *)

JobsOfPersona(p) == {j \in Jobs : PersonaOf[j] = p}
JobsOfUser(u)    == {j \in Jobs : UserOf[j] = u}

Cascade(S) ==
  /\ S \intersect LockedRows = {}
  /\ status' = [j \in Jobs |-> IF j \in S THEN "dropped" ELSE status[j]]
  /\ workerId' = [j \in Jobs |-> IF j \in S THEN NoWorker ELSE workerId[j]]
  /\ heartbeat' = [j \in Jobs |-> IF j \in S THEN "null" ELSE heartbeat[j]]
  /\ delayed' = delayed \ S
  /\ docFailed' = docFailed \ S
  /\ UNCHANGED <<attempts, ready, taskVars, starts, spent>>

\* delete_persona.
DeletePersona(p) == Cascade(JobsOfPersona(p))

\* run_user_delete: DELETE FROM users, its own row included.
DeleteUser(w) ==
  /\ pc[w] = "executing" /\ cur[w] \in Deletions
  /\ Cascade(JobsOfUser(UserOf[cur[w]]))

-----------------------------------------------------------------------------
EndRun(w) == Complete(w) \/ FailAndRequeue(w) \/ FailForGood(w) \/ LoseWriteBack(w)

Work(w) ==
  \/ PickLock(w) \/ DeferForCap(w) \/ PassCap(w) \/ MarkRunning(w)
  \/ PickAborts(w) \/ StartDispatch(w) \/ Heartbeat(w)
  \/ Complete(w) \/ FailAndRequeue(w) \/ FailForGood(w) \/ LoseWriteBack(w)
  \/ NotifyDocument(w) \/ LoseNotification(w) \/ DeleteUser(w)

Row(j) ==
  \/ Enqueue(j) \/ BecomeDue(j) \/ ExpireOrphan(j) \/ ExpireLive(j)
  \/ RetryJob(j) \/ CancelJob(j) \/ DiscardForReingest(j) \/ PruneFinished(j)
  \/ MarkMissing(j)

Next ==
  \/ \E w \in Workers : Work(w)
  \/ \E j \in Jobs : Row(j)
  \/ \E p \in Personas : DeletePersona(p)
  \/ Reap \/ Restart

Spec == Init /\ [][Next]_vars

(***************************************************************************)
(* Worker tasks loop for ever and dispatch returns; time passes; the       *)
(* reaper ticks. Nobody is obliged to enqueue, retry, cancel, poll, delete *)
(* or prune, and nothing is obliged to go wrong.                           *)
(***************************************************************************)
Fairness ==
  /\ \A w \in Workers :
       /\ WF_vars(PickLock(w))
       /\ WF_vars(DeferForCap(w) \/ PassCap(w))
       /\ WF_vars(MarkRunning(w))
       /\ WF_vars(StartDispatch(w))
       /\ WF_vars(EndRun(w))
       /\ WF_vars(NotifyDocument(w))
  /\ \A j \in Jobs : WF_vars(BecomeDue(j)) /\ WF_vars(ExpireOrphan(j))
  /\ WF_vars(Reap)

FairSpec == Spec /\ Fairness

-----------------------------------------------------------------------------
(* Properties that hold whatever the disturbances.                         *)

\* FOR UPDATE SKIP LOCKED: two open pick_job transactions never hold the same
\* row, and the row each holds is still queued when it is marked running,
\* whatever cancel_job, reingest, the reaper and late write-backs do meanwhile.
PickIsExclusive ==
  \A w \in Workers : pc[w] \in {"locked", "marking"} =>
    /\ status[cur[w]] = "queued"
    /\ \A v \in Workers : pc[v] \in {"locked", "marking"} /\ cur[v] = cur[w] => v = w

\* worker_id is set exactly while the row is running, and a running row always
\* carries a heartbeat_at: with a NULL the reaper's comparison would never
\* select it and the job would be lost.
RunningRowIsRecoverable ==
  \A j \in Jobs :
    /\ (workerId[j] # NoWorker) <=> (status[j] = "running")
    /\ (status[j] = "running") => (heartbeat[j] # "null")

\* The COUNT of the ingest cap is read before the row is marked, so several
\* pickers may pass it together; but a user never has more running ingest
\* rows than the cap allows one picker, plus one per other worker.
CapOvershootIsBounded ==
  \A u \in Users : Cardinality(RunningIngest(u)) <= Cap - 1 + Cardinality(Workers)

\* Every queued or running job ends: despite crashes, expired heartbeats,
\* deferrals at the cap and lost write-backs, no job stays queued or running.
EveryJobSettles ==
  \A j \in Jobs : status[j] \in {"queued", "running"}
                    ~> status[j] \notin {"queued", "running"}

-----------------------------------------------------------------------------
(* Properties that rest on a heartbeat which never lapses while its worker *)
(* lives (Budget.lapse = 0).                                               *)

\* A task executes a job only while the row is running in its name, or after the
\* row went with its persona or its user: no reaped, cancelled or finished job is
\* executed behind the table's back. And no two tasks execute one job, also when
\* it has no row any more.
ExecutorOwnsRow ==
  \A w \in Workers, j \in Jobs : Executing(w, j) =>
    /\ \/ status[j] = "running" /\ workerId[j] = w
       \/ status[j] = "dropped"
    /\ \A v \in Workers : Executing(v, j) => v = w

\* A job that is done stays done until it is pruned or goes with its owner: no
\* late write-back, reaper or retry makes it run again. Only an export may turn
\* to failed, when a poll finds its file missing.
DoneIsFinal ==
  [][\A j \in Jobs : status[j] = "done" =>
       \/ status'[j] \in {"done", "gone", "dropped"}
       \/ j \in Exports /\ status'[j] = "missing"]_vars

\* The attempts column counts executions: each one that began and was cut
\* short or failed is counted exactly once, by its worker or by the reaper.
AttemptsCountStarts ==
  \A j \in Jobs : Exists(j) =>
    starts[j] = attempts[j]
                  + (IF status[j] \in {"running", "done", "missing"} THEN 1 ELSE 0)

\* A job is given up only after MaxAttempts executions have really begun, even
\* if its heartbeat lapses and two tasks fail on it; only a retry, which starts
\* the count again while an old execution may still be running, can undercut it.
GivenUpOnlyAfterMaxStarts ==
  spent["retry"] = 0 =>
    \A j \in Jobs : status[j] = "failed" => starts[j] >= MaxAttempts

\* Seen from outside, the queue is the ledger of JobLedger.
LedgerOutcome ==
  [j \in Jobs |-> CASE status[j] = "new" -> "absent"
                    [] status[j] \in {"queued", "running"} -> "pending"
                    [] status[j] = "missing" -> "failed"
                    [] status[j] = "gone" -> "removed"
                    [] OTHER -> status[j]]

LedgerActive == {j \in Jobs : \E w \in Workers : Executing(w, j)}

Owned == {JobsOfPersona(p) : p \in Personas} \union {JobsOfUser(u) : u \in Users}

Ledger == INSTANCE JobLedger
            WITH Revocable <- Exports, outcome <- LedgerOutcome, active <- LedgerActive

\* Every step of the table, the workers, the reaper, the administrators and the
\* cascades is a step of the ledger or invisible in it.
ImplementsLedger == Ledger!Spec

\* A permanent failure of an ingest job becomes visible on its document, unless
\* the process stopped or a statement failed in between: nothing revisits it.
FailureReachesDocument ==
  \A j \in IngestJobs :
    status[j] = "failed" ~> \/ j \in docFailed \/ status[j] # "failed"
                            \/ spent["crash"] > 0 \/ spent["dbError"] > 0
=============================================================================
