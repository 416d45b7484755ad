--------------------------- MODULE JobQueueProofs ---------------------------
(***************************************************************************)
(* Theorems about JobQueue, for every set of jobs and workers, every cap   *)
(* and every budget of disturbances.                                       *)
(***************************************************************************)
EXTENDS JobQueue, FiniteSetTheorems, TLAPS

(***************************************************************************)
(* Removing a row from the schedule leaves a sequence of rows.             *)
(***************************************************************************)
LEMMA WithoutIsSeq ==
  ASSUME NEW s \in Seq(Jobs), NEW j
  PROVE  Without(s, j) \in Seq(Jobs)
<1>1. CASE \E i \in DOMAIN s : s[i] = j
  <2>1. PICK i \in DOMAIN s : i = CHOOSE k \in DOMAIN s : s[k] = j
    BY <1>1
  <2>2. /\ SubSeq(s, 1, i - 1) \in Seq(Jobs)
        /\ SubSeq(s, i + 1, Len(s)) \in Seq(Jobs)
    OBVIOUS
  <2>3. Without(s, j) = SubSeq(s, 1, i - 1) \o SubSeq(s, i + 1, Len(s))
    BY <1>1, <2>1 DEF Without
  <2>4. QED
    BY <2>2, <2>3
<1>2. CASE ~ \E i \in DOMAIN s : s[i] = j
  BY <1>2 DEF Without
<1>3. QED
  BY <1>1, <1>2

LEMMA WriteBackType ==
  ASSUME TypeOK, NEW j \in Jobs, NEW st \in {"queued", "done", "failed"},
         NEW n \in Nat, WriteBack(j, st, n)
  PROVE  /\ status' \in [Jobs -> Status]
         /\ attempts' \in [Jobs -> Nat]
         /\ workerId' \in [Jobs -> Workers \union {NoWorker}]
         /\ heartbeat' \in [Jobs -> {"null", "fresh", "stale"}]
         /\ ready' \in Seq(Jobs)
         /\ delayed' \in SUBSET Jobs
<1>1. Without(ready, j) \in Seq(Jobs)
  BY WithoutIsSeq DEF TypeOK
<1>2. CASE Exists(j)
  <2>1. /\ status' = [status EXCEPT ![j] = st]
        /\ attempts' = [attempts EXCEPT ![j] = n]
        /\ workerId' = [workerId EXCEPT ![j] = NoWorker]
        /\ ready' = Without(ready, j)
        /\ delayed' = delayed \union {j} \/ delayed' = delayed \ {j}
        /\ heartbeat' = heartbeat
    BY <1>2 DEF WriteBack
  <2>2. status' \in [Jobs -> Status]
    BY <2>1 DEF TypeOK, Status
  <2>3. delayed' \in SUBSET Jobs
    BY <2>1 DEF TypeOK
  <2>4. QED
    BY <1>1, <2>1, <2>2, <2>3 DEF TypeOK
<1>3. CASE ~Exists(j)
  BY <1>3 DEF WriteBack, TypeOK, dueVars
<1>4. QED
  BY <1>2, <1>3

LEMMA ReleaseType ==
  ASSUME TypeOK, NEW w \in Workers, Release(w)
  PROVE  /\ pc' \in [Workers -> Pc]
         /\ cur' \in [Workers -> Jobs \union {NoJob}]
         /\ snap' \in [Workers -> Nat]
BY DEF Release, TypeOK, Pc

LEMMA SpendType ==
  ASSUME TypeOK, NEW d \in Disturbances, Spend(d)
  PROVE  spent' \in [Disturbances -> Nat]
BY DEF Spend, TypeOK

-----------------------------------------------------------------------------
(***************************************************************************)
(* Type correctness. TypeOK alone is not inductive: a task away from       *)
(* "idle" must hold a row, and only ingest jobs pass through "starting"    *)
(* and "notifying".                                                        *)
(***************************************************************************)
TaskHoldsRow ==
  \A w \in Workers :
    /\ pc[w] # "idle" => cur[w] \in Jobs
    /\ pc[w] \in {"starting", "notifying"} => cur[w] \in IngestJobs

TypeInv == TypeOK /\ TaskHoldsRow

LEMMA ReleaseKeepsTasks ==
  ASSUME TypeInv, NEW w \in Workers, Release(w)
  PROVE  TaskHoldsRow'
BY DEF Release, TypeInv, TypeOK, TaskHoldsRow

LEMMA InitTypeInv == Init => TypeInv
BY BudgetAssumption
   DEF Init, TypeInv, TypeOK, TaskHoldsRow, Status, Pc, Disturbances

\* The steps by which a task picks a row.
LEMMA PickTypeInv ==
  ASSUME TypeInv, NEW w \in Workers
  PROVE  /\ PickLock(w) => TypeInv'
         /\ DeferForCap(w) => TypeInv'
         /\ PassCap(w) => TypeInv'
         /\ MarkRunning(w) => TypeInv'
         /\ PickAborts(w) => TypeInv'
<1> USE DEF TypeInv
<1>1. ASSUME PickLock(w) PROVE TypeInv'
  <2>1. PICK i \in DOMAIN ready :
          /\ cur' = [cur EXCEPT ![w] = ready[i]]
          /\ snap' = [snap EXCEPT ![w] = attempts[ready[i]]]
    BY <1>1 DEF PickLock
  <2>2. ready[i] \in Jobs
    BY <2>1 DEF TypeOK
  <2>3. /\ pc' = [pc EXCEPT ![w] = "locked"]
        /\ UNCHANGED <<rowVars, dueVars, docFailed, starts, spent>>
    BY <1>1 DEF PickLock, GoTo
  <2>4. TypeOK'
    BY <2>1, <2>2, <2>3 DEF TypeOK, Pc, rowVars, dueVars
  <2>5. TaskHoldsRow'
    BY <2>1, <2>2, <2>3 DEF TypeOK, TaskHoldsRow
  <2>6. QED
    BY <2>4, <2>5
<1>2. ASSUME DeferForCap(w) PROVE TypeInv'
  <2>1. cur[w] \in Jobs
    BY <1>2 DEF DeferForCap, TaskHoldsRow
  <2>2. Without(ready, cur[w]) \in Seq(Jobs)
    BY <2>1, WithoutIsSeq DEF TypeOK
  <2>3. Release(w)
    BY <1>2 DEF DeferForCap
  <2>4. TypeOK'
    BY <1>2, <2>1, <2>2, <2>3, ReleaseType DEF DeferForCap, TypeOK, rowVars
  <2>5. QED
    BY <2>3, <2>4, ReleaseKeepsTasks
<1>3. ASSUME PassCap(w) PROVE TypeInv'
  <2>1. TypeOK'
    BY <1>3 DEF PassCap, GoTo, TypeOK, Pc, rowVars, dueVars
  <2>2. TaskHoldsRow'
    BY <1>3 DEF PassCap, GoTo, TypeOK, TaskHoldsRow
  <2>3. QED
    BY <2>1, <2>2
<1>4. ASSUME MarkRunning(w) PROVE TypeInv'
  <2>1. cur[w] \in Jobs
    BY <1>4 DEF MarkRunning, TaskHoldsRow
  <2>2. Without(ready, cur[w]) \in Seq(Jobs)
    BY <2>1, WithoutIsSeq DEF TypeOK
  <2>3. /\ SetRunning(cur[w], w)
        /\ ready' = Without(ready, cur[w])
        /\ delayed' = delayed \ {cur[w]}
        /\ pc' = [pc EXCEPT ![w] = IF cur[w] \in IngestJobs
                                     THEN "starting" ELSE "executing"]
        /\ starts' = [starts EXCEPT ![cur[w]] = @ + 1]
        /\ UNCHANGED <<attempts, cur, snap, docFailed, spent>>
    BY <1>4 DEF MarkRunning, Leave, GoTo
  <2>4. TypeOK'
    <3>1. /\ status' \in [Jobs -> Status]
          /\ workerId' \in [Jobs -> Workers \union {NoWorker}]
          /\ heartbeat' \in [Jobs -> {"null", "fresh", "stale"}]
      BY <2>1, <2>3 DEF SetRunning, TypeOK, Status
    <3>2. pc' \in [Workers -> Pc] /\ starts' \in [Jobs -> Nat]
      BY <2>1, <2>3 DEF TypeOK, Pc
    <3>3. QED
      BY <2>2, <2>3, <3>1, <3>2 DEF TypeOK
  <2>5. TaskHoldsRow'
    BY <2>1, <2>3 DEF TypeOK, TaskHoldsRow
  <2>6. QED
    BY <2>4, <2>5
<1>5. ASSUME PickAborts(w) PROVE TypeInv'
  <2>1. Release(w) /\ Spend("dbError")
    BY <1>5 DEF PickAborts
  <2>2. TypeOK'
    BY <1>5, <2>1, ReleaseType, SpendType
       DEF PickAborts, TypeOK, Disturbances, rowVars, dueVars
  <2>3. QED
    BY <2>1, <2>2, ReleaseKeepsTasks
<1>6. QED
  BY <1>1, <1>2, <1>3, <1>4, <1>5

\* A cascade changes the rows and no task.
LEMMA CascadeTypeInv ==
  ASSUME TypeInv, NEW S, Cascade(S)
  PROVE  TypeInv'
<1>1. /\ status' \in [Jobs -> Status]
      /\ workerId' \in [Jobs -> Workers \union {NoWorker}]
      /\ heartbeat' \in [Jobs -> {"null", "fresh", "stale"}]
  BY DEF Cascade, TypeInv, TypeOK, Status
<1>2. TypeOK'
  BY <1>1 DEF Cascade, TypeInv, TypeOK, taskVars
<1>3. TaskHoldsRow'
  BY DEF Cascade, TypeInv, TaskHoldsRow, taskVars
<1>4. QED
  BY <1>2, <1>3 DEF TypeInv

\* The steps of execute_job.
LEMMA ExecuteTypeInv ==
  ASSUME TypeInv, NEW w \in Workers
  PROVE  /\ StartDispatch(w) => TypeInv'
         /\ Heartbeat(w) => TypeInv'
         /\ Complete(w) => TypeInv'
         /\ FailAndRequeue(w) => TypeInv'
         /\ FailForGood(w) => TypeInv'
         /\ LoseWriteBack(w) => TypeInv'
         /\ NotifyDocument(w) => TypeInv'
         /\ LoseNotification(w) => TypeInv'
         /\ DeleteUser(w) => TypeInv'
<1> USE DEF TypeInv
<1>1. ASSUME StartDispatch(w) PROVE TypeInv'
  BY <1>1 DEF StartDispatch, GoTo, TypeOK, TaskHoldsRow, Pc, rowVars, dueVars
<1>2. ASSUME Heartbeat(w) PROVE TypeInv'
  BY <1>2 DEF Heartbeat, TypeOK, TaskHoldsRow, taskVars, dueVars
<1>3. ASSUME Complete(w) PROVE TypeInv'
  <2>1. cur[w] \in Jobs /\ attempts[cur[w]] \in Nat
    BY <1>3 DEF Complete, TaskHoldsRow, TypeOK
  <2>2. WriteBack(cur[w], "done", attempts[cur[w]]) /\ Release(w)
    BY <1>3 DEF Complete
  <2>3. TypeOK'
    BY <1>3, <2>1, <2>2, WriteBackType, ReleaseType DEF Complete, TypeOK
  <2>4. QED
    BY <2>2, <2>3, ReleaseKeepsTasks
<1>4. ASSUME FailAndRequeue(w) PROVE TypeInv'
  <2>1. cur[w] \in Jobs /\ snap[w] + 1 \in Nat
    BY <1>4 DEF FailAndRequeue, TaskHoldsRow, TypeOK
  <2>2. WriteBack(cur[w], "queued", snap[w] + 1) /\ Release(w)
    BY <1>4 DEF FailAndRequeue
  <2>3. TypeOK'
    BY <1>4, <2>1, <2>2, WriteBackType, ReleaseType DEF FailAndRequeue, TypeOK
  <2>4. QED
    BY <2>2, <2>3, ReleaseKeepsTasks
<1>5. ASSUME AfterFailure(w), pc[w] # "idle"
      PROVE  /\ pc' \in [Workers -> Pc]
             /\ cur' \in [Workers -> Jobs \union {NoJob}]
             /\ snap' \in [Workers -> Nat]
             /\ TaskHoldsRow'
  <2>1. CASE cur[w] \in IngestJobs
    BY <1>5, <2>1 DEF AfterFailure, GoTo, TypeOK, TaskHoldsRow, Pc
  <2>2. CASE cur[w] \notin IngestJobs
    BY <1>5, <2>2, ReleaseType, ReleaseKeepsTasks DEF AfterFailure
  <2>3. QED
    BY <2>1, <2>2
<1>6. ASSUME FailForGood(w) PROVE TypeInv'
  <2>1. cur[w] \in Jobs /\ snap[w] + 1 \in Nat /\ pc[w] # "idle"
    BY <1>6 DEF FailForGood, TaskHoldsRow, TypeOK
  <2>2. WriteBack(cur[w], "failed", snap[w] + 1) /\ AfterFailure(w)
    BY <1>6 DEF FailForGood
  <2>3. QED
    BY <1>5, <1>6, <2>1, <2>2, WriteBackType DEF FailForGood, TypeOK
<1>7. ASSUME LoseWriteBack(w) PROVE TypeInv'
  <2>1. pc[w] # "idle" /\ spent' \in [Disturbances -> Nat]
    BY <1>7, SpendType DEF LoseWriteBack, Disturbances
  <2>2. CASE Release(w)
    BY <1>7, <2>1, <2>2, ReleaseType, ReleaseKeepsTasks
       DEF LoseWriteBack, TypeOK, rowVars, dueVars
  <2>3. CASE AfterFailure(w)
    BY <1>5, <1>7, <2>1, <2>3 DEF LoseWriteBack, TypeOK, rowVars, dueVars
  <2>4. QED
    BY <1>7, <2>2, <2>3 DEF LoseWriteBack
<1>8. ASSUME NotifyDocument(w) PROVE TypeInv'
  <2>1. cur[w] \in IngestJobs /\ Release(w)
    BY <1>8 DEF NotifyDocument, TaskHoldsRow
  <2>2. TypeOK'
    BY <1>8, <2>1, ReleaseType DEF NotifyDocument, TypeOK, rowVars, dueVars
  <2>3. QED
    BY <2>1, <2>2, ReleaseKeepsTasks
<1>9. ASSUME LoseNotification(w) PROVE TypeInv'
  <2>1. Release(w) /\ spent' \in [Disturbances -> Nat]
    BY <1>9, SpendType DEF LoseNotification, Disturbances
  <2>2. TypeOK'
    BY <1>9, <2>1, ReleaseType DEF LoseNotification, TypeOK, rowVars, dueVars
  <2>3. QED
    BY <2>1, <2>2, ReleaseKeepsTasks
<1>10. DeleteUser(w) => TypeInv'
  BY CascadeTypeInv DEF DeleteUser
<1>11. QED
  BY <1>1, <1>2, <1>3, <1>4, <1>6, <1>7, <1>8, <1>9, <1>10

\* The steps that start from a row.
LEMMA RowTypeInv ==
  ASSUME TypeInv, NEW j \in Jobs
  PROVE  /\ Enqueue(j) => TypeInv'
         /\ BecomeDue(j) => TypeInv'
         /\ ExpireOrphan(j) => TypeInv'
         /\ ExpireLive(j) => TypeInv'
         /\ RetryJob(j) => TypeInv'
         /\ CancelJob(j) => TypeInv'
         /\ DiscardForReingest(j) => TypeInv'
         /\ PruneFinished(j) => TypeInv'
         /\ MarkMissing(j) => TypeInv'
<1> USE DEF TypeInv
<1>1. UNCHANGED taskVars => TaskHoldsRow'
  BY DEF taskVars, TaskHoldsRow
<1>2. Enqueue(j) => TypeInv'
  BY <1>1 DEF Enqueue, TypeOK, Status, taskVars
<1>3. BecomeDue(j) => TypeInv'
  BY <1>1 DEF BecomeDue, TypeOK, rowVars, taskVars
<1>4. ExpireOrphan(j) => TypeInv'
  BY <1>1 DEF ExpireOrphan, TypeOK, dueVars, taskVars
<1>5. ExpireLive(j) => TypeInv'
  <2>1. ExpireLive(j) => spent' \in [Disturbances -> Nat]
    BY SpendType DEF ExpireLive, Disturbances
  <2>2. QED
    BY <1>1, <2>1 DEF ExpireLive, TypeOK, dueVars, taskVars
<1>6. RetryJob(j) => TypeInv'
  <2>1. RetryJob(j) => spent' \in [Disturbances -> Nat]
    BY SpendType DEF RetryJob, RequeueForRetry, Disturbances
  <2>2. QED
    BY <1>1, <2>1 DEF RetryJob, RequeueForRetry, TypeOK, Status, taskVars
<1>7. DeleteRow(j) => TypeInv'
  <2>1. Without(ready, j) \in Seq(Jobs)
    BY WithoutIsSeq DEF TypeOK
  <2>2. QED
    BY <1>1, <2>1 DEF DeleteRow, Leave, TypeOK, Status, taskVars
<1>8. MarkMissing(j) => TypeInv'
  BY <1>1 DEF MarkMissing, TypeOK, Status, dueVars, taskVars
<1>9. QED
  BY <1>2, <1>3, <1>4, <1>5, <1>6, <1>7, <1>8
     DEF CancelJob, DiscardForReingest, PruneFinished

LEMMA ReapTypeInv == TypeInv /\ Reap => TypeInv'
<1> SUFFICES ASSUME TypeInv, Reap PROVE TypeInv'
  OBVIOUS
<1> USE DEF TypeInv
<1>1. TypeOK'
  BY DEF Reap, Expired, TypeOK, Status, taskVars
<1>2. TaskHoldsRow'
  BY DEF Reap, taskVars, TaskHoldsRow
<1>3. QED
  BY <1>1, <1>2

LEMMA RestartTypeInv == TypeInv /\ Restart => TypeInv'
<1>1. TypeInv /\ Restart => spent' \in [Disturbances -> Nat]
  BY SpendType DEF Restart, TypeInv, Disturbances
<1>2. QED
  BY <1>1 DEF Restart, TypeInv, TypeOK, TaskHoldsRow, Pc, rowVars, dueVars

LEMMA NextTypeInv == TypeInv /\ [Next]_vars => TypeInv'
<1>1. TypeInv /\ UNCHANGED vars => TypeInv'
  BY DEF TypeInv, TypeOK, TaskHoldsRow, vars, rowVars, dueVars, taskVars
<1>2. ASSUME TypeInv, NEW w \in Workers, Work(w) PROVE TypeInv'
  BY <1>2, PickTypeInv, ExecuteTypeInv DEF Work
<1>3. ASSUME TypeInv, NEW j \in Jobs, Row(j) PROVE TypeInv'
  BY <1>3, RowTypeInv DEF Row
<1>4. ASSUME TypeInv, NEW p \in Personas, DeletePersona(p) PROVE TypeInv'
  BY <1>4, CascadeTypeInv DEF DeletePersona
<1>5. QED
  BY <1>1, <1>2, <1>3, <1>4, ReapTypeInv, RestartTypeInv DEF Next

(***************************************************************************)
(* Every variable keeps its type, and a task that is not idle holds a row. *)
(***************************************************************************)
THEOREM TypeCorrect == Spec => [](TypeOK /\ TaskHoldsRow)
<1>1. Spec => []TypeInv
  BY InitTypeInv, NextTypeInv, PTL DEF Spec
<1>2. TypeInv => TypeOK /\ TaskHoldsRow
  BY DEF TypeInv
<1>3. QED
  BY <1>1, <1>2, PTL

-----------------------------------------------------------------------------
(***************************************************************************)
(* Row locks. A step cannot break PickIsExclusive if every open            *)
(* transaction after it was open before, on the same row, with the same    *)
(* status.                                                                 *)
(***************************************************************************)
Locking(w) == pc[w] \in {"locked", "marking"}

KeepsPicks ==
  \A v \in Workers : Locking(v)' =>
    /\ Locking(v)
    /\ cur'[v] = cur[v]
    /\ status'[cur[v]] = status[cur[v]]

LEMMA KeepsPicksSuffices == PickIsExclusive /\ KeepsPicks => PickIsExclusive'
BY DEF PickIsExclusive, KeepsPicks, Locking

LEMMA LockedRowsAreLocked ==
  ASSUME NEW w \in Workers, Locking(w)
  PROVE  cur[w] \in LockedRows
BY DEF Locking, LockedRows

LEMMA WriteBackKeepsPicks ==
  ASSUME TypeInv, NEW w \in Workers, NEW st, NEW n,
         ~Locking(w), WriteBack(cur[w], st, n), Release(w) \/ AfterFailure(w)
  PROVE  KeepsPicks
<1>1. \A v \in Workers : Locking(v)' => Locking(v) /\ cur'[v] = cur[v]
  BY DEF Release, AfterFailure, GoTo, Locking, TypeInv, TypeOK
<1>2. \A v \in Workers : Locking(v) => status'[cur[v]] = status[cur[v]]
  <2>1. \A v \in Workers : Locking(v) => cur[v] \in Jobs /\ cur[v] # cur[w]
    BY LockedRowsAreLocked DEF WriteBack, TypeInv, TaskHoldsRow, Locking
  <2>2. QED
    BY <2>1 DEF WriteBack, TypeInv, TypeOK
<1>3. QED
  BY <1>1, <1>2 DEF KeepsPicks

LEMMA DeleteKeepsPicks ==
  ASSUME TypeInv, NEW j \in Jobs, DeleteRow(j)
  PROVE  KeepsPicks
BY LockedRowsAreLocked DEF DeleteRow, taskVars, KeepsPicks, Locking, TypeInv, TypeOK

LEMMA CascadeKeepsPicks ==
  ASSUME TypeInv, NEW S, Cascade(S)
  PROVE  KeepsPicks
<1>1. \A v \in Workers : Locking(v) => cur[v] \in Jobs \ S
  BY LockedRowsAreLocked DEF Cascade, TypeInv, TaskHoldsRow, Locking
<1>2. QED
  BY <1>1 DEF Cascade, taskVars, KeepsPicks, Locking

LEMMA PickLockExclusive ==
  ASSUME TypeInv, PickIsExclusive, NEW w \in Workers, PickLock(w)
  PROVE  PickIsExclusive'
<1>1. PICK i \in DOMAIN ready : Pickable(i) /\ cur' = [cur EXCEPT ![w] = ready[i]]
  BY DEF PickLock
<1>2. status[ready[i]] = "queued" /\ ready[i] \notin LockedRows /\ status' = status
  BY <1>1 DEF Pickable, PickLock, rowVars
<1>3. pc' = [pc EXCEPT ![w] = "locked"]
  BY DEF PickLock, GoTo
<1>4. \A v \in Workers : v # w /\ Locking(v)' => cur'[v] # cur'[w]
  BY <1>1, <1>2, <1>3, LockedRowsAreLocked DEF Locking, TypeInv, TypeOK
<1>5. QED
  BY <1>1, <1>2, <1>3, <1>4 DEF PickIsExclusive, Locking, TypeInv, TypeOK

LEMMA MarkRunningExclusive ==
  ASSUME TypeInv, PickIsExclusive, NEW w \in Workers, MarkRunning(w)
  PROVE  KeepsPicks
BY DEF MarkRunning, SetRunning, GoTo, KeepsPicks, Locking, PickIsExclusive,
       TypeInv, TypeOK, TaskHoldsRow

LEMMA WorkExclusive ==
  ASSUME TypeInv, PickIsExclusive, NEW w \in Workers, Work(w)
  PROVE  PickIsExclusive'
<1>1. CASE PickLock(w)
  BY <1>1, PickLockExclusive
<1>2. CASE PassCap(w)
  BY <1>2 DEF PassCap, GoTo, rowVars, PickIsExclusive, TypeInv, TypeOK
<1>3. ASSUME ~PickLock(w), ~PassCap(w) PROVE KeepsPicks
  <2>1. CASE Complete(w) \/ FailAndRequeue(w) \/ FailForGood(w)
    BY <2>1, WriteBackKeepsPicks
       DEF Complete, FailAndRequeue, FailForGood, Locking
  <2>2. CASE MarkRunning(w)
    BY <2>2, MarkRunningExclusive
  <2>3. CASE \/ DeferForCap(w) \/ PickAborts(w) \/ NotifyDocument(w)
             \/ LoseNotification(w)
    BY <2>3 DEF DeferForCap, PickAborts, NotifyDocument, LoseNotification,
                Release, rowVars, KeepsPicks, Locking, TypeInv, TypeOK
  <2>4. CASE LoseWriteBack(w)
    BY <2>4 DEF LoseWriteBack, AfterFailure, GoTo, Release, rowVars, KeepsPicks,
                Locking, TypeInv, TypeOK
  <2>5. CASE StartDispatch(w) \/ Heartbeat(w)
    BY <2>5 DEF StartDispatch, Heartbeat, GoTo, rowVars, taskVars, KeepsPicks,
                Locking, TypeInv, TypeOK
  <2>6. CASE DeleteUser(w)
    BY <2>6, CascadeKeepsPicks DEF DeleteUser
  <2>7. QED
    BY <1>3, <2>1, <2>2, <2>3, <2>4, <2>5, <2>6 DEF Work
<1>4. QED
  BY <1>1, <1>2, <1>3, KeepsPicksSuffices

LEMMA RowExclusive ==
  ASSUME TypeInv, PickIsExclusive, NEW j \in Jobs, Row(j)
  PROVE  PickIsExclusive'
<1>1. CASE CancelJob(j) \/ DiscardForReingest(j) \/ PruneFinished(j)
  BY <1>1, DeleteKeepsPicks, KeepsPicksSuffices
     DEF CancelJob, DiscardForReingest, PruneFinished
<1>2. CASE Enqueue(j) \/ RetryJob(j)
  BY <1>2 DEF Enqueue, RetryJob, RequeueForRetry, taskVars, PickIsExclusive,
              TypeInv, TypeOK, TaskHoldsRow
<1>3. CASE BecomeDue(j) \/ ExpireOrphan(j) \/ ExpireLive(j)
  BY <1>3 DEF BecomeDue, ExpireOrphan, ExpireLive, rowVars, taskVars,
              PickIsExclusive
<1>4. CASE MarkMissing(j)
  BY <1>4 DEF MarkMissing, taskVars, PickIsExclusive, TypeInv, TypeOK, TaskHoldsRow
<1>5. QED
  BY <1>1, <1>2, <1>3, <1>4 DEF Row

LEMMA NextExclusive == TypeInv /\ PickIsExclusive /\ [Next]_vars => PickIsExclusive'
<1> SUFFICES ASSUME TypeInv, PickIsExclusive, [Next]_vars PROVE PickIsExclusive'
  OBVIOUS
<1>1. CASE UNCHANGED vars
  BY <1>1 DEF vars, rowVars, taskVars, PickIsExclusive
<1>2. CASE Reap
  BY <1>2 DEF Reap, Expired, taskVars, PickIsExclusive, TypeInv, TypeOK,
              TaskHoldsRow
<1>3. CASE Restart
  BY <1>3 DEF Restart, PickIsExclusive
<1>4. ASSUME NEW p \in Personas, DeletePersona(p) PROVE PickIsExclusive'
  BY <1>4, CascadeKeepsPicks, KeepsPicksSuffices DEF DeletePersona
<1>5. QED
  BY <1>1, <1>2, <1>3, <1>4, WorkExclusive, RowExclusive DEF Next

(***************************************************************************)
(* No row is ever picked by two transactions, and a picked row stays       *)
(* queued until its picker marks it, for any number of workers and jobs    *)
(* and any disturbances.                                                   *)
(***************************************************************************)
THEOREM PickExclusion == Spec => []PickIsExclusive
<1>1. Init => PickIsExclusive
  BY DEF Init, PickIsExclusive
<1>2. QED
  BY <1>1, InitTypeInv, NextTypeInv, NextExclusive, PTL DEF Spec

-----------------------------------------------------------------------------
(***************************************************************************)
(* Executions. ExecutorOwnsRow holds as long as no live worker's heartbeat *)
(* lapses; it becomes inductive once the freshness of that heartbeat is    *)
(* part of it, since the reaper selects by the heartbeat alone. A task may *)
(* also be left with a row that went with its owner.                       *)
(***************************************************************************)
ExecInv ==
  \A w \in Workers, j \in Jobs : Executing(w, j) =>
    /\ \/ status[j] = "running" /\ workerId[j] = w /\ heartbeat[j] = "fresh"
       \/ status[j] = "dropped"
    /\ \A v \in Workers : Executing(v, j) => v = w

\* After a step every execution was already there, on an untouched row or on
\* one that is dropped.
KeepsExecutions ==
  \A w \in Workers, j \in Jobs : Executing(w, j)' =>
    /\ Executing(w, j)
    /\ \/ /\ status'[j] = status[j]
          /\ workerId'[j] = workerId[j]
          /\ heartbeat'[j] \in {heartbeat[j], "fresh"}
       \/ status'[j] = "dropped"

LEMMA KeepsExecutionsSuffices == ExecInv /\ KeepsExecutions => ExecInv'
BY DEF ExecInv, KeepsExecutions

LEMMA WriteBackKeepsExecutions ==
  ASSUME TypeInv, ExecInv, NEW w \in Workers, NEW st, NEW n,
         pc[w] \in {"starting", "executing"},
         WriteBack(cur[w], st, n), Release(w) \/ AfterFailure(w)
  PROVE  KeepsExecutions
<1>1. ASSUME NEW v \in Workers, NEW j \in Jobs, Executing(v, j)'
      PROVE  Executing(v, j) /\ v # w
  BY <1>1 DEF Release, AfterFailure, GoTo, Executing, TypeInv, TypeOK
<1>2. ASSUME NEW v \in Workers, NEW j \in Jobs, Executing(v, j), v # w
      PROVE  j # cur[w]
  BY <1>2 DEF ExecInv, Executing
<1>3. ASSUME NEW j \in Jobs, j # cur[w]
      PROVE  /\ status'[j] = status[j]
             /\ workerId'[j] = workerId[j]
             /\ heartbeat'[j] = heartbeat[j]
  BY <1>3 DEF WriteBack, TypeInv, TypeOK
<1>4. QED
  BY <1>1, <1>2, <1>3 DEF KeepsExecutions

LEMMA CascadeKeepsExecutions ==
  ASSUME TypeInv, NEW S, Cascade(S)
  PROVE  KeepsExecutions
BY DEF Cascade, taskVars, KeepsExecutions, Executing

LEMMA WorkKeepsExecInv ==
  ASSUME TypeInv, PickIsExclusive, ExecInv, NEW w \in Workers, Work(w)
  PROVE  ExecInv'
<1>1. CASE MarkRunning(w)
  <2>1. status[cur[w]] = "queued" /\ cur[w] \in Jobs
    BY <1>1 DEF MarkRunning, PickIsExclusive, TypeInv, TaskHoldsRow
  <2>2. ASSUME NEW v \in Workers, NEW j \in Jobs, Executing(v, j)'
        PROVE  (v = w /\ j = cur[w]) \/ (Executing(v, j) /\ j # cur[w])
    BY <1>1, <2>1, <2>2
       DEF MarkRunning, GoTo, Executing, ExecInv, TypeInv, TypeOK
  <2>3. QED
    BY <1>1, <2>1, <2>2 DEF MarkRunning, SetRunning, ExecInv, TypeInv, TypeOK
<1>2. CASE Complete(w) \/ FailAndRequeue(w) \/ FailForGood(w)
  BY <1>2, WriteBackKeepsExecutions, KeepsExecutionsSuffices
     DEF Complete, FailAndRequeue, FailForGood
<1>3. CASE LoseWriteBack(w)
  BY <1>3 DEF LoseWriteBack, AfterFailure, Release, GoTo, rowVars, ExecInv,
              Executing, TypeInv, TypeOK
<1>4. CASE StartDispatch(w)
  BY <1>4 DEF StartDispatch, GoTo, rowVars, ExecInv, Executing, TypeInv, TypeOK
<1>5. CASE Heartbeat(w)
  BY <1>5 DEF Heartbeat, taskVars, ExecInv, Executing, TypeInv, TypeOK
<1>6. CASE \/ PickLock(w) \/ PassCap(w) \/ DeferForCap(w) \/ PickAborts(w)
           \/ NotifyDocument(w) \/ LoseNotification(w)
  <2>1. KeepsExecutions
    BY <1>6 DEF PickLock, PassCap, DeferForCap, PickAborts, NotifyDocument,
                LoseNotification, GoTo, Release, rowVars, KeepsExecutions,
                Executing, TypeInv, TypeOK
  <2>2. QED
    BY <2>1, KeepsExecutionsSuffices
<1>7. CASE DeleteUser(w)
  BY <1>7, CascadeKeepsExecutions, KeepsExecutionsSuffices DEF DeleteUser
<1>8. QED
  BY <1>1, <1>2, <1>3, <1>4, <1>5, <1>6, <1>7 DEF Work

LEMMA RowKeepsExecInv ==
  ASSUME Budget["lapse"] = 0, TypeInv, ExecInv, NEW j \in Jobs, Row(j)
  PROVE  ExecInv'
<1>1. ASSUME DeleteRow(j), status[j] \notin {"running", "dropped"} PROVE ExecInv'
  BY <1>1 DEF DeleteRow, taskVars, ExecInv, Executing, TypeInv, TypeOK
<1>2. CASE CancelJob(j) \/ DiscardForReingest(j) \/ PruneFinished(j)
  BY <1>1, <1>2 DEF CancelJob, DiscardForReingest, PruneFinished
<1>3. CASE Enqueue(j) \/ RetryJob(j)
  BY <1>3 DEF Enqueue, RetryJob, RequeueForRetry, taskVars, ExecInv, Executing,
              TypeInv, TypeOK
<1>4. CASE ExpireOrphan(j)
  BY <1>4 DEF ExpireOrphan, taskVars, ExecInv, Executing, TypeInv, TypeOK
<1>5. CASE ExpireLive(j)
  BY <1>5 DEF ExpireLive, Spend, TypeInv, TypeOK, Disturbances
<1>6. CASE BecomeDue(j)
  BY <1>6 DEF BecomeDue, rowVars, taskVars, ExecInv, Executing
<1>7. CASE MarkMissing(j)
  BY <1>7 DEF MarkMissing, taskVars, ExecInv, Executing, TypeInv, TypeOK
<1>8. QED
  BY <1>2, <1>3, <1>4, <1>5, <1>6, <1>7 DEF Row

LEMMA NextExecInv ==
  ASSUME Budget["lapse"] = 0
  PROVE  TypeInv /\ PickIsExclusive /\ ExecInv /\ [Next]_vars => ExecInv'
<1> SUFFICES ASSUME TypeInv, PickIsExclusive, ExecInv, [Next]_vars PROVE ExecInv'
  OBVIOUS
<1>1. CASE UNCHANGED vars
  BY <1>1 DEF vars, rowVars, taskVars, ExecInv, Executing
<1>2. CASE Reap
  BY <1>2 DEF Reap, Expired, taskVars, ExecInv, Executing, TypeInv, TypeOK
<1>3. CASE Restart
  BY <1>3 DEF Restart, ExecInv, Executing
<1>4. ASSUME NEW p \in Personas, DeletePersona(p) PROVE ExecInv'
  BY <1>4, CascadeKeepsExecutions, KeepsExecutionsSuffices DEF DeletePersona
<1>5. QED
  BY <1>1, <1>2, <1>3, <1>4, WorkKeepsExecInv, RowKeepsExecInv DEF Next

LEMMA ExecInvHolds ==
  ASSUME Budget["lapse"] = 0
  PROVE  Spec => [](TypeInv /\ PickIsExclusive /\ ExecInv)
<1>1. Init => ExecInv
  BY DEF Init, ExecInv, Executing
<1>2. Init => PickIsExclusive
  BY DEF Init, PickIsExclusive
<1>3. QED
  BY <1>1, <1>2, InitTypeInv, NextTypeInv, NextExclusive, NextExecInv, PTL DEF Spec

(***************************************************************************)
(* As long as no live worker's heartbeat lapses, a task executes only rows *)
(* that are running in its own name or went with their owner, and at most  *)
(* one task executes a job: through crashes, failed statements, retries,   *)
(* cancellations, export polls and deletions of personas and users.        *)
(***************************************************************************)
THEOREM ExecutionIsExclusive ==
  ASSUME Budget["lapse"] = 0
  PROVE  Spec => []ExecutorOwnsRow
<1>1. ExecInv => ExecutorOwnsRow
  BY DEF ExecInv, ExecutorOwnsRow
<1>2. QED
  BY <1>1, ExecInvHolds, PTL

(***************************************************************************)
(* Under the same assumption a done job never runs again: its row is       *)
(* written only by the poll of an export whose file is missing, and goes   *)
(* only with the prune or with its owner.                                  *)
(***************************************************************************)
THEOREM DoneStaysDone ==
  ASSUME Budget["lapse"] = 0
  PROVE  Spec => DoneIsFinal
<1> DEFINE Final == \A j \in Jobs : status[j] = "done" =>
                      \/ status'[j] \in {"done", "gone", "dropped"}
                      \/ j \in Exports /\ status'[j] = "missing"
<1>1. ASSUME TypeInv, PickIsExclusive, ExecInv, [Next]_vars PROVE Final
  <2>1. CASE UNCHANGED vars
    BY <2>1 DEF vars, rowVars
  <2>2. ASSUME NEW w \in Workers, Work(w) PROVE Final
    <3>1. pc[w] # "idle" => cur[w] \in Jobs
      BY <1>1 DEF TypeInv, TaskHoldsRow
    <3>2. ASSUME pc[w] \in {"starting", "executing"}
          PROVE  status[cur[w]] \in {"running", "dropped"}
      BY <1>1, <3>1, <3>2 DEF ExecInv, Executing
    <3>3. CASE Complete(w) \/ FailAndRequeue(w) \/ FailForGood(w)
      BY <1>1, <3>1, <3>2, <3>3 DEF Complete, FailAndRequeue, FailForGood,
                                   WriteBack, TypeInv, TypeOK
    <3>4. CASE MarkRunning(w)
      BY <1>1, <3>4 DEF MarkRunning, SetRunning, PickIsExclusive, TypeInv, TypeOK
    <3>5. CASE DeleteUser(w)
      BY <3>5 DEF DeleteUser, Cascade
    <3>6. CASE ~(\/ Complete(w) \/ FailAndRequeue(w) \/ FailForGood(w) \/ MarkRunning(w)
                 \/ DeleteUser(w))
      BY <2>2, <3>6 DEF Work, PickLock, DeferForCap, PassCap, PickAborts,
                        StartDispatch, Heartbeat, LoseWriteBack, NotifyDocument,
                        LoseNotification, rowVars
    <3>7. QED
      BY <3>3, <3>4, <3>5, <3>6
  <2>3. ASSUME NEW j \in Jobs, Row(j) PROVE Final
    BY <1>1, <2>3 DEF Row, Enqueue, BecomeDue, ExpireOrphan, ExpireLive, RetryJob,
                      RequeueForRetry, CancelJob, DiscardForReingest, PruneFinished,
                      DeleteRow, MarkMissing, rowVars, TypeInv, TypeOK
  <2>4. CASE Reap
    BY <2>4 DEF Reap, Expired
  <2>5. CASE Restart
    BY <2>5 DEF Restart, rowVars
  <2>6. ASSUME NEW p \in Personas, DeletePersona(p) PROVE Final
    BY <2>6 DEF DeletePersona, Cascade
  <2>7. QED
    BY <1>1, <2>1, <2>2, <2>3, <2>4, <2>5, <2>6 DEF Next
<1>2. QED
  BY <1>1, ExecInvHolds, PTL DEF Spec, DoneIsFinal

-----------------------------------------------------------------------------
(***************************************************************************)
(* The ingest cap. A picker that passed the COUNT will add a running row   *)
(* whatever happens meanwhile, so it is counted with the running rows: the *)
(* sum is at most Cap - 1 + Cardinality(Workers), because only a picker    *)
(* that saw fewer than Cap running rows adds to it.                        *)
(***************************************************************************)
Marking(u) ==
  {w \in Workers : pc[w] = "marking" /\ cur[w] \in IngestJobs /\ UserOf[cur[w]] = u}

CapInv ==
  \A u \in Users : Cardinality(RunningIngest(u)) + Cardinality(Marking(u))
                     <= Cap - 1 + Cardinality(Workers)

LEMMA CapSetsFinite ==
  ASSUME NEW u \in Users
  PROVE  /\ IsFiniteSet(RunningIngest(u)) /\ Cardinality(RunningIngest(u)) \in Nat
         /\ IsFiniteSet(Marking(u)) /\ Cardinality(Marking(u)) \in Nat
         /\ Cardinality(Marking(u)) <= Cardinality(Workers)
         /\ Cardinality(Workers) \in Nat
<1>1. RunningIngest(u) \subseteq Jobs /\ Marking(u) \subseteq Workers
  BY JobsAssumption DEF RunningIngest, Marking
<1>2. QED
  BY <1>1, PoolAssumption, FS_Subset, FS_CardinalityType

LEMMA CapSetsFinitePrimed ==
  ASSUME NEW u \in Users
  PROVE  /\ Cardinality(RunningIngest(u)') \in Nat
         /\ Cardinality(Marking(u)') \in Nat
         /\ Cardinality(Marking(u)') <= Cardinality(Workers)
<1>1. RunningIngest(u)' \subseteq Jobs /\ Marking(u)' \subseteq Workers
  BY JobsAssumption DEF RunningIngest, Marking
<1>2. QED
  BY <1>1, PoolAssumption, FS_Subset, FS_CardinalityType

\* No step but PassCap and MarkRunning lets either set grow.
Shrinks ==
  /\ \A j \in Jobs : status'[j] = "running" => status[j] = "running"
  /\ \A v \in Workers : pc'[v] = "marking" => pc[v] = "marking" /\ cur'[v] = cur[v]

LEMMA ShrinksSuffices == CapInv /\ Shrinks => CapInv'
<1> SUFFICES ASSUME CapInv, Shrinks, NEW u \in Users
             PROVE  Cardinality(RunningIngest(u)') + Cardinality(Marking(u)')
                      <= Cap - 1 + Cardinality(Workers)
  BY DEF CapInv
<1>1. RunningIngest(u)' \subseteq RunningIngest(u) /\ Marking(u)' \subseteq Marking(u)
  BY JobsAssumption DEF Shrinks, RunningIngest, Marking
<1>2. /\ Cardinality(RunningIngest(u)') <= Cardinality(RunningIngest(u))
      /\ Cardinality(Marking(u)') <= Cardinality(Marking(u))
  BY <1>1, CapSetsFinite, FS_Subset
<1>3. QED
  BY <1>2, CapSetsFinite, CapSetsFinitePrimed, CapAssumption DEF CapInv

LEMMA PassCapKeepsCapInv ==
  ASSUME TypeInv, CapInv, NEW w \in Workers, PassCap(w)
  PROVE  CapInv'
<1> SUFFICES ASSUME NEW u \in Users
             PROVE  Cardinality(RunningIngest(u)') + Cardinality(Marking(u)')
                      <= Cap - 1 + Cardinality(Workers)
  BY DEF CapInv
<1>1. RunningIngest(u)' = RunningIngest(u)
  BY DEF PassCap, rowVars, RunningIngest
<1>2. CASE cur[w] \in IngestJobs /\ UserOf[cur[w]] = u
  <2>1. Cardinality(RunningIngest(u)) < Cap
    BY <1>2, CapSetsFinite, CapAssumption DEF PassCap, AtCap
  <2>2. QED
    BY <1>1, <2>1, CapSetsFinite, CapSetsFinitePrimed, CapAssumption
<1>3. CASE ~(cur[w] \in IngestJobs /\ UserOf[cur[w]] = u)
  <2>1. Marking(u)' \subseteq Marking(u)
    BY <1>3 DEF PassCap, GoTo, Marking, TypeInv, TypeOK
  <2>2. Cardinality(Marking(u)') <= Cardinality(Marking(u))
    BY <2>1, CapSetsFinite, FS_Subset
  <2>3. QED
    BY <1>1, <2>2, CapSetsFinite, CapSetsFinitePrimed, CapAssumption DEF CapInv
<1>4. QED
  BY <1>2, <1>3

LEMMA MarkRunningKeepsCapInv ==
  ASSUME TypeInv, CapInv, NEW w \in Workers, MarkRunning(w)
  PROVE  CapInv'
<1> SUFFICES ASSUME NEW u \in Users
             PROVE  Cardinality(RunningIngest(u)') + Cardinality(Marking(u)')
                      <= Cap - 1 + Cardinality(Workers)
  BY DEF CapInv
<1>1. cur[w] \in Jobs
  BY DEF MarkRunning, TypeInv, TaskHoldsRow
<1>2. CASE cur[w] \in IngestJobs /\ UserOf[cur[w]] = u
  <2>1. RunningIngest(u)' = RunningIngest(u) \union {cur[w]}
    BY <1>1, <1>2 DEF MarkRunning, SetRunning, RunningIngest, TypeInv, TypeOK
  <2>2. Cardinality(RunningIngest(u)') <= Cardinality(RunningIngest(u)) + 1
    <3>1. \/ Cardinality(RunningIngest(u) \union {cur[w]}) = Cardinality(RunningIngest(u))
          \/ Cardinality(RunningIngest(u) \union {cur[w]}) = Cardinality(RunningIngest(u)) + 1
      BY CapSetsFinite, FS_AddElement
    <3>2. QED
      BY <2>1, <3>1, CapSetsFinite
  <2>3. Marking(u)' = Marking(u) \ {w} /\ w \in Marking(u)
    BY <1>2 DEF MarkRunning, GoTo, Marking, TypeInv, TypeOK
  <2>4. Cardinality(Marking(u)') = Cardinality(Marking(u)) - 1
    BY <2>3, CapSetsFinite, FS_RemoveElement
  <2>5. QED
    BY <2>2, <2>4, CapSetsFinite, CapSetsFinitePrimed, CapAssumption DEF CapInv
<1>3. CASE ~(cur[w] \in IngestJobs /\ UserOf[cur[w]] = u)
  <2>1. RunningIngest(u)' \subseteq RunningIngest(u) /\ Marking(u)' \subseteq Marking(u)
    BY <1>1, <1>3
       DEF MarkRunning, SetRunning, GoTo, RunningIngest, Marking, TypeInv, TypeOK
  <2>2. /\ Cardinality(RunningIngest(u)') <= Cardinality(RunningIngest(u))
        /\ Cardinality(Marking(u)') <= Cardinality(Marking(u))
    BY <2>1, CapSetsFinite, FS_Subset
  <2>3. QED
    BY <2>2, CapSetsFinite, CapSetsFinitePrimed, CapAssumption DEF CapInv
<1>4. QED
  BY <1>2, <1>3

LEMMA WorkKeepsCapInv ==
  ASSUME TypeInv, CapInv, NEW w \in Workers, Work(w)
  PROVE  CapInv'
<1>1. ASSUME ~PassCap(w), ~MarkRunning(w) PROVE Shrinks
  <2>1. CASE Complete(w) \/ FailAndRequeue(w) \/ FailForGood(w)
    BY <2>1 DEF Complete, FailAndRequeue, FailForGood, WriteBack, Release,
                AfterFailure, GoTo, TaskHoldsRow, Shrinks, TypeInv, TypeOK
  <2>2. CASE DeferForCap(w) \/ PickAborts(w) \/ NotifyDocument(w) \/ LoseNotification(w)
    BY <2>2 DEF DeferForCap, PickAborts, NotifyDocument, LoseNotification, Release,
                rowVars, Shrinks, TypeInv, TypeOK
  <2>3. CASE PickLock(w) \/ StartDispatch(w) \/ Heartbeat(w)
    BY <2>3 DEF PickLock, StartDispatch, Heartbeat, GoTo, rowVars, taskVars,
                Shrinks, TypeInv, TypeOK
  <2>4. CASE LoseWriteBack(w)
    BY <2>4 DEF LoseWriteBack, AfterFailure, Release, GoTo, rowVars, Shrinks,
                TypeInv, TypeOK
  <2>5. CASE DeleteUser(w)
    BY <2>5 DEF DeleteUser, Cascade, taskVars, Shrinks
  <2>6. QED
    BY <1>1, <2>1, <2>2, <2>3, <2>4, <2>5 DEF Work
<1>2. QED
  BY <1>1, ShrinksSuffices, PassCapKeepsCapInv, MarkRunningKeepsCapInv

LEMMA NextCapInv == TypeInv /\ CapInv /\ [Next]_vars => CapInv'
<1> SUFFICES ASSUME TypeInv, CapInv, [Next]_vars PROVE CapInv'
  OBVIOUS
<1>1. ASSUME NEW j \in Jobs, Row(j) PROVE Shrinks
  BY <1>1 DEF Row, Enqueue, BecomeDue, ExpireOrphan, ExpireLive, RetryJob,
              RequeueForRetry, CancelJob, DiscardForReingest, PruneFinished,
              DeleteRow, MarkMissing, rowVars, taskVars, Shrinks, TypeInv, TypeOK
<1>2. CASE Reap
  BY <1>2, ShrinksSuffices DEF Reap, taskVars, Shrinks
<1>3. CASE Restart
  BY <1>3, ShrinksSuffices DEF Restart, rowVars, Shrinks
<1>4. CASE UNCHANGED vars
  BY <1>4, ShrinksSuffices DEF vars, rowVars, taskVars, Shrinks
<1>5. ASSUME NEW p \in Personas, DeletePersona(p) PROVE Shrinks
  BY <1>5 DEF DeletePersona, Cascade, taskVars, Shrinks
<1>6. QED
  BY <1>1, <1>2, <1>3, <1>4, <1>5, ShrinksSuffices, WorkKeepsCapInv DEF Next

(***************************************************************************)
(* However many workers pass the COUNT together, whatever crashes and      *)
(* lapses occur, a user's running ingest rows stay within Cap - 1 plus the *)
(* size of the pool.                                                       *)
(***************************************************************************)
THEOREM CapOvershoot == Spec => []CapOvershootIsBounded
<1>1. Init => CapInv
  <2>1. ASSUME Init, NEW u \in Users PROVE RunningIngest(u) = {} /\ Marking(u) = {}
    BY <2>1, JobsAssumption DEF Init, RunningIngest, Marking
  <2>2. QED
    BY <2>1, FS_EmptySet, CapSetsFinite, CapAssumption DEF CapInv
<1>2. CapInv => CapOvershootIsBounded
  BY CapSetsFinite, CapAssumption DEF CapInv, CapOvershootIsBounded
<1>3. QED
  BY <1>1, <1>2, InitTypeInv, NextTypeInv, NextCapInv, PTL DEF Spec

-----------------------------------------------------------------------------
(***************************************************************************)
(* The shape of a running row.                                             *)
(***************************************************************************)
LEMMA WriteBackRecoverable ==
  ASSUME TypeInv, RunningRowIsRecoverable, NEW j \in Jobs,
         NEW st \in {"queued", "done", "failed"}, NEW n, WriteBack(j, st, n)
  PROVE  RunningRowIsRecoverable'
BY JobsAssumption DEF WriteBack, RunningRowIsRecoverable, TypeInv, TypeOK

LEMMA CascadeRecoverable ==
  ASSUME TypeInv, RunningRowIsRecoverable, NEW S, Cascade(S)
  PROVE  RunningRowIsRecoverable'
BY DEF Cascade, RunningRowIsRecoverable, TypeInv, TypeOK

LEMMA WorkRecoverable ==
  ASSUME TypeInv, RunningRowIsRecoverable, NEW w \in Workers, Work(w)
  PROVE  RunningRowIsRecoverable'
<1>1. pc[w] # "idle" => cur[w] \in Jobs
  BY DEF TypeInv, TaskHoldsRow
<1>2. CASE Complete(w) \/ FailAndRequeue(w) \/ FailForGood(w)
  BY <1>1, <1>2, WriteBackRecoverable DEF Complete, FailAndRequeue, FailForGood
<1>3. CASE MarkRunning(w)
  BY <1>1, <1>3, JobsAssumption
     DEF MarkRunning, SetRunning, RunningRowIsRecoverable, TypeInv, TypeOK
<1>4. CASE Heartbeat(w)
  BY <1>1, <1>4 DEF Heartbeat, RunningRowIsRecoverable, TypeInv, TypeOK
<1>5. CASE UNCHANGED rowVars
  BY <1>5 DEF rowVars, RunningRowIsRecoverable
<1>6. CASE DeleteUser(w)
  BY <1>6, CascadeRecoverable DEF DeleteUser
<1>7. QED
  BY <1>2, <1>3, <1>4, <1>5, <1>6
     DEF Work, PickLock, DeferForCap, PassCap, PickAborts, StartDispatch,
         LoseWriteBack, NotifyDocument, LoseNotification

LEMMA NextRecoverable ==
  TypeInv /\ RunningRowIsRecoverable /\ [Next]_vars => RunningRowIsRecoverable'
<1> SUFFICES ASSUME TypeInv, RunningRowIsRecoverable, [Next]_vars
             PROVE  RunningRowIsRecoverable'
  OBVIOUS
<1>1. ASSUME NEW j \in Jobs, Row(j) PROVE RunningRowIsRecoverable'
  <2>1. CASE CancelJob(j) \/ DiscardForReingest(j) \/ PruneFinished(j)
    BY <2>1 DEF CancelJob, DiscardForReingest, PruneFinished, DeleteRow,
                RunningRowIsRecoverable, TypeInv, TypeOK
  <2>2. CASE Enqueue(j) \/ RetryJob(j)
    BY <2>2, JobsAssumption DEF Enqueue, RetryJob, RequeueForRetry,
                RunningRowIsRecoverable, TypeInv, TypeOK
  <2>3. CASE BecomeDue(j) \/ ExpireOrphan(j) \/ ExpireLive(j)
    BY <2>3 DEF BecomeDue, ExpireOrphan, ExpireLive, rowVars,
                RunningRowIsRecoverable, TypeInv, TypeOK
  <2>4. CASE MarkMissing(j)
    BY <2>4 DEF MarkMissing, RunningRowIsRecoverable, TypeInv, TypeOK
  <2>5. QED
    BY <1>1, <2>1, <2>2, <2>3, <2>4 DEF Row
<1>2. CASE Reap
  BY <1>2, JobsAssumption
     DEF Reap, Expired, RunningRowIsRecoverable, TypeInv, TypeOK
<1>3. CASE Restart \/ UNCHANGED vars
  BY <1>3 DEF Restart, vars, rowVars, RunningRowIsRecoverable
<1>4. ASSUME NEW p \in Personas, DeletePersona(p) PROVE RunningRowIsRecoverable'
  BY <1>4, CascadeRecoverable DEF DeletePersona
<1>5. QED
  BY <1>1, <1>2, <1>3, <1>4, WorkRecoverable DEF Next

(***************************************************************************)
(* Whatever happens, worker_id is set exactly on the running rows, and a   *)
(* running row always has a heartbeat the reaper can compare.              *)
(***************************************************************************)
THEOREM RunningRowRecoverable == Spec => []RunningRowIsRecoverable
<1>1. Init => RunningRowIsRecoverable
  BY DEF Init, RunningRowIsRecoverable
<1>2. QED
  BY <1>1, InitTypeInv, NextTypeInv, NextRecoverable, PTL DEF Spec

-----------------------------------------------------------------------------
(***************************************************************************)
(* Attempts. A task writes back the count it read when it picked the row,  *)
(* so that what it read must still be the column's value.                  *)
(***************************************************************************)
Counted(j) ==
  starts[j] = attempts[j] + (IF status[j] \in {"running", "done", "missing"} THEN 1 ELSE 0)

CountInv ==
  /\ \A j \in Jobs : status[j] \notin {"gone", "dropped"} => Counted(j)
  /\ \A w \in Workers :
       pc[w] \in {"locked", "marking", "starting", "executing"} => snap[w] = attempts[cur[w]]

LEMMA WriteBackCounts ==
  ASSUME TypeInv, ExecInv, CountInv, NEW w \in Workers,
         pc[w] \in {"starting", "executing"}, Release(w) \/ AfterFailure(w),
         starts' = starts,
         \/ WriteBack(cur[w], "done", attempts[cur[w]])
         \/ \E st \in {"queued", "failed"} : WriteBack(cur[w], st, snap[w] + 1)
  PROVE  CountInv'
<1> DEFINE j == cur[w]
<1>1. /\ j \in Jobs /\ status[j] \in {"running", "dropped"} /\ j \notin LockedRows
      /\ snap[w] = attempts[j] /\ attempts[j] \in Nat
      /\ status[j] = "running" => starts[j] = attempts[j] + 1
  BY DEF WriteBack, TypeInv, TypeOK, TaskHoldsRow, ExecInv, Executing, CountInv, Counted
<1>2. \A v \in Workers : v # w /\ pc[v] \in {"starting", "executing"} => cur[v] # j
  BY <1>1 DEF TypeInv, TypeOK, TaskHoldsRow, ExecInv, Executing
<1>3. \A v \in Workers : v # w /\ pc[v] \in {"locked", "marking"} => cur[v] # j
  BY <1>1 DEF LockedRows
<1>4. /\ \A v \in Workers : v # w => /\ pc'[v] = pc[v] /\ cur'[v] = cur[v] /\ snap'[v] = snap[v]
      /\ pc'[w] \notin {"locked", "marking", "starting", "executing"}
  BY DEF Release, AfterFailure, GoTo, TypeInv, TypeOK
<1>5. \A i \in Jobs : i # j => status'[i] = status[i] /\ attempts'[i] = attempts[i]
  BY DEF WriteBack, TypeInv, TypeOK
<1>6. \A i \in Jobs : status'[i] \notin {"gone", "dropped"} => Counted(i)'
  <2>1. CASE status[j] = "running"
    <3>1. PICK st \in {"done", "queued", "failed"}, n \in {attempts[j], snap[w] + 1} :
            /\ status' = [status EXCEPT ![j] = st]
            /\ attempts' = [attempts EXCEPT ![j] = n]
            /\ st = "done" <=> n = attempts[j]
      BY <1>1, <2>1 DEF WriteBack, Exists
    <3>2. /\ status'[j] = st /\ attempts'[j] = n
          /\ starts[j] = n + (IF st \in {"running", "done", "missing"} THEN 1 ELSE 0)
      BY <1>1, <2>1, <3>1 DEF TypeInv, TypeOK
    <3>3. QED
      BY <1>5, <3>2 DEF CountInv, Counted
  <2>2. CASE status[j] = "dropped"
    BY <1>5, <2>2 DEF WriteBack, Exists, CountInv, Counted
  <2>3. QED
    BY <1>1, <2>1, <2>2
<1>7. \A v \in Workers : pc'[v] \in {"locked", "marking", "starting", "executing"}
                           => snap'[v] = attempts'[cur'[v]]
  BY <1>2, <1>3, <1>4, <1>5 DEF CountInv, TypeInv, TaskHoldsRow
<1>8. QED
  BY <1>6, <1>7 DEF CountInv

\* A dropped row is counted no more, and its columns stay as they were.
LEMMA CascadeCounts ==
  ASSUME TypeInv, CountInv, NEW S, Cascade(S)
  PROVE  CountInv'
BY DEF Cascade, taskVars, CountInv, Counted, TypeInv, TypeOK

LEMMA WorkCounts ==
  ASSUME TypeInv, PickIsExclusive, ExecInv, CountInv, NEW w \in Workers, Work(w)
  PROVE  CountInv'
<1> USE DEF TypeInv, TypeOK, CountInv, Counted
<1>1. pc[w] # "idle" => cur[w] \in Jobs
  BY DEF TaskHoldsRow
<1>2. CASE Complete(w) \/ FailAndRequeue(w) \/ FailForGood(w)
  BY <1>2, WriteBackCounts DEF Complete, FailAndRequeue, FailForGood
<1>3. CASE MarkRunning(w)
  BY <1>1, <1>3 DEF MarkRunning, SetRunning, GoTo, PickIsExclusive
<1>4. CASE PickLock(w)
  <2>1. PICK i \in DOMAIN ready : /\ cur' = [cur EXCEPT ![w] = ready[i]]
                                  /\ snap' = [snap EXCEPT ![w] = attempts[ready[i]]]
    BY <1>4 DEF PickLock
  <2>2. pc' = [pc EXCEPT ![w] = "locked"] /\ UNCHANGED <<rowVars, starts>>
    BY <1>4 DEF PickLock, GoTo
  <2>3. QED
    BY <2>1, <2>2 DEF rowVars
<1>5. CASE DeferForCap(w) \/ PickAborts(w) \/ NotifyDocument(w) \/ LoseNotification(w)
  <2>1. CASE DeferForCap(w)
    BY <2>1 DEF DeferForCap, Release, rowVars
  <2>2. CASE PickAborts(w)
    BY <2>2 DEF PickAborts, Release, rowVars
  <2>3. CASE NotifyDocument(w)
    BY <2>3 DEF NotifyDocument, Release, rowVars
  <2>4. CASE LoseNotification(w)
    BY <2>4 DEF LoseNotification, Release, rowVars
  <2>5. QED
    BY <1>5, <2>1, <2>2, <2>3, <2>4
<1>6. CASE PassCap(w) \/ StartDispatch(w) \/ Heartbeat(w)
  BY <1>6 DEF PassCap, StartDispatch, Heartbeat, GoTo, rowVars, taskVars
<1>7. CASE LoseWriteBack(w)
  BY <1>7 DEF LoseWriteBack, AfterFailure, Release, GoTo, rowVars
<1>8. CASE DeleteUser(w)
  BY <1>8, CascadeCounts DEF DeleteUser
<1>9. QED
  BY <1>2, <1>3, <1>4, <1>5, <1>6, <1>7, <1>8 DEF Work

LEMMA NextCounts ==
  TypeInv /\ PickIsExclusive /\ ExecInv /\ CountInv /\ [Next]_vars => CountInv'
<1> SUFFICES ASSUME TypeInv, PickIsExclusive, ExecInv, CountInv, [Next]_vars
             PROVE  CountInv'
  OBVIOUS
<1> USE DEF TypeInv, TypeOK, CountInv, Counted
<1>1. ASSUME NEW j \in Jobs, RetryJob(j) PROVE CountInv'
  <2>1. \A w \in Workers :
          pc[w] \in {"locked", "marking", "starting", "executing"} => cur[w] # j
    BY <1>1 DEF RetryJob, PickIsExclusive, ExecInv, Executing
  <2>2. QED
    BY <1>1, <2>1 DEF RetryJob, RequeueForRetry, taskVars
<1>2. ASSUME NEW j \in Jobs, Row(j), ~RetryJob(j) PROVE CountInv'
  <2>1. CASE Enqueue(j)
    BY <2>1 DEF Enqueue, rowVars, taskVars
  <2>2. CASE BecomeDue(j)
    BY <2>2 DEF BecomeDue, rowVars, taskVars
  <2>3. CASE ExpireOrphan(j) \/ ExpireLive(j)
    BY <2>3 DEF ExpireOrphan, ExpireLive, rowVars, taskVars
  <2>4. CASE CancelJob(j) \/ DiscardForReingest(j) \/ PruneFinished(j)
    BY <2>4 DEF CancelJob, DiscardForReingest, PruneFinished, DeleteRow, rowVars, taskVars
  <2>5. CASE MarkMissing(j)
    BY <2>5 DEF MarkMissing, rowVars, taskVars
  <2>6. QED
    BY <1>2, <2>1, <2>2, <2>3, <2>4, <2>5 DEF Row
<1>3. CASE Reap
  <2>1. \A w \in Workers : pc[w] \in {"locked", "marking", "starting", "executing"} =>
          cur[w] \in Jobs \ Expired
    BY DEF PickIsExclusive, ExecInv, Executing, Expired, TaskHoldsRow
  <2>2. QED
    BY <1>3, <2>1 DEF Reap, Expired, taskVars
<1>4. CASE Restart
  BY <1>4 DEF Restart, rowVars
<1>5. CASE UNCHANGED vars
  BY <1>5 DEF vars, rowVars, taskVars
<1>6. ASSUME NEW p \in Personas, DeletePersona(p) PROVE CountInv'
  BY <1>6, CascadeCounts DEF DeletePersona
<1>7. QED
  BY <1>1, <1>2, <1>3, <1>4, <1>5, <1>6, WorkCounts DEF Next

(***************************************************************************)
(* While heartbeats never lapse the attempts column counts every execution *)
(* that was cut short or failed, once, whether its worker or the reaper    *)
(* counted it: no crash or failed statement makes an attempt free.         *)
(***************************************************************************)
THEOREM AttemptsAreExact ==
  ASSUME Budget["lapse"] = 0
  PROVE  Spec => []AttemptsCountStarts
<1>1. Init => CountInv
  BY DEF Init, CountInv, Counted
<1>2. CountInv => AttemptsCountStarts
  BY DEF CountInv, Counted, AttemptsCountStarts, Exists
<1>3. QED
  BY <1>1, <1>2, ExecInvHolds, NextCounts, PTL DEF Spec

(***************************************************************************)
(* With lapses two tasks may run one job and the column may lag behind,    *)
(* but what a task read when it picked the row, and the column itself, are *)
(* never ahead of the executions begun.                                    *)
(***************************************************************************)
Lags ==
  /\ \A j \in Jobs :
       /\ attempts[j] + (IF status[j] = "running" THEN 1 ELSE 0) <= starts[j]
       /\ status[j] = "failed" => starts[j] >= MaxAttempts
  /\ \A w \in Workers :
       /\ pc[w] \in {"locked", "marking"} => snap[w] <= starts[cur[w]]
       /\ pc[w] \in {"starting", "executing"} => snap[w] + 1 <= starts[cur[w]]

LagInv == spent["retry"] = 0 => Lags

LEMMA ColumnLags ==
  ASSUME TypeInv, Lags, NEW j \in Jobs
  PROVE  attempts[j] \in Nat /\ starts[j] \in Nat /\ attempts[j] <= starts[j]
<1>1. attempts[j] \in Nat /\ starts[j] \in Nat
  BY DEF TypeInv, TypeOK
<1>2. attempts[j] + 1 <= starts[j] \/ attempts[j] + 0 <= starts[j]
  BY DEF Lags
<1>3. QED
  BY <1>1, <1>2

LEMMA WriteBackLags ==
  ASSUME TypeInv, Lags, NEW w \in Workers,
         pc[w] \in {"starting", "executing"}, Release(w) \/ AfterFailure(w),
         starts' = starts,
         \/ WriteBack(cur[w], "done", attempts[cur[w]])
         \/ WriteBack(cur[w], "queued", snap[w] + 1)
         \/ Exhausted(w) /\ WriteBack(cur[w], "failed", snap[w] + 1)
  PROVE  Lags'
<1> DEFINE j == cur[w]
<1>1. /\ j \in Jobs /\ snap[w] \in Nat /\ starts[j] \in Nat /\ attempts[j] \in Nat
      /\ snap[w] + 1 <= starts[j] /\ attempts[j] <= starts[j]
  <2>1. j \in Jobs /\ snap[w] \in Nat /\ snap[w] + 1 <= starts[j]
    BY DEF TypeInv, TypeOK, TaskHoldsRow, Lags
  <2>2. QED
    BY <2>1, ColumnLags
<1>2. /\ \A v \in Workers : v # w => /\ pc'[v] = pc[v] /\ cur'[v] = cur[v] /\ snap'[v] = snap[v]
      /\ pc'[w] \notin {"locked", "marking", "starting", "executing"}
  BY DEF Release, AfterFailure, GoTo, TypeInv, TypeOK
<1>3. Exhausted(w) => starts[j] >= MaxAttempts
  BY <1>1, AttemptsAssumption DEF Exhausted
<1>4. \A i \in Jobs : i # j => status'[i] = status[i] /\ attempts'[i] = attempts[i]
  BY DEF WriteBack, TypeInv, TypeOK
<1>5. \/ status'[j] = status[j] /\ attempts'[j] = attempts[j]
      \/ status'[j] \in {"done", "queued"} /\ attempts'[j] \in {attempts[j], snap[w] + 1}
      \/ status'[j] = "failed" /\ attempts'[j] = snap[w] + 1 /\ Exhausted(w)
  BY <1>1 DEF WriteBack, TypeInv, TypeOK
<1>6. \A i \in Jobs : /\ attempts'[i] + (IF status'[i] = "running" THEN 1 ELSE 0) <= starts[i]
                      /\ status'[i] = "failed" => starts[i] >= MaxAttempts
  BY <1>1, <1>3, <1>4, <1>5 DEF Lags
<1>7. QED
  BY <1>2, <1>6 DEF Lags, TypeInv, TypeOK

LEMMA CascadeLags ==
  ASSUME TypeInv, Lags, NEW S, Cascade(S)
  PROVE  Lags'
<1>1. \A j \in Jobs : status'[j] = status[j] \/ status'[j] = "dropped"
  BY DEF Cascade
<1>2. UNCHANGED <<attempts, starts, pc, cur, snap>>
  BY DEF Cascade, taskVars
<1>3. \A j \in Jobs : attempts[j] \in Nat /\ starts[j] \in Nat /\ attempts[j] <= starts[j]
  BY ColumnLags
<1>4. QED
  BY <1>1, <1>2, <1>3 DEF Lags

LEMMA NextLags == TypeInv /\ LagInv /\ [Next]_vars => LagInv'
<1> SUFFICES ASSUME TypeInv, LagInv, [Next]_vars, spent'["retry"] = 0
             PROVE  Lags'
  BY DEF LagInv
<1>1. Lags
  <2>1. spent["retry"] \in Nat /\ spent'["retry"] >= spent["retry"]
    BY DEF Next, Work, Row, Reap, Restart, PickLock, DeferForCap, PassCap, MarkRunning,
           PickAborts, StartDispatch, Heartbeat, Complete, FailAndRequeue, FailForGood,
           LoseWriteBack, NotifyDocument, LoseNotification, Enqueue, BecomeDue, ExpireOrphan,
           ExpireLive, RetryJob, RequeueForRetry, CancelJob, DiscardForReingest,
           PruneFinished, DeleteRow, MarkMissing, DeleteUser, DeletePersona, Cascade,
           Spend, TypeInv, TypeOK, Disturbances, vars
  <2>2. QED
    BY <2>1 DEF LagInv
<1> USE DEF TypeInv, TypeOK, Lags
<1>2. ASSUME NEW w \in Workers, Work(w) PROVE Lags'
  <2>1. pc[w] # "idle" => cur[w] \in Jobs
    BY DEF TaskHoldsRow
  <2>2. CASE Complete(w) \/ FailAndRequeue(w) \/ FailForGood(w)
    BY <1>1, <2>2, WriteBackLags DEF Complete, FailAndRequeue, FailForGood
  <2>3. CASE MarkRunning(w)
    <3>1. /\ status' = [status EXCEPT ![cur[w]] = "running"]
          /\ starts' = [starts EXCEPT ![cur[w]] = @ + 1]
          /\ pc[w] = "marking" /\ UNCHANGED <<attempts, cur, snap>>
          /\ \E l \in {"starting", "executing"} : pc' = [pc EXCEPT ![w] = l]
      BY <2>3 DEF MarkRunning, SetRunning, GoTo
    <3>2. \A j \in Jobs : /\ starts'[j] >= starts[j]
                          /\ j = cur[w] => starts'[j] = starts[j] + 1
                          /\ j # cur[w] => status'[j] = status[j]
      BY <2>1, <3>1
    <3>3. \A j \in Jobs :
            /\ attempts'[j] + (IF status'[j] = "running" THEN 1 ELSE 0) <= starts'[j]
            /\ status'[j] = "failed" => starts'[j] >= MaxAttempts
      BY <1>1, <2>1, <3>1, <3>2, AttemptsAssumption
    <3>4. \A v \in Workers :
            /\ pc'[v] \in {"locked", "marking"} => snap'[v] <= starts'[cur'[v]]
            /\ pc'[v] \in {"starting", "executing"} => snap'[v] + 1 <= starts'[cur'[v]]
      BY <1>1, <2>1, <3>1, <3>2 DEF TaskHoldsRow
    <3>5. QED
      BY <3>3, <3>4
  <2>4. CASE PickLock(w)
    <3>1. PICK i \in DOMAIN ready : /\ cur' = [cur EXCEPT ![w] = ready[i]]
                                    /\ snap' = [snap EXCEPT ![w] = attempts[ready[i]]]
      BY <2>4 DEF PickLock
    <3>2. pc' = [pc EXCEPT ![w] = "locked"] /\ UNCHANGED <<rowVars, starts>>
      BY <2>4 DEF PickLock, GoTo
    <3>3. ready[i] \in Jobs /\ attempts[ready[i]] <= starts[ready[i]]
      <4>1. ready[i] \in Jobs
        BY <3>1 DEF TypeInv, TypeOK
      <4>2. QED
        BY <1>1, <4>1, ColumnLags
    <3>4. QED
      BY <1>1, <3>1, <3>2, <3>3 DEF rowVars
  <2>5. CASE DeferForCap(w) \/ PickAborts(w) \/ NotifyDocument(w) \/ LoseNotification(w)
    <3>1. CASE DeferForCap(w)
      BY <1>1, <3>1 DEF DeferForCap, Release, rowVars
    <3>2. CASE PickAborts(w)
      BY <1>1, <3>2 DEF PickAborts, Release, rowVars
    <3>3. CASE NotifyDocument(w)
      BY <1>1, <3>3 DEF NotifyDocument, Release, rowVars
    <3>4. CASE LoseNotification(w)
      BY <1>1, <3>4 DEF LoseNotification, Release, rowVars
    <3>5. QED
      BY <2>5, <3>1, <3>2, <3>3, <3>4
  <2>6. CASE PassCap(w) \/ StartDispatch(w) \/ Heartbeat(w)
    <3>1. CASE PassCap(w)
      BY <1>1, <3>1 DEF PassCap, GoTo, rowVars
    <3>2. CASE StartDispatch(w)
      BY <1>1, <3>2 DEF StartDispatch, GoTo, rowVars
    <3>3. CASE Heartbeat(w)
      BY <1>1, <3>3 DEF Heartbeat, rowVars, taskVars
    <3>4. QED
      BY <2>6, <3>1, <3>2, <3>3
  <2>7. CASE LoseWriteBack(w)
    <3>1. /\ UNCHANGED <<rowVars, starts>>
          /\ \/ Release(w)
             \/ GoTo(w, "notifying") /\ UNCHANGED <<cur, snap>>
      BY <2>7 DEF LoseWriteBack, AfterFailure
    <3>2. CASE Release(w)
      BY <1>1, <3>1, <3>2 DEF Release, rowVars
    <3>3. CASE GoTo(w, "notifying") /\ UNCHANGED <<cur, snap>>
      BY <1>1, <3>1, <3>3 DEF GoTo, rowVars
    <3>4. QED
      BY <3>1, <3>2, <3>3
  <2>8. CASE DeleteUser(w)
    BY <1>1, <2>8, CascadeLags DEF DeleteUser
  <2>9. QED
    BY <1>2, <2>2, <2>3, <2>4, <2>5, <2>6, <2>7, <2>8 DEF Work
<1>3. ASSUME NEW j \in Jobs, Row(j) PROVE Lags'
  <2>1. ~RetryJob(j)
    BY DEF RetryJob, RequeueForRetry, Spend, Disturbances
  <2>2. QED
    BY <1>1, <1>3, <2>1 DEF Row, Enqueue, BecomeDue, ExpireOrphan, ExpireLive, CancelJob,
          DiscardForReingest, PruneFinished, DeleteRow, MarkMissing, rowVars, taskVars
<1>4. CASE Reap
  BY <1>1, <1>4 DEF Reap, Expired, taskVars
<1>5. CASE Restart
  BY <1>1, <1>5 DEF Restart, rowVars
<1>6. CASE UNCHANGED vars
  BY <1>1, <1>6 DEF vars, rowVars, taskVars
<1>7. ASSUME NEW p \in Personas, DeletePersona(p) PROVE Lags'
  BY <1>1, <1>7, CascadeLags DEF DeletePersona
<1>8. QED
  BY <1>2, <1>3, <1>4, <1>5, <1>6, <1>7 DEF Next

(***************************************************************************)
(* Without a retry a job is given up only when MaxAttempts executions have *)
(* begun, through crashes, lapses, failed statements and late write-backs. *)
(***************************************************************************)
THEOREM NeverGivenUpEarly == Spec => []GivenUpOnlyAfterMaxStarts
<1>1. Init => LagInv
  BY DEF Init, LagInv, Lags
<1>2. LagInv => GivenUpOnlyAfterMaxStarts
  BY DEF LagInv, Lags, GivenUpOnlyAfterMaxStarts
<1>3. QED
  BY <1>1, <1>2, InitTypeInv, NextTypeInv, NextLags, PTL DEF Spec

-----------------------------------------------------------------------------
(***************************************************************************)
(* The refinement of JobLedger: a job is pending while its row is queued   *)
(* or running, and active while a task executes it. ExecInv makes that     *)
(* task the only one, so that its end is the end of the ledger's           *)
(* execution, or its interruption when the row was dropped meanwhile.      *)
(***************************************************************************)
StepsLedger == [Ledger!Next]_(Ledger!ledgerVars)

\* The ledger sees of a row that is not in R what it saw before.
SeesSame(R) ==
  \A i \in Jobs \ R : \/ status'[i] = status[i]
                      \/ status[i] \in {"queued", "running"} /\ status'[i] \in {"queued", "running"}

LEMMA SameOutcome == SeesSame({}) => LedgerOutcome' = LedgerOutcome
BY DEF SeesSame, LedgerOutcome

LEMMA SameActive ==
  (\A w \in Workers, j \in Jobs : Executing(w, j)' = Executing(w, j))
    => LedgerActive' = LedgerActive
BY DEF LedgerActive

LEMMA Stutters ==
  ASSUME SeesSame({}), \A w \in Workers, j \in Jobs : Executing(w, j)' = Executing(w, j)
  PROVE  StepsLedger
BY SameOutcome, SameActive DEF StepsLedger, Ledger!ledgerVars

\* One task stops executing one row.
LEMMA OneStops ==
  ASSUME TypeInv, ExecInv, NEW w \in Workers, pc[w] \in {"starting", "executing"},
         Release(w) \/ AfterFailure(w)
  PROVE  /\ cur[w] \in LedgerActive /\ LedgerActive' = LedgerActive \ {cur[w]}
         /\ status[cur[w]] \in {"running", "dropped"}
<1>1. cur[w] \in Jobs /\ Executing(w, cur[w]) /\ status[cur[w]] \in {"running", "dropped"}
  BY DEF TypeInv, TaskHoldsRow, ExecInv, Executing
<1>2. \A v \in Workers : v # w => \A j \in Jobs : Executing(v, j)' = Executing(v, j)
  BY DEF Release, AfterFailure, GoTo, Executing, TypeInv, TypeOK
<1>3. \A j \in Jobs : ~Executing(w, j)'
  BY DEF Release, AfterFailure, GoTo, Executing, TypeInv, TypeOK
<1>4. \A v \in Workers : v # w => ~Executing(v, cur[w])
  BY <1>1 DEF ExecInv
<1>5. \A j \in Jobs : j # cur[w] => ~Executing(w, j)
  BY DEF Executing
<1>6. QED
  BY <1>1, <1>2, <1>3, <1>4, <1>5 DEF LedgerActive

\* One task stops executing one row, of which nothing else is seen.
LEMMA OneIsInterrupted ==
  ASSUME TypeInv, ExecInv, NEW w \in Workers, pc[w] \in {"starting", "executing"},
         Release(w) \/ AfterFailure(w), status' = status
  PROVE  StepsLedger
<1>1. cur[w] \in LedgerActive /\ LedgerActive' = LedgerActive \ {cur[w]}
  BY OneStops
<1>2. LedgerOutcome' = LedgerOutcome
  BY SameOutcome DEF SeesSame
<1>3. {cur[w]} \in SUBSET LedgerActive /\ {cur[w]} # {}
  BY <1>1
<1>4. Ledger!Interrupt
  BY <1>1, <1>2, <1>3 DEF Ledger!Interrupt
<1>5. QED
  BY <1>4 DEF StepsLedger, Ledger!Next

LEMMA CascadeStepsLedger ==
  ASSUME NEW S \in Owned, Cascade(S)
  PROVE  StepsLedger
<1>1. \A w \in Workers, i \in Jobs : Executing(w, i)' = Executing(w, i)
  BY DEF Cascade, taskVars, Executing
<1>2. LedgerActive' = LedgerActive
  BY <1>1, SameActive
<1>3. LedgerOutcome' = [j \in Jobs |-> IF j \in S THEN "dropped" ELSE LedgerOutcome[j]]
  BY DEF Cascade, LedgerOutcome
<1>4. QED
  BY <1>2, <1>3 DEF StepsLedger, Ledger!Next, Ledger!Drop

LEMMA WorkStepsLedger ==
  ASSUME TypeInv, PickIsExclusive, ExecInv, NEW w \in Workers, Work(w)
  PROVE  StepsLedger
<1> USE DEF TypeInv, TypeOK
<1>1. pc[w] # "idle" => cur[w] \in Jobs
  BY DEF TaskHoldsRow
<1>2. CASE \/ PickLock(w) \/ DeferForCap(w) \/ PassCap(w) \/ PickAborts(w)
           \/ NotifyDocument(w) \/ LoseNotification(w)
  BY <1>2, Stutters DEF PickLock, DeferForCap, PassCap, PickAborts, NotifyDocument,
     LoseNotification, GoTo, Release, rowVars, SeesSame, Executing
<1>3. CASE StartDispatch(w) \/ Heartbeat(w)
  BY <1>3, Stutters DEF StartDispatch, Heartbeat, GoTo, rowVars, taskVars, SeesSame, Executing
<1>4. CASE MarkRunning(w)
  <2> DEFINE j == cur[w]
  <2>1. j \in Jobs /\ status[j] = "queued" /\ status' = [status EXCEPT ![j] = "running"]
    BY <1>1, <1>4 DEF MarkRunning, SetRunning, PickIsExclusive
  <2>2. SeesSame({})
    BY <2>1 DEF SeesSame
  <2>3. j \notin LedgerActive
    BY <2>1 DEF LedgerActive, ExecInv
  <2>4. LedgerActive' = LedgerActive \union {j}
    <3>1. \A v \in Workers : v # w => \A i \in Jobs : Executing(v, i)' = Executing(v, i)
      BY <1>4 DEF MarkRunning, GoTo, Executing
    <3>2. \A i \in Jobs : ~Executing(w, i)
      BY <1>4 DEF MarkRunning, Executing
    <3>3. \A i \in Jobs : Executing(w, i)' <=> i = j
      <4>1. pc'[w] \in {"starting", "executing"} /\ cur' = cur
        BY <1>4 DEF MarkRunning, GoTo
      <4>2. QED
        BY <4>1 DEF Executing
    <3>4. ASSUME NEW i \in Jobs
          PROVE  (\E v \in Workers : Executing(v, i)') <=> i \in LedgerActive \union {j}
      BY <3>1, <3>2, <3>3 DEF LedgerActive
    <3>5. QED
      BY <2>1, <3>4 DEF LedgerActive
  <2>5. LedgerOutcome[j] = "pending"
    BY <2>1 DEF LedgerOutcome
  <2>6. Ledger!Begin(j)
    BY <2>2, <2>3, <2>4, <2>5, SameOutcome DEF Ledger!Begin
  <2>7. QED
    BY <2>1, <2>6 DEF StepsLedger, Ledger!Next
<1>5. CASE Complete(w) \/ FailAndRequeue(w) \/ FailForGood(w)
  <2> DEFINE j == cur[w]
  <2>1. /\ pc[w] \in {"starting", "executing"} /\ (Release(w) \/ AfterFailure(w))
        /\ \E st \in {"done", "queued", "failed"} : \E n : WriteBack(j, st, n)
    BY <1>5 DEF Complete, FailAndRequeue, FailForGood
  <2>2. /\ j \in LedgerActive /\ LedgerActive' = LedgerActive \ {j}
        /\ j \in Jobs /\ status[j] \in {"running", "dropped"}
    BY <1>1, <2>1, OneStops
  <2>3. CASE status[j] = "running"
    <3>1. PICK st \in {"done", "queued", "failed"} : status' = [status EXCEPT ![j] = st]
      BY <2>1, <2>3 DEF WriteBack, Exists
    <3>2. LedgerOutcome[j] = "pending"
      BY <2>2, <2>3 DEF LedgerOutcome
    <3>3. \E o \in {"done", "pending", "failed"} :
            LedgerOutcome' = [LedgerOutcome EXCEPT ![j] = o]
      <4>1. CASE st = "queued"
        BY <2>2, <3>1, <3>2, <4>1 DEF LedgerOutcome
      <4>2. CASE st = "done"
        BY <2>2, <3>1, <4>2 DEF LedgerOutcome
      <4>3. CASE st = "failed"
        BY <2>2, <3>1, <4>3 DEF LedgerOutcome
      <4>4. QED
        BY <4>1, <4>2, <4>3
    <3>4. Ledger!End(j)
      BY <2>2, <3>2, <3>3 DEF Ledger!End
    <3>5. QED
      BY <2>2, <3>4 DEF StepsLedger, Ledger!Next
  <2>4. CASE status[j] = "dropped"
    <3>1. status' = status
      BY <2>1, <2>4 DEF WriteBack, Exists
    <3>2. QED
      BY <2>1, <3>1, OneIsInterrupted
  <2>5. QED
    BY <2>2, <2>3, <2>4
<1>6. CASE LoseWriteBack(w)
  BY <1>6, OneIsInterrupted DEF LoseWriteBack, rowVars
<1>7. CASE DeleteUser(w)
  <2>1. cur[w] \in Jobs
    BY <1>1, <1>7 DEF DeleteUser
  <2>2. JobsOfUser(UserOf[cur[w]]) \in Owned
    BY <2>1, JobsAssumption DEF Owned
  <2>3. QED
    BY <1>7, <2>2, CascadeStepsLedger DEF DeleteUser
<1>8. QED
  BY <1>2, <1>3, <1>4, <1>5, <1>6, <1>7 DEF Work

LEMMA RowStepsLedger ==
  ASSUME TypeInv, ExecInv, NEW j \in Jobs, Row(j)
  PROVE  StepsLedger
<1> USE DEF TypeInv, TypeOK
<1>1. \A w \in Workers, i \in Jobs : Executing(w, i)' = Executing(w, i)
  BY DEF Row, Enqueue, BecomeDue, ExpireOrphan, ExpireLive, RetryJob, RequeueForRetry,
         CancelJob, DiscardForReingest, PruneFinished, DeleteRow, MarkMissing, taskVars,
         Executing
<1>2. LedgerActive' = LedgerActive
  BY <1>1, SameActive
<1>3. CASE Enqueue(j)
  <2>1. status[j] = "new" /\ status' = [status EXCEPT ![j] = "queued"]
    BY <1>3 DEF Enqueue
  <2>2. LedgerOutcome[j] = "absent" /\ LedgerOutcome' = [LedgerOutcome EXCEPT ![j] = "pending"]
    BY <2>1 DEF LedgerOutcome
  <2>3. QED
    BY <1>2, <2>2 DEF StepsLedger, Ledger!Next, Ledger!Submit
<1>4. CASE RetryJob(j)
  <2>1. status[j] \in {"failed", "missing"} /\ status' = [status EXCEPT ![j] = "queued"]
    BY <1>4 DEF RetryJob, RequeueForRetry
  <2>2. LedgerOutcome[j] = "failed" /\ LedgerOutcome' = [LedgerOutcome EXCEPT ![j] = "pending"]
    BY <2>1 DEF LedgerOutcome
  <2>3. QED
    BY <1>2, <2>2 DEF StepsLedger, Ledger!Next, Ledger!Reopen
<1>5. CASE CancelJob(j) \/ DiscardForReingest(j) \/ PruneFinished(j)
  <2>1. /\ status[j] \in {"queued", "done", "failed", "missing"}
        /\ status' = [status EXCEPT ![j] = "gone"]
    BY <1>5 DEF CancelJob, DiscardForReingest, PruneFinished, DeleteRow
  <2>2. j \notin LedgerActive
    BY <2>1 DEF LedgerActive, ExecInv
  <2>3. LedgerOutcome[j] \in {"pending", "done", "failed"}
    BY <2>1 DEF LedgerOutcome
  <2>4. LedgerOutcome' = [i \in Jobs |-> IF i \in {j} THEN "removed" ELSE LedgerOutcome[i]]
    BY <2>1 DEF LedgerOutcome
  <2>5. Ledger!Remove({j})
    BY <1>2, <2>2, <2>3, <2>4 DEF Ledger!Remove
  <2>6. QED
    BY <2>5 DEF StepsLedger, Ledger!Next
<1>6. CASE BecomeDue(j) \/ ExpireOrphan(j) \/ ExpireLive(j)
  BY <1>1, <1>6, Stutters DEF BecomeDue, ExpireOrphan, ExpireLive, rowVars, SeesSame
<1>7. CASE MarkMissing(j)
  <2>1. /\ j \in Exports /\ status[j] = "done"
        /\ status' = [status EXCEPT ![j] = "missing"]
    BY <1>7 DEF MarkMissing
  <2>2. LedgerOutcome[j] = "done" /\ LedgerOutcome' = [LedgerOutcome EXCEPT ![j] = "failed"]
    BY <2>1 DEF LedgerOutcome
  <2>3. QED
    BY <1>2, <2>1, <2>2 DEF StepsLedger, Ledger!Next, Ledger!Withdraw
<1>8. QED
  BY <1>3, <1>4, <1>5, <1>6, <1>7 DEF Row

LEMMA NextStepsLedger ==
  TypeInv /\ PickIsExclusive /\ ExecInv /\ [Next]_vars => StepsLedger
<1> SUFFICES ASSUME TypeInv, PickIsExclusive, ExecInv, [Next]_vars PROVE StepsLedger
  OBVIOUS
<1>1. CASE Reap
  BY <1>1, Stutters DEF Reap, Expired, taskVars, SeesSame, Executing
<1>2. CASE Restart
  <2>1. LedgerActive' = {} /\ LedgerOutcome' = LedgerOutcome
    BY <1>2, SameOutcome DEF Restart, rowVars, SeesSame, LedgerActive, Executing
  <2>2. CASE LedgerActive = {}
    BY <2>1, <2>2 DEF StepsLedger, Ledger!ledgerVars
  <2>3. CASE LedgerActive # {}
    BY <2>1, <2>3 DEF StepsLedger, Ledger!Next, Ledger!Interrupt
  <2>4. QED
    BY <2>2, <2>3
<1>3. CASE UNCHANGED vars
  BY <1>3, Stutters DEF vars, rowVars, taskVars, SeesSame, Executing
<1>4. ASSUME NEW p \in Personas, DeletePersona(p) PROVE StepsLedger
  <2>1. JobsOfPersona(p) \in Owned
    BY DEF Owned
  <2>2. QED
    BY <1>4, <2>1, CascadeStepsLedger DEF DeletePersona
<1>5. QED
  BY <1>1, <1>2, <1>3, <1>4, WorkStepsLedger, RowStepsLedger DEF Next

(***************************************************************************)
(* While heartbeats never lapse the table, its workers, the reaper, the    *)
(* administrators, the export poll and the deletions of personas and users *)
(* implement the ledger that the ingest pipeline builds on.                *)
(***************************************************************************)
THEOREM QueueImplementsLedger ==
  ASSUME Budget["lapse"] = 0
  PROVE  Spec => ImplementsLedger
<1>1. Init => Ledger!Init
  <2>1. Init => LedgerActive = {}
    BY DEF Init, LedgerActive, Executing
  <2>2. Init => LedgerOutcome = [j \in Jobs |-> "absent"]
    BY DEF Init, LedgerOutcome
  <2>3. QED
    BY <2>1, <2>2 DEF Ledger!Init
<1>2. TypeInv /\ PickIsExclusive /\ ExecInv /\ [Next]_vars => [Ledger!Next]_(Ledger!ledgerVars)
  BY NextStepsLedger DEF StepsLedger
<1>3. QED
  BY <1>1, <1>2, ExecInvHolds, PTL DEF Spec, ImplementsLedger, Ledger!Spec
=============================================================================
