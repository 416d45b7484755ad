----------------------------- MODULE JobLedger ------------------------------
(***************************************************************************)
(* What the job queue promises to the rest of the backend, without tables, *)
(* locks, heartbeats or workers: a submitted job is pending until it is    *)
(* done or failed, at most one execution of it is in progress, an          *)
(* interrupted execution leaves it pending, and a job that is done never   *)
(* runs again. A job is removed by itself only while nobody executes it;   *)
(* the jobs of an owner are dropped with it at any moment, also one that   *)
(* is being executed or was never submitted, and none of them begins after *)
(* that. What a revocable job (an export) has done may be lost.            *)
(***************************************************************************)
CONSTANTS
  Jobs,
  Owned,      \* the sets of jobs that go together, with their owner
  Revocable   \* the jobs whose result can be lost

VARIABLES
  outcome,  \* what is known of each job
  active    \* the jobs being executed

ledgerVars == <<outcome, active>>

Outcome == {"absent", "pending", "done", "failed", "removed", "dropped"}

LedgerTypeOK ==
  /\ outcome \in [Jobs -> Outcome]
  /\ active \in SUBSET Jobs

Init ==
  /\ outcome = [j \in Jobs |-> "absent"]
  /\ active = {}

Submit(j) ==
  /\ outcome[j] = "absent"
  /\ outcome' = [outcome EXCEPT ![j] = "pending"]
  /\ UNCHANGED active

Begin(j) ==
  /\ outcome[j] = "pending"
  /\ j \notin active
  /\ active' = active \union {j}
  /\ UNCHANGED outcome

\* An execution ends: with success, for another try, or with a failure.
End(j) ==
  /\ outcome[j] = "pending"
  /\ j \in active
  /\ active' = active \ {j}
  /\ \E o \in {"done", "pending", "failed"} : outcome' = [outcome EXCEPT ![j] = o]

\* Executions end without a result: the process died, the result was lost, or
\* the job was dropped meanwhile.
Interrupt ==
  /\ \E S \in SUBSET active : S # {} /\ active' = active \ S
  /\ UNCHANGED outcome

Reopen(j) ==
  /\ outcome[j] = "failed"
  /\ outcome' = [outcome EXCEPT ![j] = "pending"]
  /\ UNCHANGED active

Withdraw(j) ==
  /\ j \in Revocable
  /\ outcome[j] = "done"
  /\ outcome' = [outcome EXCEPT ![j] = "failed"]
  /\ UNCHANGED active

\* One statement may remove several jobs; never one that is being executed.
Remove(S) ==
  /\ S # {}
  /\ \A j \in S : outcome[j] \in {"pending", "done", "failed"} /\ j \notin active
  /\ outcome' = [j \in Jobs |-> IF j \in S THEN "removed" ELSE outcome[j]]
  /\ UNCHANGED active

\* An owner goes and all its jobs with it; what is being executed goes on.
Drop(S) ==
  /\ outcome' = [j \in Jobs |-> IF j \in S THEN "dropped" ELSE outcome[j]]
  /\ UNCHANGED active

Next ==
  \/ \E j \in Jobs : Submit(j) \/ Begin(j) \/ End(j) \/ Reopen(j) \/ Withdraw(j)
  \/ \E S \in SUBSET Jobs : Remove(S)
  \/ \E S \in Owned : Drop(S)
  \/ Interrupt

Spec == Init /\ [][Next]_ledgerVars
=============================================================================
