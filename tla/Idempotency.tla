---------------------------- MODULE Idempotency -----------------------------
(***************************************************************************)
(* What services/idempotency.rs promises, with the table it keeps, to the  *)
(* handlers that call it: check at the beginning, store at the end.        *)
(*                                                                         *)
(* A request works unless a response is stored for its user, route and     *)
(* key; the first response stored stays, for 24 hours and then, no longer  *)
(* looked at, until the cleanup removes it.  Nothing keeps requests that   *)
(* come together from working both, and a response that finds a stale one  *)
(* in its place is not stored at all.                                      *)
(***************************************************************************)
CONSTANTS
  Requests,
  SlotOf,    \* user, route and key of a request
  BodyOf,    \* its request_hash
  None,      \* no response stored
  Stale      \* one more than 24 hours old

VARIABLES
  stage,     \* where each request is
  stored,    \* the request whose response is stored in a slot
  replayed,  \* the request whose response a request was given
  effects    \* requests whose work is there to see

contractVars == <<stage, stored, replayed, effects>>

Slots == {SlotOf[r] : r \in Requests}

Init ==
  /\ stage = [r \in Requests |-> "new"]
  /\ stored = [s \in Slots |-> None]
  /\ replayed = [r \in Requests |-> None]
  /\ effects = {}

\* check finds nothing, or nothing it may use.
Work(r) ==
  /\ stage[r] = "new" /\ stored[SlotOf[r]] \notin Requests
  /\ stage' = [stage EXCEPT ![r] = "working"]
  /\ UNCHANGED <<stored, replayed, effects>>

\* check finds the response to the same body.
Replay(r) ==
  LET v == stored[SlotOf[r]]
  IN /\ stage[r] = "new" /\ v \in Requests /\ BodyOf[v] = BodyOf[r]
     /\ replayed' = [replayed EXCEPT ![r] = v]
     /\ stage' = [stage EXCEPT ![r] = "ended"]
     /\ UNCHANGED <<stored, effects>>

Act(r) ==
  /\ stage[r] = "working"
  /\ effects' = effects \union {r}
  /\ UNCHANGED <<stage, stored, replayed>>

\* store, at the end.
Store(r) ==
  /\ stage[r] = "working"
  /\ stored' = [stored EXCEPT ![SlotOf[r]] = IF @ = None THEN r ELSE @]
  /\ stage' = [stage EXCEPT ![r] = "ended"]
  /\ UNCHANGED <<replayed, effects>>

\* Requests end with nothing stored: refused, failed or cut short.
End(R) ==
  /\ \A r \in R : stage[r] \in {"new", "working"}
  /\ stage' = [r \in Requests |-> IF r \in R THEN "ended" ELSE stage[r]]
  /\ UNCHANGED <<stored, replayed, effects>>

\* What requests did is deleted again.
Forget(R) ==
  /\ effects' = effects \ R
  /\ UNCHANGED <<stage, stored, replayed>>

Expire(s) ==
  /\ stored[s] \in Requests
  /\ stored' = [stored EXCEPT ![s] = Stale]
  /\ UNCHANGED <<stage, replayed, effects>>

Prune(s) ==
  /\ stored[s] = Stale
  /\ stored' = [stored EXCEPT ![s] = None]
  /\ UNCHANGED <<stage, replayed, effects>>

Next ==
  \/ \E r \in Requests : Work(r) \/ Replay(r) \/ Act(r) \/ Store(r)
  \/ \E R \in SUBSET Requests : End(R) \/ Forget(R)
  \/ \E s \in Slots : Expire(s) \/ Prune(s)

Spec == Init /\ [][Next]_contractVars
=============================================================================
