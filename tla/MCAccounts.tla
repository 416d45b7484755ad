----------------------------- MODULE MCAccounts -----------------------------
(***************************************************************************)
(* Instances of Accounts for TLC: two administrators, an invitation, two   *)
(* requests that accept it and one change of an account.                   *)
(***************************************************************************)
EXTENDS Accounts, TLC

CONSTANTS a1, a2, n1, n2, i1, q1, e1

Email == [i \in Invites |-> e1]
Role  == [i \in Invites |-> "user"]

OneInvite == [a \in Accepts |-> i1]

Symmetry == Permutations(Accepts)

\* One request takes an administrator's rights and makes its account active.
SomeChanges == {[user |-> a2, role |-> "user", status |-> "active"]}

NoChanges == {}
=============================================================================
