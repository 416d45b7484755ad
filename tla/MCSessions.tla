----------------------------- MODULE MCSessions -----------------------------
(***************************************************************************)
(* Instances of Sessions for TLC: two logins, two requests that redeem one *)
(* token, one that logs out everywhere, one visit, and one deletion of the *)
(* account.  At most MaxEvents of these happen in one behaviour; a request *)
(* cut short, or a logout that fails, counts for two more.                 *)
(***************************************************************************)
EXTENDS Sessions, TLC

CONSTANTS l1, l2, x1, x2, v1, m1, d1, t1, MaxEvents

OneToken == [r \in Resets |-> t1]
Symmetry == Permutations(Logins) \union Permutations(Resets)

AtMostMaxEvents == Cardinality({r \in Requests : pc[r] # "idle"}) + 2 * spent <= MaxEvents
=============================================================================
