---------------------------- MODULE MCGeneration ----------------------------
(***************************************************************************)
(* Instances of Generation for TLC: one user repeats his key.  Two requests *)
(* create a session, two posts say the same to the first session, and one  *)
(* says something else to the second.                                      *)
(***************************************************************************)
EXTENDS Generation

CONSTANTS c1, c2, r1, r2, r3, ann, k1, a, b

Session == [r \in Posts |-> IF r = r3 THEN c2 ELSE c1]
OneUser == [c \in Creates |-> ann]
OneKey  == [r \in Requests |-> k1]
Bodies  == [r \in Requests |-> IF r = r3 THEN b ELSE a]
=============================================================================
