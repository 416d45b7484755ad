----------------------------- MODULE MCStorage ------------------------------
(***************************************************************************)
(* Instances of Storage for TLC: two uploads of one file with one key, and *)
(* one of another file, larger, with the same key.                         *)
(***************************************************************************)
EXTENDS Storage, TLC

CONSTANTS u1, u2, u3, p1, k1, a, b

OnePersona  == [u \in Uploads |-> p1]
Contents    == [u \in Uploads |-> IF u = u3 THEN b ELSE a]
SameKey     == [u \in Uploads |-> k1]
Sizes       == [u \in Uploads |-> IF u = u3 THEN 2 ELSE 1]
=============================================================================
