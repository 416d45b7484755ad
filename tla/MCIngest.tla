------------------------------ MODULE MCIngest ------------------------------
(***************************************************************************)
(* Instances of Ingest for TLC: a text of two batches or a recording, two  *)
(* executions per job, and the disturbances each run allows.               *)
(***************************************************************************)
EXTENDS Ingest

Disturbed(S) == [d \in Disturbances |-> IF d \in S THEN 1 ELSE 0]

Troubles    == [Disturbed(Disturbances) EXCEPT !["fault"] = 2, !["reingest"] = 2]
CrashOnce   == Disturbed({"crash"})
=============================================================================
