----------------------------- MODULE MCJobQueue -----------------------------
(***************************************************************************)
(* Instances of JobQueue for TLC: two ingest jobs of one persona (i1, i2), *)
(* or an ingest job, an export (e1) and a deletion of the account (d1),    *)
(* all of one user, and the disturbances each run allows.                  *)
(***************************************************************************)
EXTENDS JobQueue, TLC

CONSTANTS i1, i2, e1, d1, alice, granny

OneOwner == [j \in Jobs |-> alice]
OnePersona == [j \in Jobs |-> IF j \in IngestJobs THEN granny ELSE NoPersona]

Disturbed(c, l, d, r) == [crash |-> c, lapse |-> l, dbError |-> d, retry |-> r]

Faulty     == Disturbed(1, 0, 0, 1)
Everything == Disturbed(1, 1, 1, 0)

WorkerSymmetry == Permutations(Workers)
=============================================================================
