----------------------------- MODULE MCExports ------------------------------
(***************************************************************************)
(* Instances of Exports for TLC: two requests to export two personas, and  *)
(* one that shows a status.                                                *)
(***************************************************************************)
EXTENDS Exports

CONSTANTS e1, e2, g1, p1, p2
=============================================================================
