----------------------------- MODULE MCProfiles -----------------------------
(***************************************************************************)
(* Instances of Profiles for TLC: a document of an era, two requests to    *)
(* recompute and one that shows the profile.                               *)
(***************************************************************************)
EXTENDS Profiles, TLC

CONSTANTS d1, e1, r1, r2, g1

InEra == [d \in Docs |-> e1]

Symmetry == Permutations(Recomputes)
=============================================================================
