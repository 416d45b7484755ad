----------------------------- MODULE MCPersonas -----------------------------
(***************************************************************************)
(* Instances of Personas for TLC: a persona and room for one more, a       *)
(* request to create one, a repeat of it and a request to create another,  *)
(* a rename to the name of the first, two deletions, two uploads of an     *)
(* avatar and its removal.                                                 *)
(***************************************************************************)
EXTENDS Personas, TLC

CONSTANTS p0, c1, c2, c3, n1, d1, d2, a1, a2, x1, ann, ben, cyd

OnFirst == [r \in OnPersona |-> p0]
ThreeNames == [x \in Named |-> CASE x = p0 -> ben [] x = c3 -> cyd [] OTHER -> ann]

Symmetry == Permutations(Deletes) \union Permutations(AvatarUploads)
=============================================================================
