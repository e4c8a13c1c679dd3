------------------------ MODULE MCInventoryReferences ------------------------
(***************************************************************************)
(* A small instance of InventoryReferences.                                *)
(***************************************************************************)
EXTENDS InventoryReferences, TLC

CONSTANTS s1, v1, v2, k1, k2

(* Two packages with the same skill, which a version of the first does not  *)
(* export, so that both may be installed and an update may bring it back.   *)
TwoPackages == k1 :> (v1 :> {s1} @@ v2 :> {}) @@ k2 :> (v1 :> {s1})

Symmetry == Permutations(Task) \cup Permutations(Project)
=============================================================================
