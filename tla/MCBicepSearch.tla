--------------------------- MODULE MCBicepSearch ---------------------------
(* Instances of BicepFiles.                                                 *)
EXTENDS BicepFiles

(* Nothing tells one type from another. *)
Symmetry == Permutations(Types)
=============================================================================
