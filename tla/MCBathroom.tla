----------------------------- MODULE MCBathroom -----------------------------
(* Instances of Bathroom; people of one sex are interchangeable. *)
EXTENDS Bathroom, TLC

Symmetry == Permutations(Men) \cup Permutations(Women)
=============================================================================
