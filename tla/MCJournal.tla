------------------------------ MODULE MCJournal ------------------------------
(* Instances of Journal for TLC: the constants are given in the .cfg files. *)
EXTENDS Journal

Symmetry == Permutations(Workers)
=============================================================================
