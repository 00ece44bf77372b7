------------------------------ MODULE MCClone ------------------------------
(* Instances of Clone for TLC. *)
EXTENDS Clone, TLC

CONSTANTS c1, c2, c3, c4

\* All containers but the original one are alike.
Symmetry == Permutations(Container \ {Original})
=============================================================================
