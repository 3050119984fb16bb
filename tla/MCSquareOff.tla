------------------------------ MODULE MCSquareOff ------------------------------
(* Symmetry of the small instances of SquareOff. *)
EXTENDS SquareOff, TLC

Symmetry == Permutations(Tasks)
===============================================================================
