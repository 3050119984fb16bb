-------------------------- MODULE MCPositionLifecycle --------------------------
(* Small instances of PositionLifecycle; workers and keys are interchangeable. *)
EXTENDS PositionLifecycle, TLC

Symmetry == Permutations(Keys) \cup Permutations(Workers \ {Loop})
===============================================================================
