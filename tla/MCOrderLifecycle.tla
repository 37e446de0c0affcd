-------------------------- MODULE MCOrderLifecycle --------------------------
(* TLC instance of OrderLifecycle: interchangeable lines.                   *)
EXTENDS OrderLifecycle, TLC

Symmetry == Permutations(Lines)
=============================================================================
