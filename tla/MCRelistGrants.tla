--------------------------- MODULE MCRelistGrants ---------------------------
(* The instances TLC checks: one supplier of every design. *)
EXTENDS RelistGrants
CONSTANT Mill

OneMill == [d \in Designs |-> Mill]

Symmetry == Permutations(Asks) \cup Permutations(Calls)
=============================================================================
