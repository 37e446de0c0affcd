----------------------------- MODULE MCMillHops -----------------------------
(* TLC instances of MillHops: a mill beside the trader's own hop, and a     *)
(* mill alone.                                                              *)
EXTENDS MillHops, TLC

CONSTANTS a, b, mill, other

MillAndOwn == (a :> mill) @@ (b :> other)
OneMill    == (a :> mill)

\* The mill works with every quantity, the trader's own line with one unit.  What becomes of
\* a buyer's order that was called off is the question of EndedStaysEnded.
PlainOwn ==
  /\ parent.requestedQuantity[b] = 1 /\ parent.quantity[b] <= 1 /\ parent.shipped[b] <= 1
  /\ hop[other].requestedQuantity[b] = 1 /\ hop[other].quantity[b] <= 1
  /\ hop[other].shipped[b] <= 1
  /\ parent.status \notin {"cancelled", "declined"}
=============================================================================
