-------------------------- MODULE MCDirectLinkPacks --------------------------
EXTENDS DirectLinkPacks, TLC

\* Every trader gets the supplier's pack.
Fan == [t \in Traders |-> Mill]

\* A row of traders: each gets the pack of the one before it.
Line == LET row == SetToSeq(Traders)
        IN [t \in Traders |-> IF t = row[1] THEN Mill
                              ELSE row[(CHOOSE i \in DOMAIN row : row[i] = t) - 1]]

\* An owner who picks buyers by hand picks the traders.
Picked == {Traders}

Symmetry == Permutations(Shops) \cup Permutations(Designs) \cup Permutations(Calls)
=============================================================================
