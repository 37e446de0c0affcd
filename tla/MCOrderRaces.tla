---------------------------- MODULE MCOrderRaces ----------------------------
EXTENDS OrderRaces, TLC

CONSTANTS req1, req2

MCRequests == {req1, req2}
Symmetry == Permutations(Requests) \cup Permutations(Lines)

EveryOperation == Operations
=============================================================================
