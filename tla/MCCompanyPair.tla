---------------------------- MODULE MCCompanyPair ----------------------------
EXTENDS CompanyPair, TLC

Symmetry == Permutations(Calls)

\* Past a block that crossed a call the properties claim nothing.
Uncrossed == ~crossed
=============================================================================
