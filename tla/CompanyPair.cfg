CONSTANTS
  Companies = {a, b}
  Followers = {a}
  Calls = {r1, r2}
  MaxRequests = 2
  MaxThreads = 1
  Nobody = Nobody
SPECIFICATION Spec
SYMMETRY Symmetry
CONSTRAINT Uncrossed
CHECK_DEADLOCK FALSE
INVARIANTS BlockHolds ShownToSomebody
PROPERTY BlockIsQuiet
