CONSTANTS
  Companies = {a, b}
  Followers = {a}
  Calls = {r1}
  MaxRequests = 1
  MaxThreads = 1
  Nobody = Nobody
SPECIFICATION Spec
CHECK_DEADLOCK FALSE
INVARIANT OnlyTheBlockerUnblocks
