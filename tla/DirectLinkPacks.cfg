CONSTANTS
  Mill = mill
  Traders = {t1}
  Shops = {b1, b2}
  Supplier <- Fan
  Designs = {d1}
  HandPicked <- Picked
  Calls = {k1, k2}
  Workers = {w1}
  MaxClock = 3
  MaxJobs = 1
SPECIFICATION Spec
CHECK_DEADLOCK FALSE
INVARIANTS QuietPacksFollow ShownToLinkedBuyers
SYMMETRY Symmetry
