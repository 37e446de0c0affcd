CONSTANTS
  Mill = mill
  Traders = {t1}
  Shops = {b1, b2, b3}
  Supplier <- Fan
  Designs = {d1}
  HandPicked = {}
  Calls = {k1, k2}
  Workers = {w1}
  MaxClock = 4
  MaxJobs = 1
SPECIFICATION Spec
CHECK_DEADLOCK FALSE
PROPERTY LinkKeepsOthers
SYMMETRY Symmetry
