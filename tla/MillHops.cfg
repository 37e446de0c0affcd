CONSTANTS
  a = a
  b = b
  mill = mill
  other = other
  Lines = {a, b}
  Hops = {mill, other}
  OwnHops = {other}
  Owner <- MillAndOwn
  Quantities = {1, 2}
  HasReturnWindow = FALSE
  MaxShipped = 2
  MaxHeld = 1
SPECIFICATION Spec
CONSTRAINT PlainOwn
CHECK_DEADLOCK FALSE
INVARIANTS WaitingMillIsSilent NeverMoreThanLeft SettledLeavesNobodyWaiting AgreedIsPassed
PROPERTIES HeldHopIsQuiet SettlesOnlyWhenAllDone SnapshotIsKept SettlementReachesBuyer
