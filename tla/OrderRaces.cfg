CONSTANTS
  Lines = {l1}
  Quantities = {1, 2}
  HasReturnWindow = TRUE
  req1 = req1
  req2 = req2
  Requests <- MCRequests
  Racing <- EveryOperation
  MaxShipped = 2
SPECIFICATION Spec
SYMMETRY Symmetry
CHECK_DEADLOCK FALSE
INVARIANTS FinishedIsClosed CompleteHasShipped NothingShipsRequested CompleteOwesNothing
