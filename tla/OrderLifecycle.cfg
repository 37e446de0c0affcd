SPECIFICATION Spec
CONSTANTS
    Lines = {l1, l2}
    Quantities = {1, 2}
    HasReturnWindow = TRUE
    MaxShipped = 2
    MaxJobs = 2
SYMMETRY Symmetry
CHECK_DEADLOCK FALSE
INVARIANTS
    TypeOK
    NoOpenLineAfterLock
    ClosedExactlyWhenOver
    RollUpMatchesLines
    DispatchedLineCovered
    NothingShipsUnlocked
    PartShippedMeansSome
    RunningWindowHasJob
PROPERTIES
    OverIsFinal
    FirstConfirmKept
    ReopenOnlyWithWork
