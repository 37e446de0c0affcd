CONSTANTS
    Runners = {r1, r2}
    Jobs = {m1, d1, d2, d3}
    Digests = {d1, d2, d3}
    MaxAttempts = 2
    BatchSize = 2
    MaxFaults = 1
    MaxCrashes = 2
SPECIFICATION FairSpec
CONSTRAINT OneTrouble
CHECK_DEADLOCK FALSE
INVARIANTS OneHolder OnlyExhaustedMediaWrittenOff SweepNotLost
PROPERTIES KeepsPromise EveryJobEndsOrCrash SweepComesBack
