SPECIFICATION FairSpec
CONSTANTS
    Log <- MixedLog
    Early = 2
    MaxDelta = 3
    maxConsecutiveFailures = 2
    MaxFaults = 2
INVARIANT Consistent
INVARIANT ConfirmedIsStored
PROPERTY KeepsPromise
PROPERTY AllButTheLast
CHECK_DEADLOCK FALSE
