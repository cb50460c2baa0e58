SPECIFICATION ControllerFairSpec
CONSTANTS
    Sessions = {s1, s2}
    Boot = boot
    Appliers = {a1, a2}
    Nobody = none
    MaxFaults = 2
INVARIANT OneApplier
INVARIANT RunningIsPersisted
INVARIANT StatusTruthful
PROPERTY StopReturns
CHECK_DEADLOCK FALSE
