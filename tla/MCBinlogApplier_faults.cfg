SPECIFICATION LiveSpec
CONSTANTS
    Log <- FullLog
    MariaDB = FALSE
    MaxDelta = 2
    MaxFaults <- AllFaults
CHECK_DEADLOCK FALSE
INVARIANT ReportedIsStored
INVARIANT NoTornTransaction
PROPERTY LosesOnlyFailed
