SPECIFICATION LiveSpec
CONSTANTS
    Log <- RowLog
    MariaDB = TRUE
    MaxDelta = 2
    MaxFaults <- Interruptions
CHECK_DEADLOCK FALSE
PROPERTY KeepsPromise
PROPERTY CatchesUp
