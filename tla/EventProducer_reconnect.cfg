SPECIFICATION ProducerFairSpec
CONSTANTS
    MaxConnections = 3
    MaxErrors = 3
INVARIANT NeverClosed
PROPERTY LeftExits
CHECK_DEADLOCK FALSE
