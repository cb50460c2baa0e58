CONSTANTS
    MaxResult = 5
    rowsBatch = 2
    ChanCap = 2
    MaxFailures = 2
SPECIFICATION ResultSpec
INVARIANT ResultWhole
INVARIANT RowsClosedOnce
PROPERTY Answers
CHECK_DEADLOCK FALSE
