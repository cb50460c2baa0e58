CONSTANTS
    Keys = {k1, k2}
    Vals = {v1, v2}
    None = None
    Dup = Dup
    Servers = {s1}
    Confs <- AllConfs
    MaxSeq = 2
    MaxStmt = 3
    MaxRows = 4
SYMMETRY Symmetry
SPECIFICATION Spec
INVARIANT FlushMatchesSource
CHECK_DEADLOCK FALSE
