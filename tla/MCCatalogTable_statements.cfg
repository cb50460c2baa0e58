SPECIFICATION Spec
CONSTANTS
    Sessions = {s1, s2}
    Names = {t, u}
    Layouts <- MCLayouts
    Extra <- MCExtra
    CheckNames = {k}
    IndexNames = {x}
    Rows <- MCRows
    MaxCommands = 2
    MaxSeqs = 4
    MaxFaults = 1
SYMMETRY Symmetry
INVARIANT CommentsAgree KeyIsDeclared AutoFresh InsertWhole
CHECK_DEADLOCK FALSE
