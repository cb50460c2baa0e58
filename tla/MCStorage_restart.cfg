CONSTANTS
    Sessions = {m, p}
    MySQL = {m}
    Schemas = {d1, d2}
    Catalogs = {c1}
    None = None
    MaxOps = 4
    MaxWrites = 2
    MaxGens = 4
    MaxFaults = 1
SYMMETRY Symmetry
SPECIFICATION Spec
INVARIANT RunsWhereMeant
INVARIANT Durable
INVARIANT PoolServes
INVARIANT BackupWhole
INVARIANT CatalogWhole
CHECK_DEADLOCK FALSE
