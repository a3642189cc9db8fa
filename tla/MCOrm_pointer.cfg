\* As MCOrm.cfg, with a foreign key of type *int64.
CONSTANTS
    Readers = {r1}
    Writers = {w1, w2}
    None = None
    MaxId = 4
    InitRows = 2
    Authors = {1, 2}
    Pages = {0, 2, 4, 7}
    PerPages = {0, 1, 4}
    MaxPerPage = 3
    DefaultPerPage = 2
    HardRowCap = 3
    IntLimit = 8
    KeyIsPointer = TRUE
SPECIFICATION OrmSpec
INVARIANTS
    AnyKeyType
SYMMETRY Symmetry
\* Every request ends.
CHECK_DEADLOCK FALSE
