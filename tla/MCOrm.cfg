\* A list of up to two rows, two handlers that write, ids for two more rows: a result
\* may exceed the row cap, pages may shift by two rows.  An int holds -8..7, so that
\* (page - 1) * perPage wraps to a negative number and to a small one.
CONSTANTS
    Readers = {r1}
    Writers = {w1, w2}
    None = None
    MaxId = 4
    InitRows = 2
    Authors = {1, 2}
    Pages = {0, 2, 4, 7}
    PerPages = {0, 1, 4}
    MaxPerPage = 3
    DefaultPerPage = 2
    HardRowCap = 3
    IntLimit = 8
    KeyIsPointer = FALSE
SPECIFICATION OrmSpec
INVARIANTS
    WalkLosesLittle
    FarPageIsEmpty
PROPERTIES
    RelationsExact
    RowsKept
SYMMETRY Symmetry
\* Every request ends.
CHECK_DEADLOCK FALSE
