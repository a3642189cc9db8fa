\* Two goroutines, two texts, room for one statement.  Three statements are
\* enough: each goroutine holds at most one private statement beside the
\* cached or swept one.
CONSTANTS
    Callers = {c1, c2}
    Queries = {q1, q2}
    Stmts = {s1, s2, s3}
    NoStmt = NoStmt
    MaxStmts = 1
    SpuriousStale = TRUE
SPECIFICATION FairSpec
INVARIANTS
    BoundKept
    Ownership
PROPERTIES
    NeverEvicts
    RefinesExecutor
    CallsReturn
