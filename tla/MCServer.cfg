\* Requests: two that overlap or follow each other on one Context, with a second
\* Context for when they overlap, and one error of each way there is to treat it.
\* The limiter: one token is earned in three ticks and a second has two, so that
\* the rounding of Retry-After matters; a bucket that is evicted need not be full.
CONSTANTS
    Requests = {r1, r2}
    Contexts = {c1, c2}
    HandlerErrors = {"nil", "deadline", "panic", "abort"}
    None = None
    Keys = {k1}
    Goroutines = {p1, p2}
    Absent = Absent
    Second = 2
    Cost = 3
    Burst = 2
    IdleCutoff = 4
    SweepEvery = 2
    MaxDelay = 1
    MaxClock = 9
SPECIFICATION ServerSpec
INVARIANTS
    OneResponse
    ContextIsOwn
    ClientSeesOutcome
    PoolOutlivesRequests
    BudgetKept
    IdleEvicted
PROPERTIES
    RetryHonoured
    RequestsEnd
    ShutdownEnds
\* The server stops, and so does time.
CHECK_DEADLOCK FALSE
