\* Three invocations of one release with three migrations: two can race while
\* the third rolls back or is killed.
CONSTANTS
    a = a
    b = b
    c = c
    Runs = {a, b, c}
    Versions = {1, 2, 3}
    Registered <- OneRelease
    NoRun = NoRun
SPECIFICATION FairSpec
INVARIANTS
    LedgerMatchesSchema
    NoGaps
PROPERTIES
    UpComplete
    DownTakesHighest
    RunsEnd
\* Every invocation ends.
CHECK_DEADLOCK FALSE
