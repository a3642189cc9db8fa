\* Invocations of two releases, the older without the second of three migrations.
CONSTANTS
    a = a
    b = b
    c = c
    Runs = {a, b, c}
    Versions = {1, 2, 3}
    Registered <- TwoReleases
    NoRun = NoRun
SPECIFICATION FairSpec
PROPERTY DownIsMostRecent
\* Every invocation ends.
CHECK_DEADLOCK FALSE
