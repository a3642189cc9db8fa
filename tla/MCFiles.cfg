\* Three goroutines or commands that do one thing each, in any mixture.  Versions are
\* written in base three: 2 is the last of one digit.
CONSTANTS
    Procs = {p1, p2, p3}
    Shared = Shared
    Page = Page
    None = None
    Old = Old
    InitVersions = {1, 2}
    Base = 3
    MaxVersion = 2
    MaxClock = 2
SPECIFICATION Spec
INVARIANTS
    StoredIsWhole
    CacheFresh
    VersionsInOrder
SYMMETRY Symmetry
\* Everything is done, or the process crashed.
CHECK_DEADLOCK FALSE
