\* Two goroutines and two channels, through the two Inits of a server process.  Four
\* builds: two goroutines that race for a channel, with both Inits or two more calls.
CONSTANTS
    Goroutines = {g1, g2}
    Names = {mail, payments}
    None = None
    MaxInits = 2
    MaxBuilt = 4
SPECIFICATION Spec
INVARIANTS
    OpenFilesOwned
    OneLogger
    PanicNeedsNoFile
SYMMETRY Symmetry
\* Goroutines that panicked, or builds at their bound.
CHECK_DEADLOCK FALSE
