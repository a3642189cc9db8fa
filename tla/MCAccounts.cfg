\* Two calls of any kind over a pool of one connection and one slot, an email that may
\* be taken and be given up, and one Configure.
CONSTANTS
    Goroutines = {g1, g2}
    Emails = {ada}
    Passwords = {p, q}
    None = None
    Earlier = Earlier
    EarlierPassword = p
    MaxOpen = 1
    MaxConcurrent = 1
    MaxConfigures = 1
SPECIFICATION FairSpec
INVARIANTS
    NothingKept
    AllOrNothing
    PasswordKept
PROPERTIES
    CallsEnd
\* Every call ends, or waits for ever.
CHECK_DEADLOCK FALSE
