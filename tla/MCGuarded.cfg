\* Registration: every pair of routes, among them such as overlap, and such as the
\* responses Build adds for one of them may shadow.
\* The guard: two requests race over one token.  It lives for five ticks and is idle
\* when unused for more than four; a use within two ticks of the last is not recorded,
\* and a touch may be a tick late.
CONSTANTS
    Literals = {"a", "b"}
    Others = {"z"}
    Wildcards = {"{x}", "{y}"}
    Rests = {"{p...}"}
    Routes <- RoutesMC
    Subtrees <- SubtreesMC
    GroupPrefixes <- PrefixesMC
    Prefix <- NoPrefix
    Groups = {g1, g2}
    Middlewares = {"CORS"}
    Standard = {"GET", "POST"}
    Unknown = {"BREW"}
    Nobody = Nobody
    MaxSegments = 2
    MaxRoutes = 2
    alice = alice
    Requests = {r1, r2}
    Tokens = {t1}
    Users = {alice}
    Owner <- OneOwner
    None = None
    Gone = Gone
    TokenTTL = 5
    IdleTimeout = 4
    TouchInterval = 2
    MaxDelay = 1
    MaxLife = 1
    MaxClock = 6
SPECIFICATION GuardedSpec
INVARIANTS
    MostSpecificAnswers
    AllowAccurate
    BuildPanicsOnAmbiguity
    NothingSkipsMiddleware
    DeadStaysOut
    RefusedForReason
    IdleIsIdle
SYMMETRY Symmetry
\* Registration ends with a panic, and time stops.
CHECK_DEADLOCK FALSE
