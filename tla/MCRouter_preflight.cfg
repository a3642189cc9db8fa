\* An application with CORS and any two routes.
CONSTANTS
    Literals = {"a", "b"}
    Others = {"z"}
    Wildcards = {"{x}", "{y}"}
    Rests = {"{p...}"}
    Routes <- RoutesMC
    Subtrees <- SubtreesMC
    GroupPrefixes <- PrefixesMC
    Prefix <- NoPrefix
    Groups = {g1, g2}
    Middlewares = {"CORS"}
    Standard = {"GET", "POST"}
    Unknown = {"BREW"}
    Nobody = Nobody
    MaxSegments = 2
    MaxRoutes = 2
SPECIFICATION RouterSpec
INVARIANT PreflightReachesCORS
\* Registration ends with Build or with a panic.
CHECK_DEADLOCK FALSE
