-------------------------------- MODULE Router --------------------------------
(***************************************************************************)
(* Route registration and dispatch (pkg/router/router.go, handler.go,      *)
(* static.go) on top of net/http's ServeMux, which is modelled by its      *)
(* documented rule: the most specific pattern wins, and registering two    *)
(* patterns that overlap with neither more specific panics.                *)
(*                                                                         *)
(* A path is a sequence of segments.  The texts of segments are atoms:     *)
(* literals, "{x}" and the like, "{p...}", "{$}", and "" for what follows  *)
(* a trailing slash.  One goroutine registers everything, so a step is one *)
(* call of the application.                                                *)
(***************************************************************************)
EXTENDS Naturals, FiniteSets, Sequences, SequencesExt

CONSTANTS
    Literals,       \* segments that match themselves
    Others,         \* segments of requests that no route names
    Wildcards,      \* "{x}": one segment
    Rests,          \* "{p...}": all that remains
    Routes,         \* paths the application passes to Get, Post, Handle
    Subtrees,       \* url prefixes it passes to Static
    GroupPrefixes,  \* prefixes it passes to Group
    Prefix,         \* the router's own: WithPrefix
    Groups,         \* group handles
    Middlewares,    \* what it passes to Use
    Standard,       \* standardMethods
    Unknown,        \* methods that isKnownMethod does not know
    Nobody,         \* the router itself, as owner of a route or a group
    MaxSegments,    \* longest request path
    MaxRoutes       \* bound of the model

Methods == Standard \cup {"HEAD", "OPTIONS"}
Slash == "{$}"
Trailing == ""

-----------------------------------------------------------------------------
(* Paths. *)

\* joinPath: empty fragments vanish, and nothing at all is "/".
JoinPath(a, b) == IF a \o b = <<>> THEN <<Trailing>> ELSE a \o b

\* validatePath
ValidPath(p) ==
    /\ \A i \in DOMAIN p : p[i] \in Rests \cup {Slash} => i = Len(p)
    /\ \A i, j \in DOMAIN p :
          p[i] = p[j] /\ p[i] \in Wildcards \cup Rests => i = j

\* All that can be registered, with groups nested once.
Bases == {Prefix, <<>>} \cup {Prefix \o g : g \in GroupPrefixes} \cup GroupPrefixes
         \cup {Prefix \o g \o h : g, h \in GroupPrefixes}
Patterns == {JoinPath(b, p) : b \in Bases, p \in Routes}
            \cup {s \o <<r>> : s \in Subtrees, r \in Rests}
            \cup {<<Trailing>>}

\* Request paths, with or without a trailing slash.
Words == UNION {[1..n -> Literals \cup Others] : n \in 0..MaxSegments}
Paths == (Words \ {<<>>}) \cup {Append(w, Trailing) : w \in Words}

SegmentMatches(s, x) ==
    \/ s = x
    \/ s \in Wildcards /\ x # Trailing
    \/ s = Slash /\ x = Trailing

Multi(p) == Last(p) \in Rests \cup {Trailing}

Matches(p, x) ==
    /\ IF Multi(p) THEN Len(x) >= Len(p) ELSE Len(x) = Len(p)
    /\ \A i \in DOMAIN p :
          SegmentMatches(p[i], x[i]) \/ (i = Len(p) /\ Multi(p))

\* The request paths that a pattern matches.
Reach == [p \in Patterns |-> {x \in Paths : Matches(p, x)}]

\* A group that has been made.
Chains == Seq(Middlewares)
Made == [prefix : Bases, mw : Chains, hasRoutes : BOOLEAN]

\* What the application passes is split at its slashes and loses the empty
\* segments (joinPath); standardMethods are GET, POST, PUT, PATCH and DELETE; and
\* the request paths of the model are rich enough to tell the patterns apart.
Segments == Literals \cup Wildcards \cup Rests \cup {Slash}
ASSUME RouterAssumption ==
    /\ Routes \cup Subtrees \cup GroupPrefixes \cup {Prefix} \subseteq Seq(Segments)
    /\ Trailing \notin Segments
    /\ "GET" \in Standard /\ Standard \cap {"", "HEAD", "OPTIONS"} = {}
    /\ Unknown \cap Methods = {}
    /\ IsFiniteSet(Standard)
    /\ Nobody \notin Groups \cup Made
    /\ MaxSegments \in Nat
    /\ Others # {}
    /\ \A p \in Patterns : ValidPath(p) => Reach[p] # {}

-----------------------------------------------------------------------------
VARIABLES
    mux,        \* what is registered with ServeMux
    routes,     \* the application's own routes, in rt.registered
    mw,         \* rt.mw
    groups,     \* per group: [prefix, mw, hasRoutes], or Nobody if not made
    status      \* "open", "built", or why the process panicked

routerVars == <<mux, routes, mw, groups, status>>

RouterPanics == {"late use", "bad path", "unknown method", "duplicate", "late route",
                 "conflict", "late group use", "build"}

\* What Build registers last: notFoundHandler.
CatchAll ==
    [method |-> "", path |-> <<Trailing>>, answer |-> "404", chain |-> <<>>]

Entries ==
    [method : Methods \cup {""}, path : Patterns,
     answer : {"handler", "405", "options", "404"}, chain : Chains]

RouterTypeOK ==
    /\ mux \subseteq Entries
    /\ routes \subseteq [method : Methods, path : Patterns,
                         owner : Groups \cup {Nobody}]
    /\ mw \in Chains
    /\ groups \in [Groups -> Made \cup {Nobody}]
    /\ status \in {"open", "built"} \cup RouterPanics

-----------------------------------------------------------------------------
(* net/http.ServeMux *)

\* The methods a pattern serves: GET stands for HEAD too, none for all.
Serves(m) == CASE m = "" -> Methods
               [] m = "GET" -> {"GET", "HEAD"}
               [] OTHER -> {m}

Within(e, f) ==
    /\ Serves(e.method) \subseteq Serves(f.method)
    /\ Reach[e.path] \subseteq Reach[f.path]

MoreSpecific(e, f) == Within(e, f) /\ ~Within(f, e)

Conflict(e, f) ==
    /\ Serves(e.method) \cap Serves(f.method) # {}
    /\ Reach[e.path] \cap Reach[f.path] # {}
    /\ ~MoreSpecific(e, f) /\ ~MoreSpecific(f, e)

\* The entry that serves a request.
Candidates(m, x) == {e \in mux : m \in Serves(e.method) /\ x \in Reach[e.path]}
Dispatch(m, x) ==
    CHOOSE e \in Candidates(m, x) :
        \A f \in Candidates(m, x) : Within(e, f)

-----------------------------------------------------------------------------
RouterInit ==
    /\ mux = {}
    /\ routes = {}
    /\ mw = <<>>
    /\ groups = [g \in Groups |-> Nobody]
    /\ status = "open"

Panic(why) == status' = why /\ UNCHANGED <<mux, routes, mw, groups>>

\* Router.Use: global middleware comes before all routes.
Use(m) ==
    /\ status = "open"
    /\ \/ /\ routes # {}
          /\ Panic("late use")
       \/ /\ routes = {}
          /\ mw' = Append(mw, m)
          /\ UNCHANGED <<mux, routes, groups, status>>

\* Router.Group, Router.Root (which ignores the router's prefix), Group.Group.
MakeGroup(g, prefix, chain) ==
    /\ status = "open"
    /\ groups[g] = Nobody
    /\ groups' = [groups EXCEPT ![g] =
                     [prefix |-> prefix, mw |-> chain, hasRoutes |-> FALSE]]
    /\ UNCHANGED <<mux, routes, mw, status>>
RouterGroup(g, p) == MakeGroup(g, Prefix \o p, <<>>)
Root(g) == MakeGroup(g, <<>>, <<>>)
GroupGroup(g, parent, p) ==
    /\ groups[parent] # Nobody
    /\ MakeGroup(g, groups[parent].prefix \o p, groups[parent].mw)

\* Group.Use
GroupUse(g, m) ==
    /\ status = "open"
    /\ groups[g] # Nobody
    /\ \/ /\ groups[g].hasRoutes
          /\ Panic("late group use")
       \/ /\ ~groups[g].hasRoutes
          /\ groups' = [groups EXCEPT ![g].mw = Append(@, m)]
          /\ UNCHANGED <<mux, routes, mw, status>>

\* Router.handle, the one way to register a route.  The chain is composed
\* here, once and for all.
Handle(method, path, chain, owner) ==
    LET entry == [method |-> method, path |-> path, answer |-> "handler",
                  chain |-> mw \o chain]
        route == [method |-> method, path |-> path, owner |-> owner] IN
    \/ status = "built" /\ status' = "late route"
       /\ UNCHANGED <<mux, routes, mw>>
    \/ /\ status = "open"
       /\ UNCHANGED mw
       /\ \/ ~ValidPath(path) /\ status' = "bad path" /\ UNCHANGED <<mux, routes>>
          \/ /\ ValidPath(path) /\ method \in Unknown
             /\ status' = "unknown method" /\ UNCHANGED <<mux, routes>>
          \/ /\ ValidPath(path) /\ method \notin Unknown
             /\ \E r \in routes : r.path = path /\ r.method = method
             /\ status' = "duplicate" /\ UNCHANGED <<mux, routes>>
          \/ /\ ValidPath(path) /\ method \notin Unknown
             /\ ~\E r \in routes : r.path = path /\ r.method = method
             /\ routes' = routes \cup {route}
             /\ \/ /\ \E e \in mux : Conflict(e, entry)
                   /\ status' = "conflict" /\ UNCHANGED mux
                \/ /\ \A e \in mux : ~Conflict(e, entry)
                   /\ mux' = mux \cup {entry} /\ UNCHANGED status

\* Get, Post, Put, Patch, Delete and Handle of the Router.
RouterHandle(method, path) ==
    /\ Handle(method, JoinPath(Prefix, path), <<>>, Nobody)
    /\ UNCHANGED groups

\* The same of a Group.
GroupHandleForgetful(g, method, path) ==
    /\ groups[g] # Nobody
    /\ Handle(method, JoinPath(groups[g].prefix, path), groups[g].mw, g)
    /\ UNCHANGED groups
GroupHandle(g, method, path) ==
    /\ groups[g] # Nobody
    /\ groups' = [groups EXCEPT ![g].hasRoutes = TRUE]
    /\ Handle(method, JoinPath(groups[g].prefix, path), groups[g].mw, g)

\* Static: the url prefix is not put under the router's.
Static(prefix, rest) ==
    /\ Handle("GET", prefix \o <<rest>>, <<>>, Nobody)
    /\ UNCHANGED groups

-----------------------------------------------------------------------------
(* Build *)

RegisteredPaths == {r.path : r \in routes}
MethodsOf(p) == {r.method : r \in {s \in routes : s.path = p}}

\* strings.HasSuffix(path, "/"): not what ends in "{p...}", as Static's do.
IsSubtree(p) == Last(p) = Trailing

\* What Build adds for one path.  None of it has the global middleware.
Synthesized(p) ==
    {[method |-> m, path |-> p, answer |-> "405", chain |-> <<>>] :
        m \in Standard \ MethodsOf(p)}
    \cup {[method |-> m, path |-> p, answer |-> "options", chain |-> <<>>] :
        m \in {"OPTIONS"} \ MethodsOf(p)}
SynthesizedUpToSubtree ==
    UNION {Synthesized(p) : p \in {q \in RegisteredPaths :
                                      \A s \in RegisteredPaths : ~IsSubtree(s)}}
SynthesizedForAll ==
    UNION {Synthesized(p) : p \in {q \in RegisteredPaths : ~IsSubtree(q)}}

\* allowHeader, which a 405 and a synthesized OPTIONS carry.
AllowHeaderWithoutHead(p) == MethodsOf(p) \cup {"OPTIONS"}
AllowHeader(p) ==
    MethodsOf(p) \cup {"OPTIONS"} \cup (IF "GET" \in MethodsOf(p) THEN {"HEAD"} ELSE {})

\* Build iterates over a map: whatever the order, every pair is compared.
BuildForgetsOptions ==
    LET all == mux \cup {CatchAll}
                   \cup {e \in SynthesizedForAll : e.answer = "405"} IN
    /\ status = "open"
    /\ \/ /\ \E e, f \in all : e # f /\ Conflict(e, f)
          /\ Panic("build")
       \/ /\ \A e, f \in all : e # f => ~Conflict(e, f)
          /\ mux' = all
          /\ status' = "built"
          /\ UNCHANGED <<routes, mw, groups>>
Build ==
    LET all == mux \cup SynthesizedForAll \cup {CatchAll} IN
    /\ status = "open"
    /\ \/ /\ \E e, f \in all : e # f /\ Conflict(e, f)
          /\ Panic("build")
       \/ /\ \A e, f \in all : e # f => ~Conflict(e, f)
          /\ mux' = all
          /\ status' = "built"
          /\ UNCHANGED <<routes, mw, groups>>

-----------------------------------------------------------------------------
\* A call that registers a route, within the bound of the model.
Register ==
    \/ \E m \in Methods \cup Unknown, p \in Routes : RouterHandle(m, p)
    \/ \E g \in Groups, m \in Methods \cup Unknown, p \in Routes : GroupHandle(g, m, p)
    \/ \E s \in Subtrees, r \in Rests : Static(s, r)

RouterNext ==
    \/ \E m \in Middlewares : Len(mw) < 1 /\ Use(m)
    \/ \E g \in Groups :
          \/ \E p \in GroupPrefixes : RouterGroup(g, p)
          \/ Root(g)
          \/ \E h \in Groups, p \in GroupPrefixes :
                groups[h] # Nobody /\ groups[h].prefix \o p \in Bases
                /\ GroupGroup(g, h, p)
          \/ \E m \in Middlewares : groups[g] # Nobody /\ Len(groups[g].mw) < 1
                                    /\ GroupUse(g, m)
    \/ Cardinality(routes) < MaxRoutes /\ Register
    \/ Build

RouterSpec == RouterInit /\ [][RouterNext]_routerVars

-----------------------------------------------------------------------------
(* Properties. *)

Nested(p, q) == Reach[p] \subseteq Reach[q] /\ Reach[p] # Reach[q]
Disjoint(p, q) == Reach[p] \cap Reach[q] = {}

\* Who answers, told from the routes alone: a route of the most specific
\* registered path, a GET route for HEAD, else its 405 or OPTIONS.
Best(x) ==
    {p \in RegisteredPaths :
        /\ x \in Reach[p]
        /\ \A q \in RegisteredPaths : x \in Reach[q] => Reach[p] \subseteq Reach[q]}
BestMethods(x) == UNION {MethodsOf(p) : p \in Best(x)}
RouteMethod(m, x) ==
    IF m = "HEAD" /\ m \notin BestMethods(x) THEN "GET" ELSE m
Expected(m, x) ==
    IF RouteMethod(m, x) \in BestMethods(x) THEN "handler"
    ELSE IF \A p \in Best(x) : IsSubtree(p) THEN "404"
    ELSE IF m = "OPTIONS" THEN "options" ELSE "405"

\* The most specific registered path answers every request it matches,
\* whatever ServeMux makes of the patterns and of the responses that Build adds
\* among them (router.go:196-219); 404 is for what no path matches, or only the
\* subtree "/".  A path that ends in "{p...}" is no exception: where it has no
\* route of the method, it answers 405, also when a less specific path has one.
MostSpecificAnswers ==
    status = "built" =>
        \A m \in Methods, x \in Paths :
            LET e == Dispatch(m, x) IN
            /\ e.answer = Expected(m, x)
            /\ e.answer # "404" => e.path \in Best(x)
            /\ e.answer = "handler" => e.method = RouteMethod(m, x)

\* "JSON 405 with an accurate Allow header" (README.md:305): where a 405 is
\* answered, Allow names exactly the methods that are not.
AllowAccurate ==
    status = "built" /\ (\A r \in routes : r.method # "HEAD") =>
        \A n \in Standard, x \in Paths :
            LET e == Dispatch(n, x) IN
            e.answer = "405" =>
                \A m \in Methods :
                    m \in AllowHeader(e.path) <=> Dispatch(m, x).answer # "405"

\* Build panics exactly when two registered paths overlap and neither lies
\* within the other, although their methods differ and ServeMux alone would
\* take both (router.go:210, 215); a path that ends in "{p...}", as Static's do,
\* is as good a cause as any.  HEAD routes of the application's own aside.
BuildPanicsOnAmbiguity ==
    (\A r \in routes : r.method # "HEAD") =>
        LET ambiguous == \E p, q \in RegisteredPaths :
                p # q /\ ~Disjoint(p, q) /\ ~Nested(p, q) /\ ~Nested(q, p) IN
        /\ status = "built" => ~ambiguous
        /\ status = "build" => ambiguous

\* No route skips middleware: chains are composed at registration, and what
\* Use adds to the router or to the route's group was there by then
\* (router.go:104-110, 368-377).
NothingSkipsMiddleware ==
    \A r \in routes, e \in mux :
        e.answer = "handler" /\ e.path = r.path /\ e.method = r.method =>
            e.chain = mw \o (IF r.owner = Nobody THEN <<>> ELSE groups[r.owner].mw)

\* "Build() skips synthesizing 405s for these, so nothing here shadows other
\* routes" (static.go:24-25): the request of a route is not answered by what Build
\* adds for the files of a Static.
StaticShadowsNothing ==
    status = "built" =>
        \A r \in routes : \A x \in Reach[r.path] :
            LET e == Dispatch(r.method, x) IN
            e.path \in {s \o <<q>> : s \in Subtrees, q \in Rests} => e.answer = "handler"

\* "CORS adds cross-origin headers and answers preflight requests"
\* (middleware/cors.go:24): the OPTIONS request of a preflight passes through
\* the global middleware.
PreflightReachesCORS ==
    status = "built" =>
        \A r \in routes : \A x \in Reach[r.path] : ~IsSubtree(r.path) =>
            LET e == Dispatch("OPTIONS", x) IN ToSet(mw) \subseteq ToSet(e.chain)
==============================================================================
