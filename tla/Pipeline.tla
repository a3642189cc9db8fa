------------------------------- MODULE Pipeline -------------------------------
(***************************************************************************)
(* The life of requests in one server process: the pooled Context and      *)
(* adapt (pkg/router/context.go, router.go), the global middleware         *)
(* (pkg/router/middleware) in the order BuildRouter installs it, and the   *)
(* server that starts, drains and stops (pkg/server/server.go).            *)
(*                                                                         *)
(* Each request runs in a goroutine of its own.  What it does between two  *)
(* points where it may wait, or where the request's context may end, is    *)
(* one step.                                                               *)
(***************************************************************************)
EXTENDS Naturals, Sequences

CONSTANTS
    Requests,
    Contexts,       \* *router.Context objects
    HandlerErrors,  \* the ways in which handlers end
    None

VARIABLES
    server,     \* phase of Server.Start
    kind,       \* how the request is routed
    pc,         \* where the request is
    of,         \* its variable c in adapt
    err,        \* the error on its way out of the handler chain
    ended,      \* its context.Context has ended
    heads,      \* history: the statuses written on the connection
    logged,     \* history: the status in the line Logger wrote
    handed,     \* history: what the handler made of the request
    pool,       \* ctxPool
    fields      \* [Contexts -> the fields of a Context]

requestVars == <<kind, pc, of, err, ended, heads, logged, handed>>
contextVars == <<pool, fields>>
vars == <<server, requestVars, contextVars>>

Phases == {"serving", "draining", "drained", "swept", "stopped", "forced",
           "exited"}

\* "route": through the global middleware.  "fallback": to what Build installs
\* for the unmatched, which is adapted without middleware.
Kinds == {"route", "fallback"}

Places == {"new", "enter", "handler", "leave", "recover", "log", "render",
           "release", "done"}

\* Errors by how they are treated.  Those in HTTPErrors carry a status.
HTTPErrors == {"http", "fallback", "limited", "timeout", "panicked"}
Mapped == {"missing", "deadline", "cancelled"}
Panics == {"panic", "abort"}
Errors == {"nil", "other"} \cup HTTPErrors \cup Mapped \cup Panics

ASSUME PipelineAssumption ==
    /\ None \notin Requests \cup Contexts
    /\ HandlerErrors \subseteq {"nil", "http", "other"} \cup Mapped \cup Panics

\* resolveError, with the mappers that bootstrap registers.
Rendered(e) ==
    CASE e = "http" -> 422
      [] e = "fallback" -> 405
      [] e = "limited" -> 429
      [] e = "timeout" -> 504
      [] e = "panicked" -> 500
      [] e = "missing" -> 404
      [] e = "deadline" -> 504
      [] e = "cancelled" -> 499
      [] OTHER -> 500

\* statusOf, in the Logger.
StatusOf(e) == IF e \in HTTPErrors THEN Rendered(e) ELSE 500

Statuses == {0, 200, 201, 204, 404, 405, 422, 429, 499, 500, 504}

Blank == [status |-> 0, wrote |-> FALSE, id |-> None, values |-> None]
Handed == [result : Errors, wrote : BOOLEAN, late : BOOLEAN] \cup {None}

TypeOK ==
    /\ server \in Phases
    /\ kind \in [Requests -> Kinds]
    /\ pc \in [Requests -> Places]
    /\ of \in [Requests -> Contexts \cup {None}]
    /\ err \in [Requests -> Errors]
    /\ ended \in [Requests -> BOOLEAN]
    /\ heads \in [Requests -> Seq(Statuses)]
    /\ logged \in [Requests -> Statuses \cup {None}]
    /\ handed \in [Requests -> Handed]
    /\ pool \subseteq Contexts
    /\ fields \in [Contexts -> [status : Statuses, wrote : BOOLEAN,
                                id : Requests \cup {None},
                                values : Requests \cup {None}]]
    /\ \A r \in Requests : (of[r] # None) <=> pc[r] \notin {"new", "done"}
    /\ \A c \in Contexts : fields[c].wrote <=> fields[c].status # 0

-----------------------------------------------------------------------------
Running == server \notin {"stopped", "exited"}
InFlight(r) == pc[r] \notin {"new", "done"}
Held == {of[r] : r \in Requests} \ {None}

Init ==
    /\ server = "serving"
    /\ kind = [r \in Requests |-> "route"]
    /\ pc = [r \in Requests |-> "new"]
    /\ of = [r \in Requests |-> None]
    /\ err = [r \in Requests |-> "nil"]
    /\ ended = [r \in Requests |-> FALSE]
    /\ heads = [r \in Requests |-> <<>>]
    /\ logged = [r \in Requests |-> None]
    /\ handed = [r \in Requests |-> None]
    /\ pool = {}
    /\ fields = [c \in Contexts |-> Blank]

Goto(r, here, there) ==
    /\ Running
    /\ pc[r] = here
    /\ pc' = [pc EXCEPT ![r] = there]

\* Context.WriteHeader: the first status goes out, the others nowhere.
WriteHeader(r, s) ==
    \/ /\ fields[of[r]].wrote
       /\ UNCHANGED <<fields, heads>>
    \/ /\ ~fields[of[r]].wrote
       /\ fields' = [fields EXCEPT ![of[r]].wrote = TRUE,
                                   ![of[r]].status = s]
       /\ heads' = [heads EXCEPT ![r] = Append(@, s)]

-----------------------------------------------------------------------------
(* adapt, on the way in. *)

\* acquire: a pooled Context, or a new one.  A connection accepted before
\* Shutdown may still bring its request.
AcquireUnreset(r, c) ==
    /\ server \in {"serving", "draining"}
    /\ Goto(r, "new", "enter")
    /\ \/ c \in pool /\ pool' = pool \ {c}
       \/ c \notin pool \cup Held /\ UNCHANGED pool
    /\ of' = [of EXCEPT ![r] = c]
    /\ fields' = IF c \in pool
                 THEN [fields EXCEPT ![c].status = 0, ![c].wrote = FALSE]
                 ELSE [fields EXCEPT ![c] = Blank]
    /\ \E k \in Kinds : kind' = [kind EXCEPT ![r] = k]
    /\ UNCHANGED <<server, err, ended, heads, logged, handed>>
Acquire(r, c) ==
    /\ server \in {"serving", "draining"}
    /\ Goto(r, "new", "enter")
    /\ \/ c \in pool /\ pool' = pool \ {c}
       \/ c \notin pool \cup Held /\ UNCHANGED pool
    /\ of' = [of EXCEPT ![r] = c]
    /\ fields' = IF c \in pool
                 THEN [fields EXCEPT ![c].status = 0, ![c].wrote = FALSE,
                                     ![c].id = None]
                 ELSE [fields EXCEPT ![c] = Blank]
    /\ \E k \in Kinds : kind' = [kind EXCEPT ![r] = k]
    /\ UNCHANGED <<server, err, ended, heads, logged, handed>>

\* The handlers that Build installs: 404 and 405 are errors, OPTIONS a 204.
Fallback(r) ==
    /\ kind[r] = "fallback"
    /\ Goto(r, "enter", "render")
    /\ \/ /\ err' = [err EXCEPT ![r] = "fallback"]
          /\ UNCHANGED <<fields, heads>>
       \/ /\ WriteHeader(r, 204)
          /\ UNCHANGED err
    /\ UNCHANGED <<server, kind, of, ended, logged, handed, pool>>

\* RequestID, Logger, Recover, CORS, RateLimit, Timeout.  CORS answers a
\* preflight itself, RateLimit may refuse.
Enter(r) ==
    /\ kind[r] # "fallback"
    /\ \/ /\ Goto(r, "enter", "handler")
          /\ fields' = [fields EXCEPT ![of[r]].id = r]
          /\ UNCHANGED <<err, heads>>
       \/ /\ Goto(r, "enter", "recover")
          /\ fields' = [fields EXCEPT ![of[r]].id = r, ![of[r]].wrote = TRUE,
                                      ![of[r]].status = 204]
          /\ heads' = [heads EXCEPT ![r] = Append(@, 204)]
          /\ UNCHANGED err
       \/ /\ Goto(r, "enter", "recover")
          /\ fields' = [fields EXCEPT ![of[r]].id = r]
          /\ err' = [err EXCEPT ![r] = "limited"]
          /\ UNCHANGED heads
    /\ UNCHANGED <<server, kind, of, ended, logged, handed, pool>>

-----------------------------------------------------------------------------
(* The handler: the application's code. *)

\* It stores a value, such as the principal of the request.
SetValue(r) ==
    /\ Goto(r, "handler", "handler")
    /\ fields' = [fields EXCEPT ![of[r]].values = r]
    /\ UNCHANGED <<server, kind, of, err, ended, heads, logged, handed,
                   pool>>

\* It writes a response.
Respond(r) ==
    /\ Goto(r, "handler", "handler")
    /\ WriteHeader(r, 201)
    /\ UNCHANGED <<server, kind, of, err, ended, logged, handed, pool>>

\* It returns, or panics.
Finish(r, e) ==
    /\ Goto(r, "handler", IF e \in Panics THEN "recover" ELSE "leave")
    /\ err' = [err EXCEPT ![r] = e]
    /\ handed' = [handed EXCEPT ![r] =
                     [result |-> e, wrote |-> fields[of[r]].wrote,
                      late |-> ended[r]]]
    /\ UNCHANGED <<server, kind, of, ended, heads, logged, contextVars>>

-----------------------------------------------------------------------------
(* The middleware, on the way out. *)

\* Timeout
TimeoutLeavesNil(r) ==
    /\ Goto(r, "leave", "recover")
    /\ err' = [err EXCEPT ![r] = IF @ = "deadline" THEN "timeout" ELSE @]
    /\ UNCHANGED <<server, kind, of, ended, heads, logged, handed,
                   contextVars>>
TimeoutReturns(r) ==
    LET expired == err[r] = "nil" /\ ended[r] /\ ~fields[of[r]].wrote IN
    /\ Goto(r, "leave", "recover")
    /\ err' = [err EXCEPT ![r] = IF expired \/ @ = "deadline" THEN "timeout"
                                                              ELSE @]
    /\ UNCHANGED <<server, kind, of, ended, heads, logged, handed,
                   contextVars>>

\* Recover: a panic becomes an error, ErrAbortHandler goes on up to net/http.
RecoverReturns(r) ==
    /\ \/ /\ err[r] = "abort"
          /\ Goto(r, "recover", "release")
          /\ UNCHANGED err
       \/ /\ err[r] = "panic"
          /\ Goto(r, "recover", "log")
          /\ err' = [err EXCEPT ![r] = "panicked"]
       \/ /\ err[r] \notin Panics
          /\ Goto(r, "recover", "log")
          /\ UNCHANGED err
    /\ UNCHANGED <<server, kind, of, ended, heads, logged, handed,
                   contextVars>>

\* Logger
LoggerReturns(r) ==
    /\ Goto(r, "log", "render")
    /\ logged' = [logged EXCEPT ![r] =
                     IF err[r] # "nil" THEN StatusOf(err[r])
                     ELSE fields[of[r]].status]
    /\ UNCHANGED <<server, kind, of, err, ended, heads, handed,
                   contextVars>>

-----------------------------------------------------------------------------
(* adapt, on the way out. *)

\* The error handler, or the status a handler that wrote nothing means.
RenderAlways(r) ==
    LET status == IF err[r] # "nil" THEN Rendered(err[r]) ELSE 200 IN
    /\ Goto(r, "render", "release")
    /\ fields' = [fields EXCEPT ![of[r]].wrote = TRUE, ![of[r]].status = status]
    /\ heads' = [heads EXCEPT ![r] = Append(@, status)]
    /\ UNCHANGED <<server, kind, of, err, ended, logged, handed, pool>>
Render(r) ==
    /\ Goto(r, "render", "release")
    /\ WriteHeader(r, IF err[r] # "nil" THEN Rendered(err[r]) ELSE 200)
    /\ UNCHANGED <<server, kind, of, err, ended, logged, handed, pool>>

\* release, deferred: also when a panic passes.  With the request, what is
\* remembered of it is forgotten.
ReleaseUndeferred(r) ==
    /\ Goto(r, "release", "done")
    /\ err[r] # "abort"
    /\ fields' = [fields EXCEPT ![of[r]].values = None]
    /\ pool' = pool \cup {of[r]}
    /\ of' = [of EXCEPT ![r] = None]
    /\ kind' = [kind EXCEPT ![r] = "route"]
    /\ err' = [err EXCEPT ![r] = "nil"]
    /\ ended' = [ended EXCEPT ![r] = FALSE]
    /\ heads' = [heads EXCEPT ![r] = <<>>]
    /\ logged' = [logged EXCEPT ![r] = None]
    /\ handed' = [handed EXCEPT ![r] = None]
    /\ UNCHANGED server
Release(r) ==
    /\ Goto(r, "release", "done")
    /\ fields' = [fields EXCEPT ![of[r]].values = None]
    /\ pool' = pool \cup {of[r]}
    /\ of' = [of EXCEPT ![r] = None]
    /\ kind' = [kind EXCEPT ![r] = "route"]
    /\ err' = [err EXCEPT ![r] = "nil"]
    /\ ended' = [ended EXCEPT ![r] = FALSE]
    /\ heads' = [heads EXCEPT ![r] = <<>>]
    /\ logged' = [logged EXCEPT ![r] = None]
    /\ handed' = [handed EXCEPT ![r] = None]
    /\ UNCHANGED server

-----------------------------------------------------------------------------
(* The request's context.Context. *)

\* The deadline Timeout set expires, or the client goes away.  Timeout is the
\* last to look.
ContextEnds(r) ==
    /\ Running
    /\ pc[r] \in {"handler", "leave"}
    /\ ended' = [ended EXCEPT ![r] = TRUE]
    /\ UNCHANGED <<server, kind, pc, of, err, heads, logged, handed,
                   contextVars>>

-----------------------------------------------------------------------------
(* Server.Start *)

\* ListenAndServe fails: log.Fatalf.
ListenFails ==
    /\ server = "serving"
    /\ server' = "exited"
    /\ UNCHANGED <<requestVars, contextVars>>

\* A signal: Shutdown closes the listeners.
Signal ==
    /\ server = "serving"
    /\ server' = "draining"
    /\ UNCHANGED <<requestVars, contextVars>>

\* Shutdown returns nil: no connection is active; cancelBase.
DrainedEarly ==
    /\ server = "draining"
    /\ server' = "drained"
    /\ UNCHANGED <<requestVars, contextVars>>
Drained ==
    /\ server = "draining"
    /\ \A r \in Requests : ~InFlight(r)
    /\ server' = "drained"
    /\ UNCHANGED <<requestVars, contextVars>>

\* shutdownTimeout passes first: cancelBase, and Start returns an error.
DrainUnbounded ==
    /\ server = "draining"
    /\ FALSE
    /\ server' = "forced"
    /\ UNCHANGED <<requestVars, contextVars>>
DrainTimesOut ==
    /\ server = "draining"
    /\ \E r \in Requests : InFlight(r)
    /\ server' = "forced"
    /\ ended' = [r \in Requests |-> InFlight(r)]
    /\ UNCHANGED <<kind, pc, of, err, heads, logged, handed, contextVars>>

\* CloseStmtCache, then CloseConnection; after a forced shutdown, neither.
StopStep ==
    /\ \/ server = "drained" /\ server' = "swept"
       \/ server = "swept" /\ server' = "stopped"
       \/ server = "forced" /\ server' = "exited"
    /\ UNCHANGED <<requestVars, contextVars>>

-----------------------------------------------------------------------------
Step(r) ==
    \/ Fallback(r)
    \/ Enter(r)
    \/ TimeoutReturns(r)
    \/ RecoverReturns(r)
    \/ LoggerReturns(r)
    \/ Render(r)
    \/ Release(r)

Stop == Drained \/ DrainTimesOut \/ StopStep

Next ==
    \/ \E r \in Requests :
          \/ \E c \in Contexts : Acquire(r, c)
          \/ SetValue(r)
          \/ Respond(r)
          \/ \E e \in HandlerErrors : Finish(r, e)
          \/ Step(r)
          \/ ContextEnds(r)
    \/ ListenFails
    \/ Signal
    \/ Stop

Spec == Init /\ [][Next]_vars

\* The framework's own steps are taken: goroutines run, and Shutdown and what
\* follows it goes on.  Handlers need not return: nothing can make them.
FairSpec == Spec /\ (\A r \in Requests : WF_vars(Step(r))) /\ WF_vars(Stop)

-----------------------------------------------------------------------------
(* Properties. *)

\* Every request has exactly one response, however its handler ends, whether
\* it wrote before it failed, and whatever its context does meanwhile; only
\* ErrAbortHandler leaves it without one.
OneResponse ==
    \A r \in Requests :
        /\ Len(heads[r]) <= 1
        /\ pc[r] = "release" /\ err[r] # "abort" => Len(heads[r]) = 1

\* A Context in use never carries anything of the request that had it before,
\* and never serves two: a 404 without middleware must not show the request_id
\* of another request, nor a handler find another's principal.
ContextIsOwn ==
    /\ \A r, s \in Requests : of[r] = of[s] /\ of[r] # None => r = s
    /\ Held \cap pool = {}
    /\ \A r \in Requests : of[r] # None =>
          /\ fields[of[r]].id \in {None, r}
          /\ fields[of[r]].values \in {None, r}
          /\ fields[of[r]].wrote <=> heads[r] # <<>>

\* What the client sees follows from what the handler did, through all the
\* layers on the way out: a response it wrote stands; a panic is a 500; once
\* its context has ended, returning nothing is a 504, not an empty 200 (and
\* either, when the context ends as the handler returns).  The line of the log,
\* written before, predicts the status: rightly when the handler either wrote or
\* failed, except for the errors that only a mapper knows, which it takes for 500.
Outcomes(r) ==
    LET h == handed[r] IN
    IF h.wrote THEN {201}
    ELSE IF h.result = "panic" THEN {500}
    ELSE IF h.result # "nil" THEN {Rendered(h.result)}
    ELSE IF h.late THEN {504}
    ELSE IF ended[r] THEN {200, 504}
    ELSE {200}
ClientSeesOutcome ==
    \A r \in Requests :
        pc[r] = "release" /\ err[r] # "abort" =>
            /\ handed[r] # None => \E s \in Outcomes(r) : heads[r] = <<s>>
            /\ /\ logged[r] # None /\ handed[r] # None
               /\ handed[r].wrote <=> err[r] = "nil"
               /\ err[r] \notin Mapped
               => heads[r] = <<logged[r]>>

\* The database pool is closed only when no request is left that could use it.
PoolOutlivesRequests ==
    server \in {"drained", "swept", "stopped"} =>
        \A r \in Requests : ~InFlight(r)

\* What waits is the handler and nothing else: every request that is not in its
\* handler ends, and gives its Context back, however the handler ended.
RequestsEnd ==
    \A r \in Requests :
        InFlight(r) ~> (pc[r] \in {"handler", "done"} \/ ~Running)

\* A signal stops the server, whatever handlers do: those that never return
\* delay it by no more than shutdownTimeout.
ShutdownEnds == server = "draining" ~> ~Running
==============================================================================
