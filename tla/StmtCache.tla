------------------------------ MODULE StmtCache ------------------------------
(***************************************************************************)
(* The prepared-statement cache (pkg/orm/stmtcache.go) under concurrent    *)
(* callers, and the two calls with which the server ends its life          *)
(* (pkg/server/server.go:93-94).                                           *)
(*                                                                         *)
(* One step is what the code does between two points at which another      *)
(* goroutine may run: a critical section of c.mu, or one call into         *)
(* database/sql.  A *sql.Stmt is a member of Stmts; a new statement is     *)
(* any member that nothing refers to, as the allocator would have it.      *)
(***************************************************************************)
EXTENDS Naturals, FiniteSets

CONSTANTS
    Callers,        \* goroutines that run statements
    Queries,        \* SQL texts
    Stmts,          \* prepared statements
    NoStmt,         \* the nil *sql.Stmt
    MaxStmts,       \* stmtCache.max
    SpuriousStale   \* can an open statement fail with an error that
                    \* staleStmt recognises (sql.ErrConnDone)?

ASSUME StmtCacheAssumption ==
    /\ NoStmt \notin Stmts
    /\ MaxStmts \in Nat
    /\ SpuriousStale \in BOOLEAN

VARIABLES
    stmts,      \* c.stmts: [Queries -> Stmts \cup {NoStmt}]
    open,       \* prepared statements not closed yet
    pool,       \* is the *sql.DB open?
    pc,         \* where each caller is
    query,      \* the SQL text of its current call
    method,     \* the Executor method it called
    local,      \* its local variable stmt
    owned,      \* open statements only it will close
    sent,       \* times the SQL of its current call reached the database
    answer,     \* what its last call returned
    swept       \* the map stmtCache.Close took and has not closed yet

vars == <<stmts, open, pool, pc, query, method, local, owned, sent, answer,
          swept>>

\* "exec" stands for QueryContext and ExecContext, whose bodies are the same;
\* "row" for QueryRowContext.
Methods == {"exec", "row"}
Answers == {"none", "ok", "error", "stale"}
Locations == {"idle", "prepare", "admit", "discard", "run", "forget",
              "release", "direct"}
PoolStates == {"open", "sweeping", "swept", "closed"}

TypeOK ==
    /\ stmts \in [Queries -> Stmts \cup {NoStmt}]
    /\ open \subseteq Stmts
    /\ pool \in PoolStates
    /\ pc \in [Callers -> Locations]
    /\ query \in [Callers -> Queries]
    /\ method \in [Callers -> Methods]
    /\ local \in [Callers -> Stmts \cup {NoStmt}]
    /\ owned \in [Callers -> SUBSET Stmts]
    /\ sent \in [Callers -> 0..1]
    /\ answer \in [Callers -> Answers]
    /\ swept \subseteq Stmts

-----------------------------------------------------------------------------
(* Derived state. *)

CachedQueries == {q \in Queries : stmts[q] # NoStmt}
CachedStmts == {stmts[q] : q \in CachedQueries}

\* len(c.stmts) >= c.max
Full == Cardinality(CachedQueries) >= MaxStmts

\* Statements that some variable of the program still points to.
Referenced ==
    CachedStmts \cup swept \cup {local[c] : c \in Callers}
                \cup UNION {owned[c] : c \in Callers}

-----------------------------------------------------------------------------
Init ==
    /\ stmts = [q \in Queries |-> NoStmt]
    /\ open = {}
    /\ pool = "open"
    /\ pc = [c \in Callers |-> "idle"]
    /\ query \in [Callers -> Queries]
    /\ method \in [Callers -> Methods]
    /\ local = [c \in Callers |-> NoStmt]
    /\ owned = [c \in Callers |-> {}]
    /\ sent = [c \in Callers |-> 0]
    /\ answer = [c \in Callers |-> "none"]
    /\ swept = {}

-----------------------------------------------------------------------------
(* stmtCache.get *)

Goto(c, here, there) ==
    /\ pc[c] = here
    /\ pc' = [pc EXCEPT ![c] = there]

\* The method is called, and get reads the map under the read lock.
Lookup(c, q, m) ==
    /\ query' = [query EXCEPT ![c] = q]
    /\ method' = [method EXCEPT ![c] = m]
    /\ sent' = [sent EXCEPT ![c] = 0]
    /\ answer' = [answer EXCEPT ![c] = "none"]
    /\ local' = [local EXCEPT ![c] = stmts[q]]
    /\ \/ stmts[q] # NoStmt /\ Goto(c, "idle", "run")
       \/ stmts[q] = NoStmt /\ Full /\ Goto(c, "idle", "direct")
       \/ stmts[q] = NoStmt /\ ~Full /\ Goto(c, "idle", "prepare")
    /\ UNCHANGED <<stmts, open, pool, owned, swept>>

\* db.PrepareContext succeeds, outside the lock.
Prepare(c, s) ==
    /\ pool # "closed"
    /\ s \notin open \cup Referenced
    /\ Goto(c, "prepare", "admit")
    /\ open' = open \cup {s}
    /\ local' = [local EXCEPT ![c] = s]
    /\ owned' = [owned EXCEPT ![c] = {s}]
    /\ UNCHANGED <<stmts, pool, query, method, sent, answer, swept>>

\* db.PrepareContext fails: cancelled, refused, or the pool is closed.
PrepareFails(c) ==
    /\ Goto(c, "prepare", "direct")
    /\ UNCHANGED <<stmts, open, pool, query, method, local, owned, sent,
                   answer, swept>>

\* The critical section that ends get.  Another goroutine's statement for
\* the same text wins; a full cache takes nothing.
AdmitUnchecked(c) ==
    /\ \/ /\ stmts[query[c]] # NoStmt
          /\ Goto(c, "admit", "discard")
          /\ local' = [local EXCEPT ![c] = stmts[query[c]]]
          /\ UNCHANGED <<stmts, owned>>
       \/ /\ stmts[query[c]] = NoStmt
          /\ Goto(c, "admit", "run")
          /\ stmts' = [stmts EXCEPT ![query[c]] = local[c]]
          /\ owned' = [owned EXCEPT ![c] = {}]
          /\ UNCHANGED local
    /\ UNCHANGED <<open, pool, query, method, sent, answer, swept>>
AdmitLeakingLoser(c) ==
    /\ \/ /\ stmts[query[c]] # NoStmt
          /\ Goto(c, "admit", "run")
          /\ local' = [local EXCEPT ![c] = stmts[query[c]]]
          /\ owned' = [owned EXCEPT ![c] = {}]
          /\ UNCHANGED stmts
       \/ /\ stmts[query[c]] = NoStmt /\ Full
          /\ Goto(c, "admit", "discard")
          /\ local' = [local EXCEPT ![c] = NoStmt]
          /\ UNCHANGED <<stmts, owned>>
       \/ /\ stmts[query[c]] = NoStmt /\ ~Full
          /\ Goto(c, "admit", "run")
          /\ stmts' = [stmts EXCEPT ![query[c]] = local[c]]
          /\ owned' = [owned EXCEPT ![c] = {}]
          /\ UNCHANGED local
    /\ UNCHANGED <<open, pool, query, method, sent, answer, swept>>
Admit(c) ==
    /\ \/ /\ stmts[query[c]] # NoStmt
          /\ Goto(c, "admit", "discard")
          /\ local' = [local EXCEPT ![c] = stmts[query[c]]]
          /\ UNCHANGED <<stmts, owned>>
       \/ /\ stmts[query[c]] = NoStmt /\ Full
          /\ Goto(c, "admit", "discard")
          /\ local' = [local EXCEPT ![c] = NoStmt]
          /\ UNCHANGED <<stmts, owned>>
       \/ /\ stmts[query[c]] = NoStmt /\ ~Full
          /\ Goto(c, "admit", "run")
          /\ stmts' = [stmts EXCEPT ![query[c]] = local[c]]
          /\ owned' = [owned EXCEPT ![c] = {}]
          /\ UNCHANGED local
    /\ UNCHANGED <<open, pool, query, method, sent, answer, swept>>

\* stmt.Close of the statement that was not admitted.
DiscardExisting(c) ==
    /\ Goto(c, "discard", IF local[c] = NoStmt THEN "direct" ELSE "run")
    /\ open' = open \ (owned[c] \cup {local[c]})
    /\ owned' = [owned EXCEPT ![c] = {}]
    /\ UNCHANGED <<stmts, pool, query, method, local, sent, answer, swept>>
Discard(c) ==
    /\ Goto(c, "discard", IF local[c] = NoStmt THEN "direct" ELSE "run")
    /\ open' = open \ owned[c]
    /\ owned' = [owned EXCEPT ![c] = {}]
    /\ UNCHANGED <<stmts, pool, query, method, local, sent, answer, swept>>

-----------------------------------------------------------------------------
(* cachingExecutor *)

\* The method returns a; the statement reached the database n more times.
Return(c, here, a, n) ==
    /\ Goto(c, here, "idle")
    /\ sent' = [sent EXCEPT ![c] = @ + n]
    /\ answer' = [answer EXCEPT ![c] = a]
    /\ local' = [local EXCEPT ![c] = NoStmt]
    /\ UNCHANGED <<stmts, open, pool, query, method, owned, swept>>

\* What running a statement on the pool may come to, and whether the
\* database saw it: an error may arise before or after that.
DbOutcomes == IF pool = "closed" THEN {<<"error", 0>>}
                                 ELSE {<<"ok", 1>>, <<"error", 0>>, <<"error", 1>>}

\* What running the local statement may come to.  database/sql refuses a
\* closed statement; neither stale error reaches the database.
StmtOutcomes(c) ==
    IF local[c] \notin open THEN {<<"stale", 0>>}
    ELSE DbOutcomes \cup (IF SpuriousStale THEN {<<"stale", 0>>} ELSE {})

\* QueryContext and ExecContext give up on the statement when the error is
\* stale; QueryRowContext hands every answer to its caller.
StaleMethods == {"row"}

RunSurfacesStale(c) ==
    \E o \in StmtOutcomes(c) : Return(c, "run", o[1], o[2])
Run(c) ==
    \E o \in StmtOutcomes(c) :
        \/ /\ o[1] # "stale" \/ method[c] \in StaleMethods
           /\ Return(c, "run", o[1], o[2])
        \/ /\ o[1] = "stale" /\ method[c] \notin StaleMethods
           /\ Goto(c, "run", "forget")
           /\ UNCHANGED <<stmts, open, pool, query, method, local, owned,
                          sent, answer, swept>>

\* The critical section of stmtCache.forget: whatever statement the map now
\* holds for the text leaves it.
Forget(c) ==
    LET found == {stmts[query[c]]} \ {NoStmt} IN
    /\ Goto(c, "forget", IF found = {} THEN "direct" ELSE "release")
    /\ stmts' = [stmts EXCEPT ![query[c]] = NoStmt]
    /\ owned' = [owned EXCEPT ![c] = found]
    /\ UNCHANGED <<open, pool, query, method, local, sent, answer, swept>>

\* forget closes the statement it took, after unlocking.
ReleaseRetriesCached(c) ==
    /\ Goto(c, "release", "prepare")
    /\ open' = open \ owned[c]
    /\ owned' = [owned EXCEPT ![c] = {}]
    /\ UNCHANGED <<stmts, pool, query, method, local, sent, answer, swept>>
Release(c) ==
    /\ Goto(c, "release", "direct")
    /\ open' = open \ owned[c]
    /\ owned' = [owned EXCEPT ![c] = {}]
    /\ UNCHANGED <<stmts, pool, query, method, local, sent, answer, swept>>

\* The unprepared query on the pool.
Direct(c) ==
    \E o \in DbOutcomes : Return(c, "direct", o[1], o[2])

-----------------------------------------------------------------------------
(* Shutdown: CloseStmtCache, then CloseConnection.  Detached goroutines    *)
(* and handlers that outlive the server keep calling meanwhile.            *)

\* The critical section of stmtCache.Close: the map is replaced, max is not.
Sweep ==
    /\ pool = "open"
    /\ pool' = "sweeping"
    /\ swept' = CachedStmts
    /\ stmts' = [q \in Queries |-> NoStmt]
    /\ UNCHANGED <<open, pc, query, method, local, owned, sent, answer>>

\* One iteration of the loop over the old map.
CloseSwept(s) ==
    /\ s \in swept
    /\ open' = open \ {s}
    /\ swept' = swept \ {s}
    /\ UNCHANGED <<stmts, pool, pc, query, method, local, owned, sent, answer>>

\* The loop ends.
CloseReturns ==
    /\ pool = "sweeping"
    /\ swept = {}
    /\ pool' = "swept"
    /\ UNCHANGED <<stmts, open, pc, query, method, local, owned, sent, answer,
                   swept>>

ClosePool ==
    /\ pool = "swept"
    /\ pool' = "closed"
    /\ UNCHANGED <<stmts, open, pc, query, method, local, owned, sent, answer,
                   swept>>

-----------------------------------------------------------------------------
Step(c) ==
    \/ \E s \in Stmts : Prepare(c, s)
    \/ PrepareFails(c)
    \/ Admit(c)
    \/ Discard(c)
    \/ Run(c)
    \/ Forget(c)
    \/ Release(c)
    \/ Direct(c)

Shutdown ==
    \/ Sweep
    \/ \E s \in Stmts : CloseSwept(s)
    \/ CloseReturns
    \/ ClosePool

Next ==
    \/ \E c \in Callers :
          \/ \E q \in Queries, m \in Methods : Lookup(c, q, m)
          \/ Step(c)
    \/ Shutdown

Spec == Init /\ [][Next]_vars

\* A goroutine inside a call keeps running: the Go scheduler is fair to
\* runnable goroutines, and every call into database/sql returns.
FairSpec == Spec /\ \A c \in Callers : WF_vars(Step(c))

-----------------------------------------------------------------------------
(* Properties. *)

\* The bound of DefaultStmtCacheSize holds although get reads the size under
\* one lock and inserts under another: racing preparers of different texts
\* never push the map past max (stmtcache.go:51-82).
BoundKept == Cardinality(CachedQueries) <= MaxStmts

\* A statement found in the map is usable: closing always follows removal,
\* so a lookup never returns a statement somebody already closed.
CachedOpen == CachedStmts \subseteq open

\* Every open statement has exactly one place responsible for closing it: an
\* entry of the map, the map that Close took, or one goroutine's variable.
\* Otherwise a lost race leaks a statement on every pooled connection, or
\* closes one twice.
Ownership ==
    /\ open = CachedStmts \cup swept \cup UNION {owned[c] : c \in Callers}
    /\ CachedStmts \cap swept = {}
    /\ \A p, q \in CachedQueries : stmts[p] = stmts[q] => p = q
    /\ \A c \in Callers : owned[c] \cap (CachedStmts \cup swept) = {}
    /\ \A c, d \in Callers : c # d => owned[c] \cap owned[d] = {}

\* "Eviction would mean closing a *sql.Stmt that another goroutine may be
\* about to use" (stmtcache.go:23): while a caller holds a statement it is
\* about to run, only shutdown or a forget after a stale error closes it,
\* never an admission, however many goroutines prepare at once.
InUse(s) == \E c \in Callers : pc[c] = "run" /\ local[c] = s
NeverEvicts ==
    [][\A s \in open \ open' : InUse(s) =>
          \/ s \in swept
          \/ \E c \in Callers : pc[c] = "release" /\ s \in owned[c]]_vars

\* The executor is a plain pool to its callers: each call has one answer, the
\* SQL reaches the database at most once although a call may try twice, and
\* QueryContext and ExecContext never surface a statement error.
Plain == INSTANCE SqlExecutor
            WITH pending <- [c \in Callers |-> pc[c] # "idle"]
RefinesExecutor == Plain!Spec

\* What is true of a caller at each place: it owns a statement only between
\* preparing and admitting one, and between taking one out of the map and
\* closing it; nobody is about to run a statement that is not admitted or will
\* not be; nothing has reached the database before the call returns.
CallerInv(c) ==
    /\ pc[c] \notin {"admit", "discard", "release"} => owned[c] = {}
    /\ pc[c] = "admit" => owned[c] = {local[c]}
    /\ pc[c] \in {"admit", "discard"} =>
          \A d \in Callers :
             pc[d] \in {"run", "discard"} => local[d] \notin owned[c]
    /\ pc[c] # "idle" => sent[c] = 0

\* The inductive invariant of the proofs.
IInv ==
    /\ TypeOK
    /\ IsFiniteSet(CachedQueries)
    /\ BoundKept
    /\ Ownership
    /\ pool # "sweeping" => swept = {}
    /\ \A c \in Callers : CallerInv(c)

\* Every call returns: giving up on a stale statement never leads back to
\* another statement that may go stale.
CallsReturn == \A c \in Callers : pc[c] # "idle" ~> pc[c] = "idle"
==============================================================================
