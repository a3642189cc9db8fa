------------------------------- MODULE Accounts -------------------------------
(***************************************************************************)
(* What a handler waits for and must give back: the pool of connections    *)
(* that database.GetConnection opens once, the executor over it that       *)
(* orm.DefaultExecutor makes once, transactions (orm.WithTransactionCtx),  *)
(* and the slots of the password hasher (pkg/auth/password.go).  Its       *)
(* callers are Register and Login of the application's AuthService and     *)
(* functions in a transaction.                                             *)
(*                                                                         *)
(* A statement outside a transaction has its connection for one step; it   *)
(* waits while there is none.  A slot belongs to the semaphore that was    *)
(* current when its caller read the parameters: Configure makes a new one. *)
(***************************************************************************)
EXTENDS Naturals, FiniteSets

CONSTANTS
    Goroutines,     \* each makes one call
    Emails,
    Passwords,
    None,
    Earlier,        \* whoever registered before the process started, with this password
    EarlierPassword,
    MaxOpen,        \* DatabaseConfig.MaxOpenConns
    MaxConcurrent,  \* Params.MaxConcurrent
    MaxConfigures   \* calls of auth.Configure

VARIABLES
    db,         \* dbOnce and what it found
    exec,       \* defaultExecOnce and what it found
    pools,      \* pools that are open
    held,       \* goroutines that hold a connection, for their transaction
    gen,        \* the current parameters and their semaphore
    slots,      \* [0..MaxConfigures -> slots taken of that semaphore]
    users,      \* rows: [Emails -> row or None]
    done,       \* goroutines whose transaction is committed
    call

resources == <<pools, held, gen, slots>>
vars == <<db, exec, resources, users, done, call>>

Onces == {"new", "running", "up", "down"}
Gens == 0..MaxConfigures
Hashes == [password : Passwords, gen : Gens]    \* the hash of a password
Users == [id : Goroutines \cup {Earlier}, hash : Hashes]

Computing == {"hash", "verify", "dummy", "rehash"}
Statements == {"find", "create", "update", "issue"}
InTransaction == {"body", "nested", "commit", "rollback", "unwind"}
Answers == {"ok", "error", "panic"}
Calls == [kind : {"none", "register", "login", "tx"},
          place : {"idle", "begin"} \cup Computing \cup Statements \cup InTransaction
                  \cup Answers,
          email : Emails \cup {None},
          password : Passwords \cup {None},
          row : Users \cup {None},          \* the user as Login read it
          sem : Gens \cup {None},           \* hashTokens as the computation read it
          slot : BOOLEAN,                   \* does it hold one?
          ended : BOOLEAN,                  \* its context
          background : BOOLEAN,             \* WithTransaction: a context without end
          nested : BOOLEAN,                 \* has it used the default executor inside?
          maybe : BOOLEAN]                  \* history: Commit failed

ASSUME AccountsAssumption ==
    /\ IsFiniteSet(Goroutines)
    /\ MaxOpen \in Nat \ {0} /\ MaxConcurrent \in Nat \ {0} /\ MaxConfigures \in Nat
    /\ EarlierPassword \in Passwords /\ Earlier \notin Goroutines
    /\ None \notin Emails \cup Passwords \cup Users \cup Gens

TypeOK ==
    /\ db \in Onces /\ exec \in Onces
    /\ pools \in 0..1
    /\ held \subseteq Goroutines
    /\ gen \in Gens
    /\ slots \in [Gens -> 0..MaxConcurrent]
    /\ users \in [Emails -> Users \cup {None}]
    /\ done \subseteq Goroutines
    /\ call \in [Goroutines -> Calls]

Idle == [kind |-> "none", place |-> "idle", email |-> None, password |-> None, row |-> None,
         sem |-> None, slot |-> FALSE, ended |-> FALSE, background |-> FALSE,
         nested |-> FALSE, maybe |-> FALSE]

Init ==
    /\ db = "new" /\ exec = "new"
    /\ pools = 0
    /\ held = {}
    /\ gen = 0
    /\ slots = [n \in Gens |-> 0]
    /\ users \in [Emails -> {None, [id |-> Earlier,
                                     hash |-> [password |-> EarlierPassword, gen |-> 0]]}]
    /\ done = {}
    /\ call = [g \in Goroutines |-> Idle]

At(g, place) == call[g].place = place
Set(g, c) == call' = [call EXCEPT ![g] = c]
Goto(g, place) == Set(g, [call[g] EXCEPT !.place = place])
Busy(g) == call[g].place \notin {"idle"} \cup Answers

-----------------------------------------------------------------------------
(* Connecting, by whoever is first; the others wait. *)

WantsExec == \E g \in Goroutines : call[g].place \in Statements \cup {"nested"}
WantsDb == exec = "running" \/ \E g \in Goroutines : At(g, "begin")

ExecOnce ==
    /\ exec = "new" /\ WantsExec
    /\ exec' = "running"
    /\ UNCHANGED <<db, resources, users, done, call>>
DbOnce ==
    /\ db = "new" /\ WantsDb
    /\ db' = "running"
    /\ pools' = pools + 1
    /\ UNCHANGED <<exec, held, gen, slots, users, done, call>>
\* The Ping of Connect: when it fails the pool is closed, and nobody tries again.
Ping ==
    /\ db = "running"
    /\ \/ db' = "up" /\ UNCHANGED pools
       \/ db' = "down" /\ pools' = pools - 1
    /\ UNCHANGED <<exec, held, gen, slots, users, done, call>>
ExecDone ==
    /\ exec = "running" /\ db \in {"up", "down"}
    /\ exec' = db
    /\ UNCHANGED <<db, resources, users, done, call>>

-----------------------------------------------------------------------------
(* Statements of the default executor. *)

Free == Cardinality(held) < MaxOpen

\* The statement is run, and the connection is free again.
CanRun(g, place) == At(g, place) /\ exec = "up" /\ Free /\ ~call[g].ended
\* It is not: no database, or the context ended, or the database failed.
FailsLater(g, place) ==
    /\ At(g, place)
    /\ exec = "down" \/ (exec = "up" /\ Free)
Fails(g, place) ==
    /\ At(g, place)
    /\ exec = "down" \/ (exec = "up" /\ (call[g].ended \/ Free))

Find(g) ==
    /\ CanRun(g, "find")
    /\ LET row == users[call[g].email] IN
       Set(g, [call[g] EXCEPT !.place = IF row = None THEN "dummy" ELSE "verify", !.row = row])
    /\ UNCHANGED <<db, exec, resources, users, done>>
\* The unique index on email refuses the second.
Create(g) ==
    /\ CanRun(g, "create")
    /\ users[call[g].email] = None
    /\ users' = [users EXCEPT ![call[g].email] = call[g].row]
    /\ Goto(g, "issue")
    /\ UNCHANGED <<db, exec, resources, done>>
\* The whole row, where the id matches.
UpdateByEmail(g) ==
    /\ CanRun(g, "update")
    /\ LET e == call[g].email IN
       users' = IF users[e] # None THEN [users EXCEPT ![e].hash = call[g].row.hash] ELSE users
    /\ Goto(g, "issue")
    /\ UNCHANGED <<db, exec, resources, done>>
Update(g) ==
    /\ CanRun(g, "update")
    /\ LET e == call[g].email IN
       users' = IF users[e] # None /\ users[e].id = call[g].row.id
                THEN [users EXCEPT ![e] = call[g].row] ELSE users
    /\ Goto(g, "issue")
    /\ UNCHANGED <<db, exec, resources, done>>
\* The user may be gone: the foreign key refuses the token.
Issue(g) ==
    /\ CanRun(g, "issue")
    /\ LET row == users[call[g].email] IN
       Goto(g, IF row # None /\ row.id = call[g].row.id THEN "ok" ELSE "error")
    /\ UNCHANGED <<db, exec, resources, users, done>>
\* Login ignores what becomes of its UPDATE.
StatementFails(g) ==
    /\ \/ \E place \in {"find", "create", "issue"} : (Fails(g, place) /\ Goto(g, "error"))
       \/ (Fails(g, "update") /\ Goto(g, "issue"))
    /\ UNCHANGED <<db, exec, resources, users, done>>

\* A handler of the application removes a user.
DeleteUser(e) ==
    /\ users[e] # None
    /\ users' = [users EXCEPT ![e] = None]
    /\ UNCHANGED <<db, exec, resources, done, call>>

-----------------------------------------------------------------------------
(* Hash, Verify, VerifyDummy: one argon2 computation in a slot. *)

Configure ==
    /\ gen < MaxConfigures
    /\ gen' = gen + 1
    /\ UNCHANGED <<db, exec, pools, held, slots, users, done, call>>

CurrentParams(g) ==
    /\ call[g].place \in Computing /\ call[g].sem = None
    /\ Set(g, [call[g] EXCEPT !.sem = gen])
    /\ UNCHANGED <<db, exec, resources, users, done>>
\* sem <- struct{}{}, whatever becomes of the context.
Take(g) ==
    /\ call[g].place \in Computing /\ call[g].sem # None /\ ~call[g].slot
    /\ slots[call[g].sem] < MaxConcurrent
    /\ slots' = [slots EXCEPT ![call[g].sem] = @ + 1]
    /\ Set(g, [call[g] EXCEPT !.slot = TRUE])
    /\ UNCHANGED <<db, exec, pools, held, gen, users, done>>

\* What the caller does with the result.
After(g) ==
    LET c == call[g]
        fresh == [password |-> c.password, gen |-> c.sem]
    IN CASE c.place = "hash" ->
              [c EXCEPT !.place = "create", !.row = [id |-> g, hash |-> fresh]]
         [] c.place = "dummy" -> [c EXCEPT !.place = "error"]
         [] c.place = "verify" ->
              [c EXCEPT !.place = IF c.row.hash.password # c.password THEN "error"
                                  ELSE IF c.row.hash.gen < c.sem THEN "rehash"
                                  ELSE "issue"]
         [] c.place = "rehash" -> [c EXCEPT !.place = "update", !.row.hash = fresh]
Freed(g) == [After(g) EXCEPT !.sem = None, !.slot = FALSE]

\* The slot goes back to the semaphore it came from.
Release(g) ==
    /\ call[g].slot
    /\ slots' = [slots EXCEPT ![call[g].sem] = @ - 1]
    /\ Set(g, Freed(g))
    /\ UNCHANGED <<db, exec, pools, held, gen, users, done>>

-----------------------------------------------------------------------------
(* WithTransactionCtx *)

\* A context that ended before fails BeginTx, or makes it stop waiting.
Begin(g) ==
    /\ At(g, "begin") /\ db = "up" /\ Free /\ ~call[g].ended
    /\ held' = held \cup {g}
    /\ Goto(g, "body")
    /\ UNCHANGED <<db, exec, pools, gen, slots, users, done>>
BeginFails(g) ==
    /\ At(g, "begin")
    /\ db = "down" \/ (db = "up" /\ (call[g].ended \/ Free))
    /\ Goto(g, "error")
    /\ UNCHANGED <<db, exec, resources, users, done>>

\* fn: statements of tx, perhaps one of the default executor, and an end.
Body(g) ==
    /\ At(g, "body")
    /\ \/ ~call[g].nested /\ Set(g, [call[g] EXCEPT !.place = "nested", !.nested = TRUE])
       \/ \E place \in {"commit", "rollback", "unwind"} : Goto(g, place)
    /\ UNCHANGED <<db, exec, resources, users, done>>
Nested(g) ==
    /\ CanRun(g, "nested") \/ Fails(g, "nested")
    /\ Goto(g, "body")
    /\ UNCHANGED <<db, exec, resources, users, done>>

Leave(g, answer) ==
    /\ held' = held \ {g}
    /\ Goto(g, answer)
    /\ UNCHANGED <<db, exec, pools, gen, slots, users>>
\* fn returned nil.  Commit may fail, perhaps after it took effect.
Commit(g) ==
    /\ At(g, "commit") /\ g \in held /\ ~call[g].ended
    /\ \/ done' = done \cup {g} /\ Leave(g, "ok")
       \/ /\ done' \in {done, done \cup {g}}
          /\ held' = held \ {g}
          /\ Set(g, [call[g] EXCEPT !.place = "error", !.maybe = TRUE])
          /\ UNCHANGED <<db, exec, pools, gen, slots, users>>
\* The context ended: there is nothing to commit, and AutoRollback gives back the
\* connection if it has not yet.
CommitTooLateOk(g) ==
    /\ At(g, "commit") /\ call[g].ended
    /\ Goto(g, "ok")
    /\ UNCHANGED <<db, exec, resources, users, done>>
CommitTooLate(g) ==
    /\ At(g, "commit") /\ call[g].ended
    /\ Goto(g, "error")
    /\ UNCHANGED <<db, exec, resources, users, done>>
\* fn returned an error.  A transaction that is over already is not an error.
Rollback(g) ==
    /\ At(g, "rollback")
    /\ Leave(g, "error")
    /\ UNCHANGED done
\* fn panicked: roll back, and panic again.
UnwindOnly(g) ==
    /\ At(g, "unwind")
    /\ Goto(g, "panic")
    /\ UNCHANGED <<db, exec, resources, users, done>>
Unwind(g) ==
    /\ At(g, "unwind")
    /\ Leave(g, "panic")
    /\ UNCHANGED done

\* database/sql rolls back a transaction whose context ended.
AutoRollback(g) ==
    /\ g \in held /\ call[g].ended
    /\ held' = held \ {g}
    /\ UNCHANGED <<db, exec, pools, gen, slots, users, done, call>>

-----------------------------------------------------------------------------
(* Calls. *)

Start(g) ==
    /\ At(g, "idle")
    /\ \/ \E e \in Emails, p \in Passwords :
             \/ Set(g, [Idle EXCEPT !.kind = "register", !.place = "hash",
                                    !.email = e, !.password = p])
             \/ Set(g, [Idle EXCEPT !.kind = "login", !.place = "find",
                                    !.email = e, !.password = p])
       \/ \E b \in BOOLEAN :
             Set(g, [Idle EXCEPT !.kind = "tx", !.place = "begin", !.background = b])
    /\ UNCHANGED <<db, exec, resources, users, done>>

\* The client leaves, or the Timeout middleware's deadline is over.
ContextEnds(g) ==
    /\ Busy(g) /\ ~call[g].background /\ ~call[g].ended
    /\ Set(g, [call[g] EXCEPT !.ended = TRUE])
    /\ UNCHANGED <<db, exec, resources, users, done>>

Hashing(g) == CurrentParams(g) \/ Take(g) \/ Release(g)
Statement(g) == Find(g) \/ Create(g) \/ Update(g) \/ Issue(g) \/ StatementFails(g)
Transaction(g) ==
    \/ Begin(g) \/ BeginFails(g) \/ Body(g) \/ Nested(g)
    \/ Commit(g) \/ CommitTooLate(g) \/ Rollback(g) \/ Unwind(g)
Connecting == ExecOnce \/ DbOnce \/ Ping \/ ExecDone

Next ==
    \/ Connecting
    \/ Configure
    \/ \E e \in Emails : DeleteUser(e)
    \/ \E g \in Goroutines :
          \/ Start(g)
          \/ Hashing(g) \/ Statement(g) \/ Transaction(g)
          \/ AutoRollback(g) \/ ContextEnds(g)

Spec == Init /\ [][Next]_vars

\* A goroutine that can go on does; the database answers; every context that has an
\* end ends.
Fairness ==
    /\ WF_vars(Connecting)
    /\ \A g \in Goroutines :
          /\ WF_vars(Hashing(g) \/ Statement(g) \/ Transaction(g))
          /\ WF_vars(AutoRollback(g))
          /\ WF_vars(ContextEnds(g))
FairSpec == Spec /\ Fairness

-----------------------------------------------------------------------------
(* Properties. *)

\* Nothing is kept: a connection is held by a transaction in progress, or by one
\* whose context ended until database/sql has rolled it back; a semaphore counts
\* the computations that run in its slots, also after Configure made another; a
\* pool that could not be reached is closed.
NothingKept ==
    /\ \A g \in held : call[g].place \in InTransaction \/ call[g].ended
    /\ \A n \in Gens : slots[n] = Cardinality({g \in Goroutines :
                                       call[g].slot /\ call[g].sem = n})
    /\ pools = (IF db \in {"running", "up"} THEN 1 ELSE 0)

\* "committing on a nil return and rolling back otherwise" (tx.go:78-79), whatever
\* ends fn and whenever the context does: a transaction answered nil is committed,
\* one answered otherwise is not, unless it was Commit that failed.
AllOrNothing ==
    \A g \in Goroutines :
        /\ call[g].kind = "tx" /\ At(g, "ok") => g \in done
        /\ g \in done => At(g, "ok") \/ call[g].maybe

\* The hash stored for a user is always one of the password that user registered
\* with: not of a password that a login tried, and not of another user who had the
\* email before, however late the rehash of a login comes.
PasswordKept ==
    \A e \in Emails :
        users[e] # None =>
            users[e].hash.password = IF users[e].id = Earlier THEN EarlierPassword
                                     ELSE call[users[e].id].password

\* Every call whose context ends is answered, with a pool that transactions hold
\* and wait for, and with slots that do not heed the context.  One without end is
\* answered unless a transaction without end waits for a second connection.
CallsEnd ==
    \A g \in Goroutines :
        Busy(g) ~> \/ ~Busy(g)
                   \/ /\ call[g].background
                      /\ \E h \in Goroutines : call[h].background /\ At(h, "nested")
==============================================================================
