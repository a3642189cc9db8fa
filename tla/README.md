# Verification of Gochin

TLA+ models of the Gochin web framework (Go): what its concurrent and stateful
parts promise, checked with TLC on small instances and, for the core, proved
with TLAPS for every value of the constants. `PROJECT.json` lists components,
runs, mutants, hazards, findings and theorems, and maps each definition to the
lines it translates.

    tlc  -workers 2 -config MCStmtCache.cfg MCStmtCache    # a run
    tlapm Database_proofs.tla                              # a proof

## 1. Inventory

Gochin is a library with a command-line tool. One process serves HTTP: a
goroutine per request goes through a middleware chain to the application's
handler, which uses the ORM on one `*sql.DB`. Commands (`db migrate`, `seed`,
`make`) run as processes of their own against the same database or tree.

| Component | State | Operations | Hard behaviour | What makes it correct |
|---|---|---|---|---|
| Statement cache, `pkg/orm/stmtcache.go`, `tx.go` | `stmts` under `mu`; prepared statements in the database | `get`, `forget`, `Close`; `QueryContext`, `ExecContext`, `QueryRowContext` | check-then-insert over two locks, closing what others use, retry after a stale statement, shutdown beside callers | bound, one owner per open statement, no eviction, a call is like one on a plain pool |
| Rate limiter, `middleware/ratelimit.go` | `buckets` under `mu`; the janitor's ticker | `allow`, janitor | clock read before the lock, eviction, rounding | budget of every window, `Retry-After` is enough, idle buckets go |
| Migrator, `pkg/orm/migrator.go`, `commands/db.go` | `schema_migrations`, the schema | `Up`, `Down` | concurrent invocations, kills, ambiguous commits, several releases | ledger = schema, no holes, `Up` complete, `Down` takes the highest |
| Router, `pkg/router/router.go`, `static.go` | `mux`, `registered`, `mw`, groups | `Use`, `Group`, `Get`.., `Static`, `Build`, dispatch | what `Build` synthesizes joins ServeMux's precedence; order of registration | most specific route answers, accurate `Allow`, panics only on ambiguity, middleware not skipped |
| Request life, `router/context.go`, `adapt` | the pooled `Context`, `ctxPool` | `acquire`, `release`, `WriteHeader`, `Set`, error handler | reuse, panics, response written before an error | one response, nothing of another request |
| Global middleware, `middleware/*.go` | per request | `RequestID`, `Logger`, `Recover`, `CORS`, `RateLimit`, `Timeout` | order of layers on the way out, deadline racing the return | the client sees what the handler did, the log says what the client saw |
| Server, `pkg/server/server.go` | listener, base context, pool | `Start`, `Shutdown` | draining with hung handlers, fatal listen error | pool outlives requests, a signal stops it |
| Auth guard and sessions, `pkg/auth/guard.go`, `AuthService.go.tmpl` | `auth_tokens`, `users` | `authenticate`, `touch`, `Login`, `Logout`, `RevokeAllForUser` | revocation against requests in flight, throttled and detached touches, store failures | a revoked token never authenticates again, outage is 503, idle timeout |
| Accounts, `pkg/auth/password.go`, `orm/tx.go`, `database/connection.go`, `AuthService.go.tmpl` | the two `sync.Once`, the pool, hashing parameters and semaphore, `users` | `Configure`, `Hash`, `Verify`, `Register`, `Login`, `WithTransactionCtx`, `GetConnection` | a first connection that fails, a pool all of whose connections are held, a semaphore replaced while held, a commit racing the context, a rehash that comes late | everything is given back, a transaction is all or nothing, no stored hash of another's password, calls are answered |
| Log channels, `pkg/logs` | `cfg`, `channels`, `writers`, files | `Init`, `Channel`, `Write`, `Close` | build outside the lock, losing a race, write after close | one logger per channel, every open file known to `Close`, no panic |
| Queries, `pkg/orm/query.go`, `relations.go`, `crud.go` | the tables | `Paginate`, `Get`, `Count`, `LoadBelongsTo`, `LoadHasMany`, `Create`, `Update`, `Delete` | two statements per page and many per walk, overflow of the offset, whole-row updates | a walk misses no more than was written, loaders agree with a query per row, no row revived |
| Files, `pkg/storage`, `router/upload.go`, `server/file_loader.go`, `commands/make.go` | the disk, `FileCache`, `app/Migrations` | `Put`, `Get`, `Delete`, `Store`, `GetHTMLContent`, `make migration` | in-place truncation, removal on failure, time and content read apart, an unsynchronised map | uploads whole or absent, cache not stale, versions in order |
| Mail, seeders, schema builder, configuration, route registry | little or none | | | see section 6 |

How they meet: `BuildRouter` configures logging, the cache size, error mappers,
auth and mail, then builds the router; a request passes the middleware, may
pass the guard, and runs statements through `DefaultExecutor`, hence the cache;
`Server.Start` drains the requests, then closes the cache, then the pool;
the guard's touches are detached goroutines that outlive their request and may
outlive the drain. Every command runs `logs.Init` first and `logs.Close` last.
`Register` and `Login` take a slot of the hasher, then a connection; a function in a
transaction holds its connection while it may ask for another.

## 2. Modules

| Module | Models | Kind |
|---|---|---|
| `SqlExecutor` | what the ORM expects of an `Executor` | abstract specification |
| `StmtCache` | the cache, its executor and the end of the pool; implements `SqlExecutor` | system |
| `RateLimit`, `RateLimit_proofs` | the token bucket and its janitor | system, proofs |
| `Migrator`, `Migrator_proofs` | `db migrate [--rollback]` by several processes | system, proofs |
| `Router` | registration, `Build`, dispatch over ServeMux | system |
| `MCServer`, `MCGuarded` | `Pipeline` beside `RateLimit`, `Router` beside `Sessions` | model checking |
| `Pipeline` | pooled contexts, middleware, error rendering, server | system |
| `Requests_proofs` | `Pipeline` and `Router` | proofs |
| `Sessions`, `Sessions_proofs` | the auth guard over the token table | system, proofs |
| `Accounts`, `Accounts_proofs` | the pool, transactions, hashing slots, register and login | system, proofs |
| `LogChannels`, `LogChannels_proofs` | default logger, channels, daily files | system, proofs |
| `Orm` | the query builder, pagination, loaders and CRUD under concurrent writes | algorithms inside a system |
| `Database_proofs` | `StmtCache` and `Orm` | proofs |
| `Files`, `Files_proofs` | uploads, the page cache, `make migration` | system, proofs |
| `MC*` | constants for TLC | model checking |

The modules do not share variables. Where two parts meet, one module has both: the cache
and the end of its pool (`StmtCache`), requests and the draining server (`Pipeline`), a
transaction and the default executor over one pool, and a login's hashing and statements
(`Accounts`). `MCServer` checks `Pipeline` and `RateLimit` in one run, `MCGuarded` `Router` and
`Sessions`. The two of a run do not call each other in the models (`Pipeline` lets the limiter answer
either way), share no variable, and each property reads those of one of them. So one of them
moves per behaviour, while the other is as it began: what the other did would change none of its
behaviours, and the product of the state spaces would only repeat them.

An operator that stands directly before another of the same parameters and that no
specification uses (`AdmitUnchecked` before `Admit`) is a faulty variant: the mutants of
`PROJECT.json` put it in the place of the definition, and TLC finds the property it is listed
with violated.

### StmtCache

`stmts` is `c.stmts`, `local` and `owned` are the goroutine's variable `stmt`,
`open` is what the database holds. A step is one critical section of `c.mu` or
one call into `database/sql`. `Lookup` is lines 51-61 of `get`; `Prepare` and
`PrepareFails` the call outside the lock; `Admit` the second critical section
with its three ends; `Discard` the `Close` of a statement that was not admitted.
`Run` is the statement's execution, `Forget` and `Release` the two halves of
`forget`, `Direct` the unprepared fallback. `Sweep`, `CloseSwept`, `CloseReturns`
and `ClosePool` are `CloseStmtCache` and `CloseConnection`; callers go on
meanwhile, as detached touches do. `exec` stands for `QueryContext` and
`ExecContext`, whose bodies are equal.

`database/sql` is modelled by three facts: a closed statement answers
"statement is closed" without reaching the database; another error may come
before or after the statement took effect; a closed pool answers errors. That a
statement re-prepares itself on another connection is inside these.

### RateLimit

Time is counted in ticks, a token is worth `Cost` ticks, and a bucket's level is
counted in ticks too, so that `tokens += elapsed * rate` is exact; the rounding
of `float64` is not modelled. `Stamp` reads the clock and `Decide` is the critical
section, so readings are applied in any order; `MaxDelay` bounds how old a reading
may be. The janitor forgets a bucket that was not used for ten minutes, be it full again or
not: nothing is assumed of `Burst`, and the code checks nothing. `evicted` counts the evictions
of a window, and `Windfall` is what each may give a client: what a bucket can still lack after
ten minutes, which is nothing unless `Burst` is above ten minutes of budget. `BudgetKept` has
that much added (`Gift`), and the run an instance in which it is not zero.

### Migrator

`ledger` is `schema_migrations` in commit order, `schema` the migrations whose
effect is there, `lock` the transaction working on a migration. Statements and
their failures are separate steps; a failing `Commit` may have committed. A run
may be killed anywhere. PostgreSQL is external: transactions are atomic, and two
that create or drop the same objects wait for each other (their `Up` and `Down`
touch the same objects, and the primary key refuses a second row). An invocation
takes one lock at a time, so nobody waits in a circle; what could hinder `RunsEnd` is a
transaction left open by a failure. `Registered` is what each invocation was compiled with: the
releases may differ. `ReadTarget` takes the highest applied version, as the code does;
`DownTakesHighest` says what this is good for, that a release's rollbacks leave no hole in it, and
`DownIsMostRecent` what the comment promises (finding 3).

### Router

A path is a sequence of segments, and a pattern denotes the set `Reach` of paths it matches; "more
specific" is the proper subset, as ServeMux documents it, and two patterns conflict when they
overlap with neither more specific. ServeMux is external. `Synthesized` is what `Build` adds per
path that does not end in a slash, those of `Static` (`{p...}`) included, whatever the comment there
says (finding 2). `Expected` tells from the routes alone who is to answer a request, and
`MostSpecificAnswers` compares it with `Dispatch`. `Handle` is the body of `handle` with all of its
panics: after `Build`, a malformed path, a method it does not know, a route registered twice, and
ServeMux's own for a conflict. Groups are nested to the depth that `Bases` has. ServeMux's redirects
are left out: with the catch-all `/` that `Build` registers none happens.

### Pipeline

`pc` is where a request is between `acquire` and `release`; `err` the error on its
way out; `fields` the pooled `Context`. `Enter` is the way in through the six
layers, where `CORS` may answer and `RateLimit` may refuse; the way out is one
action per layer: `TimeoutReturns`, `RecoverReturns`, `LoggerReturns`, `Render`,
`Release`. What `Build` synthesizes takes `Fallback` instead, without middleware.
`heads`, `logged` and `handed` are history: what was written on the connection, on
the log line, and by the handler. `Release` forgets them, so the properties about
a finished request look at it when it is at `release`. Errors are classes:
`http` carries a status, `missing`, `deadline` and `cancelled` go through the mappers
of `bootstrap/errors.go`, `panic` and `abort` are panics.

`net/http` is external: a request that comes on a connection accepted before
`Shutdown` is still served, `Shutdown` returns when no connection is active or the
time is over. The moment at which an idle connection becomes active while
`Shutdown` closes it, inside `net/http`, is not modelled.

### Sessions

`tokens` is the table `auth_tokens`, `users` the rows of `users`, `call` a request in
`authenticate` or the handler behind it, `touches` the detached goroutines that `touch`
starts. Each statement on the database is one step: `FindToken`, `LoadUser`, `Touch`,
`Logout`, `LogoutAll`, `IssueToken`; `Judge` is what `authenticate` does between its two,
with the clock it reads there. `LoadUser` includes `store` and the throttle of `touch`,
which follow without a statement. A failing statement may have taken effect.
`settled` is history: the last use of a token whose touch was written, or that the
throttle found not worth one. The skeleton's `LoadUser` never answers
`ErrInvalidCredentials`, so that answer is left out; `TouchInterval < 0` (never touch) and
a nil `TouchToken` are too. A token that was never touched has no `last_used_at` and does
not become idle (`guard.go:204`); the model has this, no property is about it.

### Accounts

`db` and `exec` are the two `sync.Once` (`dbOnce`, `defaultExecOnce`): `new`, `running`, and
`up` or `down` for ever, since a failure is remembered like a success. `held` is who has a
connection of the pool for a transaction; a statement of the default executor takes and
returns one within its step, so that it waits while `held` is at `MaxOpen`. `slots` counts per
generation of `auth.Configure` what is taken of that semaphore; `call.sem` is the semaphore
the goroutine read (`currentParams`), which it gives the slot back to. `Take` does not heed
the context, as the code does not. `Register` is `hash`, `create`, `issue`; `Login` is
`find`, then `dummy`, or `verify` and perhaps `rehash` and `update`, then `issue`.
A transaction is `begin`, `body` (with at most one statement of the default executor,
`nested`), and `commit`, `rollback` or `unwind`. `database/sql` is external:
it rolls a transaction back when its context ends (`AutoRollback`), at any time after; a
`Commit` of such a one fails; a failing `Commit` may have committed. A hash is the password
and the generation of the parameters it was made under; argon2 is a comparison.

### LogChannels

A logger is the number of the `build` that made it and whether it writes to a file; its
writer has the same number. `Lookup`, `BuildChannel`, `InstallChannel` and `Discard` are
`Channel` between its locks, `InitBuild`, `InitInstall`, `InitDefault` the same of `Init`.
`WriteTo` is a record: afterwards the file is open or, since its day is over and today's
could not be opened, closed. `late` is history: who wrote after `Close`. The panic of `Discard`
is `writer.Close()` of a nil `*dailyWriter` (`logs.go:159`).

### Orm

`posts` is the table of a generated resource with its foreign key and whether `created_at`
is set, `authors` the referenced table. A statement is a step. `Count`, `FirstPage` and
`NextPage` are `Index` of the controller over `Paginate`, repeated by a client; `LoadAuthors`
and `LoadOthers` are `LoadBelongsTo` and `LoadHasMany`, whose index and assignment are operators
(`IndexParents`, `Assign`) that `RelationsExact` compares with a query per row. `Get` orders by
rank (`Descending`): the first row is the one with none before it. An int has
`IntLimit` values on each side of zero and `PageOffset` wraps. `Find` may have read a
record in part, so that its `created_at` is zero. Whole-row updates lose concurrent ones;
this is what the code does and no property forbids it.

### Files

A path leads to an inode, which lives on for those that have it open. A file is two blocks, each
known by who wrote it, so a step is one call on the file system and writers interleave. `Open`,
`WriteBlock`, `CopyFails`, `Remove` and `RemoveFails` are `LocalDisk.Put`: the error of `os.Remove`
is discarded, so that a part may be left (finding 11). `Store` is `UploadedFile.Store`, which puts
under a random name that is taken to be nobody else's; `Get` reads what it opened; the path of an
upload is `Known` when it was answered. `Stat`, `Lookup`, `Load`, `Insert` are `GetHTMLContent` (its
`os.ReadFile` is one step); `MapRace` is the runtime's fatal error of two goroutines in `FileCache`,
of which at least one writes, and ends the process. Readers of a shared path may get a part of a
file; the code promises no more. `StartMake`, `Scan` and `Write` are `make migration`; two that run
at once may take one version, and only commands that follow each other are ordered.
`RemoveMigration` and `MergeMigration` are what a developer does in between. A version is text of
six digits, with zeros in front, and is sorted as text by the generator and the migrator: `Precedes`
is that order on the numbers. It is the order of the numbers up to `MaxVersion`, the last of six
digits; a version of seven, which the scan does not see, sorts by its first six (finding 12), and
`VersionsInOrder` speaks of six digits only.

## 3. Runs

| Run | Instance | States | Shows |
|---|---|---|---|
| `stmtcache` | 2 goroutines, 2 texts, 3 statements, bound 1 | 134,000 | bound, ownership, no eviction, refinement of `SqlExecutor`, calls return |
| `server` | 2 requests, 2 contexts, 4 ways to end; 1 key, 2 goroutines, 9 ticks | 561,000 | one response, the right one, no leftovers, shutdown; budget, `Retry-After`, eviction |
| `guarded` | 2 routes of 8 paths and a `Static`, 2 groups; 2 requests, 1 token, 6 ticks | 619,000 | dispatch, `Allow`, ambiguity, middleware; dead tokens stay out, a 401 has a reason, idle means idle |
| `migrator` | 3 invocations of one release, 3 migrations | 62,000 | ledger, holes, completeness, rollback, termination |
| `migrator_merge` | 3 invocations of two releases | | violation: `Down` takes the highest version, not the last applied |
| `router_preflight` | the router of `guarded` | | violation: a preflight does not reach `CORS` |
| `router_static` | the same | | violation: a `Static` shadows a route |
| `accounts` | 2 calls, 1 email, 2 passwords, 1 connection, 1 slot, 1 `Configure` | 104,000 | nothing is kept, all or nothing, passwords, calls are answered |
| `logs` | 2 goroutines, 2 channels, 2 `Init`, 4 builds | 1,056,000 | open files are owned, one logger, when `Channel` panics |
| `orm` | 1 client, 2 writers, 4 ids, ints of -8..7 | 2,128,000 | what a walk misses, far pages, loaders, rows kept |
| `orm_pointer` | the same, the key a pointer | | violation: a loader panics |
| `files` | 3 goroutines or commands, 2 ticks | 2,673,000 | uploads whole, cache fresh, versions in order |

Why the bounds are enough. *stmtcache*: with room for one statement both texts compete, the cache is
full and empty, and two goroutines cover every pairwise race; each goroutine holds one private
statement beside a cached or a swept one, so three suffice. *server*, the limiter: the ticker fires
twice in the time after which a bucket is idle, as in the code; a second is no multiple of a token,
a bucket is evicted twice and need not be full then, and readings overtake each other; the bound on
the clock is `MaxClock`. *migrator*: two race while the third rolls back or dies; three versions are
needed for a hole between two, and for one that is merged late. *guarded*, the router: precedence
and conflicts are between two patterns, and the paths cover literal, wildcard, crossing, `{$}`,
`{p...}` and the malformed; the responses `Build` adds bring the third party. *server*, requests:
two requests are enough for a reused and for a doubly used context; a context that a third meets is
as reset as for the second. *guarded*, the guard: it keeps no state beyond one token's row, its user
and the request, so one token and two requests show each race of a request with a logout, a touch or
a deletion caused by another; two touches overtake each other with `MaxLife` of one tick.
`IdleIsIdle` is tight: with a tick more on either side of its disjunction it fails. `MaxClock`
bounds time; a token is issued, throttled, idle and expired within it. *accounts*: with one
connection and one slot two calls already wait for each other, for themselves (`nested`) and across
a `Configure`; the one email changes hands through `DeleteUser`. *logs*: four builds are two
goroutines racing for a channel beside both Inits. *orm*: one client, as clients do not see each
other; two rows can be made and two deleted between two statements of a walk, and a result can
exceed `HardRowCap`. The pages asked for make the product fit, wrap to a negative and wrap to a
small number. *files*: a writer, one that deletes or overwrites, and a reader; the clock lets a
write fall into the tick of a read and after it; `InitVersions` gives gaps and removed files.
Versions are written in base three with one digit: 2 is the last one, and the next, "10", sorts
before it.

Deadlock is checked for `stmtcache`. In the others the system stops of itself: invocations
and calls end, registration ends, the server stops, a clock or a number of builds is at its bound.

Fairness. `stmtcache`: weak fairness of each caller's next step, since the Go
scheduler runs runnable goroutines and calls into `database/sql` return.
`migrator`: the same of each running command; the database ends every transaction.
`server`: of the framework's own steps for a request and of `Start` after a signal; handlers are
**not** assumed to return, so `ShutdownEnds` rests on `shutdownTimeout` alone.
`accounts`: of connecting, of each goroutine's own next step, of `AutoRollback`, and of the end
of every context that has one (the `Timeout` middleware sets a deadline); nothing is assumed of
`WithTransaction`, whose context has no end, and `CallsEnd` excepts the case in which one of
these waits for a second connection. Nothing is assumed of who gets a connection that
becomes free: with one call per goroutine nobody is overtaken for ever.

## 4. Findings

Checked by runs that expect a violation:

1. A synthesized `OPTIONS` handler skips the global middleware (`router.go:215`), so
   `CORS` never answers a preflight (`router_preflight`).
2. `Build` gives the `{path...}` of a `Static` its 405s like any path: it skips what ends in a
   slash (`router.go:200`). The comment at `static.go:24-25` says it skips these, "so nothing here
   shadows other routes". With `POST /{rest...}` beside it, a POST under `/assets` gets a 405
   (`router_static`). A route like `POST /{x}/b`, which crosses the pattern, makes `Build` panic; this
   is what `BuildPanicsOnAmbiguity` says.
3. `Down` takes the highest applied version (`migrator.go:149`), not "the single
   most-recently-applied migration" of `migrator.go:135`. After a late merge these differ
   (`migrator_merge`).
4. `int64Field` follows a pointer by calling itself with the element and the same field index
   (`relations.go:281`), which panics; the comment above it promises nullable
   wrappers (`orm_pointer`).

Met while modelling; no run is spent on them. Unless it says otherwise, the models behave so:

5. `QueryRowContext` has no fallback for a statement closed between `get` and its use
   (`stmtcache.go:180`), although the cache is said to fall back on every failure.
6. The logger's `statusOf` does not know the error mappers (`logger.go:26`): a 404
   of `orm.ErrRecordNotFound` is logged as 500 at level ERROR. An error after
   a response was written is logged as 500 too.
7. The throttle of `touch` looks at the `LastUsedAt` the request read (`guard.go:249`): the
   requests that read the row before the first touch is written each start one.
8. `Channel` panics for the loser of a race when files are not logged to (`logs.go:159`);
   `PanicNeedsNoFile` says that nothing else makes it panic. And it may install a logger that it built
   from the configuration before an `Init` (`logs.go:144`), which then serves all who ask.
9. A record logged after `Close` opens a file that nothing closes (`writer.go:48`). A statement cached
   after `CloseStmtCache` stays until its connection goes (`server.go:93`).
10. `FileCache` is a map without a lock (`file_loader.go:49`).
11. `Put` ignores the error of `os.Remove` (`storage.go:98`), while the file is still open: where the
    removal fails, the half-written file stays ("Do not leave a half-written file behind").
12. A version of seven digits sorts before those of six that begin with more (`make.go:396-397`,
    `migrator.go:56-58`), and the generator does not see it (`make.go:366`): after `999999` it
    proposes `1000000` again and again.
13. `(page-1)*perPage` wraps for huge pages (`query.go:328`): such a page may show the rows of
    another, or fail. `FarPageIsEmpty` is about offsets that fit an int.
14. A `Burst` above ten minutes of budget is refilled by the janitor before it was earned
    (`ratelimit.go:108`).
15. After `auth.Configure`, computations of the old parameters hold slots of the old semaphore, so that
    up to twice `MaxConcurrent` run at once (`password.go:82`).
16. A generated seeder run twice inserts its rows twice (`make.go:547-557`), and mail has no
    deadline after the connection is made (`mail.go`); neither is modelled.

## 5. Proofs

For every value of the constants, under the named assumptions of each module.

*StmtCache* (`TypeCorrectness`, `CacheBounded`, `StatementsOwned`,
`CachedStatementsOpen`, `NoEviction`, `Refinement`). Ownership is not inductive by
itself: `Admit` stores the local statement, so the proof must know that a goroutine at
`admit` owns exactly that one and that nobody else is about to run it. `CallerInv` says
so place by place; `IInv` joins it with the types, the bound, and `swept = {}` outside
the sweep. `BoundKept` needs the map to be finite. The refinement maps `pending` to
"not idle"; each step is `Begin`, `Finish` or a stutter, and `sent = 0` before a return,
from `CallerInv`, is what makes "at most once" true.

*RateLimit* (`TypeCorrectness`, `Budget`, `RetryAfter`, `Eviction`). The budget needs
three strengthenings: a reading is at most `MaxDelay` old (`CallInv`); a bucket's
tokens, counted up to the last decision, are never negative and, with what was
spent, stay within what the window and its evictions gave up to `lastSeen` (`BucketInv`); and
a bucket the janitor may remove is ten minutes old, less the delays (`JanitorInv`, which also gives
`IdleEvicted`). In the step of the janitor, what such a bucket lacks is at most the `Windfall`:
it was not in debt when it was last used. Every rate and burst is covered.

*Migrator* (`TypeCorrectness`, `LedgerTruth`, `NoHoles`, `UpIsComplete`, `DownTakesTop`).
`LedgerMatchesSchema` needs that the
transaction working on a migration holds its lock from `Up` to the commit
(`HoldsTarget`), and that what the `INSERT` found is still so at the commit
(`RowIsNew`), which follows from the lock. The other three speak of histories in which no
rollback ran beside an Up. `UpIsComplete` and `DownTakesTop` hold whatever the releases are, by
`ListInv`: what a working Up no longer lists of its release is applied, and nothing of a working
Down's release above its target is. `NoHoles` holds under `SameRelease` (every
invocation registers the same migrations), as a release without a migration leaves that hole; its
invariant adds `ClosedInv`, that the ledger is closed downwards. Each Up takes the least version of its
list (`LeastVersion`), so a commit adds a version all of whose predecessors are there.

*Sessions* (`TypeCorrectness`, `DeadTokensStayOut`, `RefusalsAreFounded`, `IdleMeansUnused`). The
first two properties compare what a request was told with what is true now. The proof rests on a row
moving one way only (`OneWay`: never unissued, its expiry fixed, revocation and deletion
final, time going forward), which every step satisfies, so that `CallInv`, what a request
knows of its token at each place, survives the steps of others (`CallKept`) and has to be
shown only for the request that moves. `IdleIsIdle` rests on `UseInv`: in the table
what is recorded of a token's use and what is settled are less than a `TouchInterval` apart or at
most `MaxLife + MaxDelay`; a touch in flight is at most `MaxLife` old; and while a request has a
row, only touches that are not too old may have replaced what it read (`NotBefore`). A touch that
overtakes a newer one keeps this because of its own deadline.

*Accounts* (`TypeCorrectness`, `AllIsGivenBack`, `TransactionsAtomic`, `PasswordsKept`). `SlotsOK`
(a semaphore counts those in its slots) is needed for the types already: a count stays above
zero while somebody holds a slot of it. For `PasswordKept` every row in sight, those in the
table and those that a login has read, must be a `GoodRow`: with the hash of the password of
the user it names, who does not change his mind. `Update` matches by id, hence a late rehash
finds its own user or nobody. `CallOK` relates a call's place to its kind and its slot. It is
assumed that `Goroutines` is finite, for the cardinalities.

*LogChannels* (`TypeCorrectness`, `CloseReachesAll`, `ChannelsAreOne`, `PanicsExplained`). Every
logger that anybody can write to is `Owned`: if it has a writer, `Close` knows it or is over. This
is said of `base`, `default`, the channels, the Init in progress and all calls (`SharedOK`,
`CallOK`). A goroutine that got a channel's logger in the current era has the one in the map. A
configuration is the first one, which logs to files, or the application's (`Sane`), hence when
`Channel` panics.

*Orm* (`OrmTyped`, `RowsAreKept`, `WalksLoseLittle`, `FarPagesAreEmpty`, `RelationsAreExact`).
`RowsInv` types the rows and the records held by writers, and says that rows have ids that were
given out; ids are given once, and `Store` keeps what is in the table. A page is the rows whose
rank, the number of rows before them, lies in an interval (`PageIs`, from `RanksAll`: the ranks of n
rows are 0..n-1). So a walk has passed the rows above a line (`Passed`), and a row made or deleted
moves at most one other over it (`TopMoves`). `LineInv`: the unseen rows above the line are at most
the deletions, the repeats and the seen rows below it at most the creations. `RestInv` and
`CountInv`: what is below the line is what `Count` found and no page has passed, or came late, so
when the last page is read nothing else is left (`EndInv`). An offset of a walk must not wrap, which
`MaxId < IntLimit` gives: ids and ints both have 64 bits. For the loaders, `AssignIs`, `BelongsToIs`
and `HasManyIs` say what index and assignment attach to each row, for any list.

*Files* (`TypeCorrectness`, `UploadsWhole`, `CacheIsFresh`, `VersionsOrdered`). `LinksOK`: an inode is
linked only where whoever made it put it, so an upload's name leads to its own
inode, also where a failed one left its part. `StoresOK` says which blocks that inode has at each step
of the upload, `OthersOK` that who reads an upload has opened a whole one. `EntryOK`: the
time of an entry is at most when its content was read, and if it is still the file's, the
content is, or both were the same tick; it survives every write since the clock does not go back.
`MakesOK`: a version being written is larger than those of all who were done when its command began,
and they stay done. That a finite set of versions has a largest one is `HasLargest`,
from the well-foundedness of finite subsets.

*Pipeline* (`RequestsTyped`, `RespondsOnce`, `ContextsAreOwn`, `OutcomeIsSeen`, `PoolClosesLast`).
The history of a request and the Context it borrows are two pieces of state that different steps
change: `HeadInv` says that what is on the connection is what the Context remembers, which is why a
second response is never written; `OwnInv` that the Context in use is nobody else's and shows only
its own request; `PoolInv` that a pooled one has no values (its id may still be an old one, which
`acquire` resets). `HandedInv` follows the result of a handler through the layers on the way out:
which errors may leave `Timeout` (`Returned`), then `Recover` (`Recovered`), what the logger made of
that, and what was then rendered. `StepKept` and `OthersKept` say once that a step of one request
keeps all this for the others, so that each action is looked at for its own request only. The drain
waits for all in flight, which is `PoolOutlivesRequests`, part of the invariant, since the actions
of a request are guarded by the server's state. Nothing is assumed of how many requests and Contexts
there are.

*Router* (`RoutesTyped`, `MiddlewareApplies`, `OnlyAmbiguityPanics`, `RequestsAnswered`,
`AllowTellsTruth`). The properties speak of what `Build` left; `RouterInv` says where that came from:
each entry of the mux is that of a route or one `Build` added (`FromRoutes`), each route has one
(`OnePerRoute`, `AllStand`), after `Build` all that is synthesized is there and nothing
conflicts (`Complete`), and if `Build` panicked, two entries do (`Overlap`). A group that owns a route
takes no more middleware (`Owned`), which makes `NothingSkipsMiddleware` inductive. From this, dispatch:
entries of one method that match one request are ordered by their reach, because no two
conflict; the mux is finite (`HasLeast`, by induction over its finite subsets), so one is least
(`DispatchIsLeast`); it is the entry of the best registered path (`ServesBest`), and the catch-all
is never before it (`CatchAllLast`). `RouterAssumption` asks that segments are not empty, that
`MaxSegments` is large enough for every valid pattern to match something (a pattern that
no request matches conflicts with nothing), and that there is a segment that no route names.

The types of `Pipeline`, `Router` and `Orm`, like those of the other modules, are proved; where a
theorem has them, the runs need not check them again.

Only model-checked: everything temporal under fairness (`CallsReturn`, `RunsEnd`,
`RequestsEnd`, `ShutdownEnds`, `CallsEnd`), which is out of the prover's reach.

## 6. Not modelled

Text (SQL, paths inside a segment, MIME, file names, templates), reflection over structs,
cryptography, `http.FileServer`, flags: pure functions or I/O without protocol. The schema builder
makes DDL text and memoizes reflection; configuration reads the environment once; the route registry
is an append-only list of `init` functions; seeders run in one goroutine; mail is one sequential
dialogue per message. Of the modelled parts: `LoadHasOne` and `LoadBelongsToMany`, which share the
index of the loaders (the latter joins without `HardRowCap`); `Bind`, `Redirect`, `ClientIP` and
abilities, which read one request; `logs.Path`, levels and formats; the refusal of oversized
passwords; rounding of `float64` in the limiter; the generators other than `make migration`, which
write a file of a fixed name.
