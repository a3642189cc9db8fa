------------------------------- MODULE Migrator -------------------------------
(***************************************************************************)
(* The migrator (pkg/orm/migrator.go) as `db migrate [--rollback]` runs it *)
(* (pkg/commands/db.go): several invocations, perhaps of different         *)
(* releases, against one database, each of which may be killed.            *)
(*                                                                         *)
(* The database is modelled by what the code relies on: a transaction is   *)
(* atomic, and those that touch the same migration wait for each other,    *)
(* since its Up and Down work on the same objects.                         *)
(***************************************************************************)
EXTENDS Naturals, Sequences, SequencesExt, FiniteSetsExt

CONSTANTS
    Runs,           \* invocations of the command
    Versions,       \* migration versions, ordered
    Registered,     \* [Runs -> SUBSET Versions]: those compiled into each
    NoRun           \* nobody

ASSUME MigratorAssumption ==
    /\ Versions \subseteq Nat
    /\ Registered \in [Runs -> SUBSET Versions]
    /\ NoRun \notin Runs

VARIABLES
    table,      \* does schema_migrations exist?
    ledger,     \* its rows, in the order they were committed
    schema,     \* migrations whose effect the database holds
    lock,       \* [Versions -> Runs or NoRun]: the transaction working on it
    pc,         \* where each invocation is
    command,    \* "up" or "down"
    todo,       \* the pending list, or the one migration to roll back
    outcome,    \* what it reported
    overlapped  \* history: has a rollback run beside an Up?

vars == <<table, ledger, schema, lock, pc, command, todo, outcome, overlapped>>
database == <<table, ledger, schema>>

Locations == {"start", "ensure", "read", "begin", "record", "commit", "done"}

TypeOK ==
    /\ table \in BOOLEAN
    /\ ledger \in Seq(Versions)
    /\ schema \subseteq Versions
    /\ lock \in [Versions -> Runs \cup {NoRun}]
    /\ pc \in [Runs -> Locations]
    /\ command \in [Runs -> {"up", "down"}]
    /\ todo \in [Runs -> SUBSET Versions]
    /\ outcome \in [Runs -> {"none", "ok", "failed"}]
    /\ overlapped \in BOOLEAN
    /\ \A p \in Runs : pc[p] \in {"begin", "record", "commit"} => todo[p] # {}

-----------------------------------------------------------------------------
\* appliedVersions
Applied == ToSet(ledger)

\* sortedMigrations puts the pending ones in ascending order, and Down
\* searches from the other end, where todo holds one element.
Target(p) == Min(todo[p])

Active(p) == pc[p] \notin {"start", "done"}

Init ==
    /\ table = FALSE
    /\ ledger = <<>>
    /\ schema = {}
    /\ lock = [v \in Versions |-> NoRun]
    /\ pc = [p \in Runs |-> "start"]
    /\ command \in [Runs -> {"up", "down"}]
    /\ todo = [p \in Runs |-> {}]
    /\ outcome = [p \in Runs |-> "none"]
    /\ overlapped = FALSE

Goto(p, here, there) ==
    /\ pc[p] = here
    /\ pc' = [pc EXCEPT ![p] = there]

Report(p, here, result) ==
    /\ Goto(p, here, "done")
    /\ outcome' = [outcome EXCEPT ![p] = result]
    /\ UNCHANGED <<command, todo, overlapped>>

\* The transaction of p ends: what it had locked is free.
Unlock(p) == lock' = [v \in Versions |-> IF lock[v] = p THEN NoRun ELSE lock[v]]

\* The command starts.
Start(p) ==
    /\ Goto(p, "start", "ensure")
    /\ overlapped' = (overlapped \/ \E q \in Runs :
                                      Active(q) /\ command[q] # command[p])
    /\ UNCHANGED <<database, lock, command, todo, outcome>>

\* EnsureSchemaTable
Ensure(p) ==
    \/ /\ Goto(p, "ensure", "read")
       /\ table' = TRUE
       /\ UNCHANGED <<ledger, schema, lock, command, todo, outcome, overlapped>>
    \/ Report(p, "ensure", "failed") /\ UNCHANGED <<database, lock>>

\* Up: Pending reads the ledger, and the list is worked off as read.
ReadPending(p) ==
    /\ command[p] = "up"
    /\ LET pending == Registered[p] \ Applied IN
       \/ /\ pending = {}
          /\ Report(p, "read", "ok")
       \/ /\ pending # {}
          /\ Goto(p, "read", "begin")
          /\ todo' = [todo EXCEPT ![p] = pending]
          /\ UNCHANGED <<command, outcome, overlapped>>
    /\ UNCHANGED <<database, lock>>

\* Down: the highest registered version in the ledger.
ReadTargetAscending(p) ==
    /\ command[p] = "down"
    /\ LET applied == Registered[p] \cap Applied IN
       \/ /\ applied = {}
          /\ Report(p, "read", "ok")
       \/ /\ applied # {}
          /\ Goto(p, "read", "begin")
          /\ \E v \in applied :
               /\ \A u \in applied : u >= v
               /\ todo' = [todo EXCEPT ![p] = {v}]
          /\ UNCHANGED <<command, outcome, overlapped>>
    /\ UNCHANGED <<database, lock>>
ReadTarget(p) ==
    /\ command[p] = "down"
    /\ LET applied == Registered[p] \cap Applied IN
       \/ /\ applied = {}
          /\ Report(p, "read", "ok")
       \/ /\ applied # {}
          /\ Goto(p, "read", "begin")
          /\ \E v \in applied :
               /\ \A u \in applied : u <= v
               /\ todo' = [todo EXCEPT ![p] = {v}]
          /\ UNCHANGED <<command, outcome, overlapped>>
    /\ UNCHANGED <<database, lock>>

ReadFails(p) == Report(p, "read", "failed") /\ UNCHANGED <<database, lock>>

\* db.Begin, then the migration's own Up or Down in the transaction.
Migrate(p) ==
    /\ Goto(p, "begin", "record")
    /\ lock[Target(p)] = NoRun
    /\ lock' = [lock EXCEPT ![Target(p)] = p]
    /\ UNCHANGED <<database, command, todo, outcome, overlapped>>

\* Begin, Up or Down fails; the transaction is rolled back.
MigrateFails(p) ==
    /\ Report(p, "begin", "failed")
    /\ lock[Target(p)] = NoRun
    /\ UNCHANGED <<database, lock>>

\* INSERT or DELETE in schema_migrations.  The primary key refuses a second
\* row; deleting no row is not an error.
Record(p) ==
    /\ Goto(p, "record", "commit")
    /\ command[p] = "up" => Target(p) \notin Applied
    /\ UNCHANGED <<database, lock, command, todo, outcome, overlapped>>

RecordFailsOpen(p) ==
    /\ Report(p, "record", "failed")
    /\ UNCHANGED <<database, lock>>
RecordFails(p) ==
    /\ Report(p, "record", "failed")
    /\ Unlock(p)
    /\ UNCHANGED database

\* The row of v, if there is one, goes.
Delete(v) ==
    \/ v \notin Applied /\ UNCHANGED ledger
    \/ \E i \in DOMAIN ledger : ledger[i] = v /\ ledger' = RemoveAt(ledger, i)

\* The database commits the transaction of p.
CommitsUnlogged(p) ==
    /\ \/ /\ command[p] = "up"
          /\ schema' = schema \cup {Target(p)}
          /\ ledger' = Append(ledger, Target(p))
       \/ /\ command[p] = "down"
          /\ schema' = schema \ {Target(p)}
          /\ UNCHANGED ledger
    /\ Unlock(p)
    /\ UNCHANGED table
Commits(p) ==
    /\ \/ /\ command[p] = "up"
          /\ schema' = schema \cup {Target(p)}
          /\ ledger' = Append(ledger, Target(p))
       \/ /\ command[p] = "down"
          /\ schema' = schema \ {Target(p)}
          /\ Delete(Target(p))
    /\ Unlock(p)
    /\ UNCHANGED table

\* tx.Commit returns nil: on to the next pending migration, or done.
CommitDropsRest(p) ==
    /\ Goto(p, "commit", "done")
    /\ Commits(p)
    /\ todo' = [todo EXCEPT ![p] = {}]
    /\ outcome' = [outcome EXCEPT ![p] = "ok"]
    /\ UNCHANGED <<command, overlapped>>
Commit(p) ==
    /\ pc[p] = "commit"
    /\ Commits(p)
    /\ LET rest == todo[p] \ {Target(p)} IN
       /\ todo' = [todo EXCEPT ![p] = rest]
       /\ \/ /\ rest # {}
             /\ Goto(p, "commit", "begin")
             /\ UNCHANGED outcome
          \/ /\ rest = {}
             /\ Goto(p, "commit", "done")
             /\ outcome' = [outcome EXCEPT ![p] = "ok"]
    /\ UNCHANGED <<command, overlapped>>

\* tx.Commit returns an error: whether it committed is not known.
CommitFailsCarriesOn(p) ==
    /\ pc[p] = "commit"
    /\ \/ Commits(p)
       \/ Unlock(p) /\ UNCHANGED database
    /\ LET rest == todo[p] \ {Target(p)} IN
       \/ rest = {} /\ Report(p, "commit", "failed")
       \/ /\ rest # {} /\ Goto(p, "commit", "begin")
          /\ todo' = [todo EXCEPT ![p] = rest]
          /\ UNCHANGED <<command, outcome, overlapped>>
CommitFails(p) ==
    /\ Report(p, "commit", "failed")
    /\ \/ Commits(p)
       \/ Unlock(p) /\ UNCHANGED database

\* The process is killed; the database rolls its transaction back.
Killed(p) ==
    /\ Active(p)
    /\ pc' = [pc EXCEPT ![p] = "done"]
    /\ Unlock(p)
    /\ UNCHANGED <<database, command, todo, outcome, overlapped>>

Step(p) ==
    \/ Ensure(p)
    \/ ReadPending(p)
    \/ ReadTarget(p)
    \/ ReadFails(p)
    \/ Migrate(p)
    \/ MigrateFails(p)
    \/ Record(p)
    \/ RecordFails(p)
    \/ Commit(p)
    \/ CommitFails(p)

Next == \E p \in Runs : Start(p) \/ Step(p) \/ Killed(p)

Spec == Init /\ [][Next]_vars

\* A running command goes on: it waits for nothing but the database, which
\* ends every transaction of a live or a dead client.
FairSpec == Spec /\ \A p \in Runs : WF_vars(Step(p))

-----------------------------------------------------------------------------
(* Properties. *)

\* The ledger says what the database holds, no migration twice: the effect
\* of a migration and its row are committed together or not at all, with any
\* number of commands running, failing and being killed (migrator.go:113-179).
LedgerMatchesSchema ==
    /\ Applied = schema
    /\ IsInjective(ledger)

\* The strengthening LedgerMatchesSchema needs: one transaction at a time
\* works on a migration, so what the INSERT found still holds at the commit.
HoldsTarget(p) == pc[p] \in {"record", "commit"} => lock[Target(p)] = p
RowIsNew(p) ==
    pc[p] = "commit" /\ command[p] = "up" => Target(p) \notin Applied
IInv ==
    /\ TypeOK
    /\ LedgerMatchesSchema
    /\ \A p \in Runs : HoldsTarget(p) /\ RowIsNew(p)

\* No migration is applied over a hole: versions are applied in ascending
\* order, whichever of several concurrent Ups applies each, and a failure
\* stops the run (migrator.go:93-108).  Rollbacks are taken to run beside no
\* Up: Pending is read once and not again.
NoGaps ==
    ~overlapped =>
        \A v \in Applied : \A u \in Versions : u < v => u \in Applied

\* An Up that reports success leaves nothing registered unapplied, even when
\* other Ups ran beside it.
UpComplete ==
    [][\A p \in Runs :
          /\ pc[p] # "done" /\ outcome'[p] = "ok" /\ command[p] = "up"
          /\ ~overlapped
          => Registered[p] \subseteq ToSet(ledger')]_vars

\* Every command ends: runs that wait for each other's transactions never
\* wait in a circle.
RunsEnd == \A p \in Runs : Active(p) ~> pc[p] = "done"

\* A rollback leaves no hole in its own release: of the migrations that are
\* compiled into it and applied, the highest goes, also when other rollbacks work
\* beside it (migrator.go:148-154), whatever releases these are of.
DownTakesHighest ==
    [][\A p \in Runs :
          /\ ~overlapped
          /\ command[p] = "down" /\ pc[p] = "commit" /\ pc'[p] = "done"
          => \A v \in ToSet(ledger) \ ToSet(ledger'), u \in Registered[p] \cap ToSet(ledger) :
                u <= v]_vars

\* "Down rolls back the single most-recently-applied migration"
\* (migrator.go:135): a rollback that runs beside no Up, of a release that knows
\* all that is applied, removes the last row.  It does not when releases differ: a
\* migration that came with a merge is applied after higher ones.
DownIsMostRecent ==
    [][\A p \in Runs :
          /\ ~overlapped
          /\ command[p] = "down" /\ pc[p] = "commit" /\ ledger' # ledger
          /\ pc'[p] = "done" /\ outcome'[p] = "ok"
          /\ ToSet(ledger) \subseteq Registered[p]
          => ledger' = Front(ledger)]_vars
==============================================================================
