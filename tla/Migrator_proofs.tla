--------------------------- MODULE Migrator_proofs ---------------------------
(***************************************************************************)
(* The ledger of the migrator tells the truth, for any number of runs, any *)
(* migrations and any mix of releases.                                     *)
(* When no rollback ran beside an Up, a successful Up is complete and a    *)
(* Down takes the highest version its release knows, for any mix of        *)
(* releases too; when all invocations are of one release, the ledger has   *)
(* no holes.                                                               *)
(***************************************************************************)
EXTENDS Migrator, TLAPS, WellFoundedInduction

USE MigratorAssumption

\* A set of versions that is not empty has a least one: what sortedMigrations
\* puts first.
LEMMA LeastVersion ==
    ASSUME NEW S \in SUBSET Versions, S # {}
    PROVE  Min(S) \in S /\ \A y \in S : Min(S) <= y
<1>1. \E x \in S : \A y \in S : ~ (<<y, x>> \in OpToRel(<, Nat))
  BY NatLessThanWellFounded, WFMin
<1>2. PICK x \in S : \A y \in S : ~ (<<y, x>> \in OpToRel(<, Nat))
  BY <1>1
<1>3. ASSUME NEW y \in S
      PROVE  x =< y
  <2>1. x \in Nat /\ y \in Nat
    OBVIOUS
  <2>2. ~ (y < x)
    BY <1>2, <2>1 DEF OpToRel
  <2> QED  BY <2>1, <2>2
<1> QED  BY <1>3 DEF Min

\* What a run is working on is one of its migrations.
LEMMA TargetType ==
    ASSUME TypeOK, NEW p \in Runs, pc[p] \in {"begin", "record", "commit"}
    PROVE  /\ Target(p) \in todo[p] /\ Target(p) \in Versions
           /\ \A v \in todo[p] : Target(p) <= v
BY LeastVersion DEF TypeOK, Target

\* Where an element of a concatenation comes from.
LEMMA SecondPart ==
    ASSUME NEW S, NEW s \in Seq(S), NEW t \in Seq(S),
           NEW j \in 1..(Len(s) + Len(t)), ~ (j <= Len(s))
    PROVE  (s \o t)[j] = t[j - Len(s)]
OBVIOUS

\* A row added at the end.
LEMMA AppendRow ==
    ASSUME NEW v \in Versions, ledger \in Seq(Versions), IsInjective(ledger),
           v \notin Applied, ledger' = Append(ledger, v)
    PROVE  /\ ledger' \in Seq(Versions)
           /\ IsInjective(ledger')
           /\ Applied' = Applied \cup {v}
<1>1. ledger' \in Seq(Versions) /\ Len(ledger') = Len(ledger) + 1
  OBVIOUS
<1>2. /\ \A i \in 1..Len(ledger) : ledger'[i] = ledger[i]
      /\ ledger'[Len(ledger) + 1] = v
  OBVIOUS
<1>3. DOMAIN ledger' = 1..(Len(ledger) + 1) /\ DOMAIN ledger = 1..Len(ledger)
  BY <1>1
<1>4. Applied' = Applied \cup {v}
  BY <1>1, <1>2, <1>3, Zenon, SMT DEF Applied, ToSet
<1>5. IsInjective(ledger')
  BY <1>1, <1>2, <1>3 DEF IsInjective, Applied, ToSet
<1> QED  BY <1>1, <1>4, <1>5

\* A row taken out.
LEMMA DeleteRow ==
    ASSUME NEW v \in Versions, ledger \in Seq(Versions), IsInjective(ledger),
           Delete(v)
    PROVE  /\ ledger' \in Seq(Versions)
           /\ IsInjective(ledger')
           /\ Applied' = Applied \ {v}
<1>1. CASE v \notin Applied /\ UNCHANGED ledger
  BY <1>1 DEF Applied
<1>2. CASE \E i \in DOMAIN ledger : ledger[i] = v /\ ledger' = RemoveAt(ledger, i)
  <2>1. PICK i \in DOMAIN ledger : ledger[i] = v /\ ledger' = RemoveAt(ledger, i)
    BY <1>2
  <2> DEFINE n == Len(ledger)
  <2>2. n \in Nat /\ DOMAIN ledger = 1..n /\ i \in 1..n
    BY <2>1
  <2>3. /\ SubSeq(ledger, 1, i - 1) \in Seq(Versions)
        /\ Len(SubSeq(ledger, 1, i - 1)) = i - 1
        /\ \A j \in 1..(i - 1) : SubSeq(ledger, 1, i - 1)[j] = ledger[j]
    BY <2>2
  <2>4. /\ SubSeq(ledger, i + 1, n) \in Seq(Versions)
        /\ Len(SubSeq(ledger, i + 1, n)) = n - i
        /\ \A j \in 1..(n - i) : SubSeq(ledger, i + 1, n)[j] = ledger[i + j]
    BY <2>2
  <2>5. ledger' = SubSeq(ledger, 1, i - 1) \o SubSeq(ledger, i + 1, n)
    BY <2>1 DEF RemoveAt
  <2>6. /\ ledger' \in Seq(Versions)
        /\ Len(ledger') = n - 1
        /\ DOMAIN ledger' = 1..(n - 1)
    BY <2>2, <2>3, <2>4, <2>5
  <2>7. ASSUME NEW j \in 1..(n - 1)
        PROVE  ledger'[j] = IF j < i THEN ledger[j] ELSE ledger[j + 1]
    <3>1. CASE j < i
      BY <3>1, <2>2, <2>3, <2>4, <2>5
    <3>2. CASE j >= i
      <4>1. j - (i - 1) \in 1..(n - i)
        BY <3>2, <2>2
      <4>2. ledger'[j] = SubSeq(ledger, i + 1, n)[j - (i - 1)]
        <5> DEFINE s == SubSeq(ledger, 1, i - 1)
                   t == SubSeq(ledger, i + 1, n)
        <5>1. /\ s \in Seq(Versions) /\ t \in Seq(Versions)
              /\ Len(s) = i - 1 /\ Len(t) = n - i
              /\ ledger' = s \o t
          BY <2>3, <2>4, <2>5
        <5> HIDE DEF s, t
        <5>2. j \in 1..(Len(s) + Len(t)) /\ ~ (j <= Len(s))
          BY <5>1, <3>2, <2>2
        <5>3. ledger'[j] = t[j - Len(s)]
          BY <5>1, <5>2, SecondPart
        <5> QED  BY <5>1, <5>3 DEF t
      <4>3. i + (j - (i - 1)) = j + 1
        BY <2>2
      <4>4. SubSeq(ledger, i + 1, n)[j - (i - 1)] = ledger[i + (j - (i - 1))]
        <5> DEFINE k == j - (i - 1)
        <5> HIDE DEF k, n
        <5> QED  BY <4>1, <2>4 DEF k
      <4>5. ~(j < i)
        BY <3>2, <2>2
      <4> QED  BY <4>2, <4>3, <4>4, <4>5
    <3> QED  BY <3>1, <3>2, <2>2
  <2>8. IsInjective(ledger')
    <3> SUFFICES ASSUME NEW j \in 1..(n - 1), NEW k \in 1..(n - 1),
                        ledger'[j] = ledger'[k]
                 PROVE  j = k
      BY <2>6 DEF IsInjective
    <3> DEFINE was(m) == IF m < i THEN m ELSE m + 1
    <3>1. was(j) \in 1..n /\ was(k) \in 1..n
      BY <2>2
    <3>2. ledger[was(j)] = ledger[was(k)]
      BY <2>7, <2>2
    <3>3. was(j) = was(k)
      <4> HIDE DEF was
      <4> QED  BY <3>1, <3>2, <2>2 DEF IsInjective
    <3> QED  BY <3>3, <2>2
  <2>9. \A u : u \in Applied' <=> u \in Applied \ {v}
    <3>1. ASSUME NEW u, u \in Applied'
          PROVE  u \in Applied \ {v}
      <4>1. PICK j \in 1..(n - 1) : ledger'[j] = u
        BY <2>6, <3>1 DEF Applied, ToSet
      <4>2. PICK k \in 1..n : k # i /\ ledger[k] = u
        <5>1. CASE j < i
          BY <5>1, <4>1, <2>2, <2>7
        <5>2. CASE j >= i
          BY <5>2, <4>1, <2>2, <2>7
        <5> QED  BY <5>1, <5>2, <2>2
      <4> QED  BY <4>2, <2>1, <2>2 DEF IsInjective, Applied, ToSet
    <3>2. ASSUME NEW u, u \in Applied \ {v}
          PROVE  u \in Applied'
      <4>1. PICK k \in 1..n : ledger[k] = u /\ k # i
        BY <2>1, <2>2, <3>2 DEF Applied, ToSet
      <4>2. CASE k < i
        BY <4>1, <4>2, <2>2, <2>6, <2>7 DEF Applied, ToSet
      <4>3. CASE k > i
        <5>1. k - 1 \in 1..(n - 1) /\ ledger'[k - 1] = u
          BY <4>1, <4>3, <2>2, <2>7
        <5> QED  BY <5>1, <2>6 DEF Applied, ToSet
      <4> QED  BY <4>1, <4>2, <4>3, <2>2
    <3> QED  BY <3>1, <3>2
  <2> QED  BY <2>6, <2>8, <2>9, Zenon
<1> QED  BY <1>1, <1>2 DEF Delete

-----------------------------------------------------------------------------
LEMMA InitIInv == Init => IInv
<1> SUFFICES ASSUME Init
             PROVE  IInv
  OBVIOUS
<1>1. TypeOK
  <2>1. ledger \in Seq(Versions) /\ schema \subseteq Versions
    BY DEF Init
  <2>2. /\ pc \in [Runs -> Locations]
        /\ \A p \in Runs : pc[p] = "start"
    BY DEF Init, Locations
  <2>3. /\ lock \in [Versions -> Runs \cup {NoRun}]
        /\ todo \in [Runs -> SUBSET Versions]
        /\ outcome \in [Runs -> {"none", "ok", "failed"}]
    BY DEF Init
  <2> QED  BY <2>1, <2>2, <2>3 DEF Init, TypeOK
<1>2. Applied = {}
  BY DEF Init, Applied, ToSet
<1>3. LedgerMatchesSchema
  BY <1>2 DEF Init, LedgerMatchesSchema, IsInjective
<1>4. ASSUME NEW p \in Runs
      PROVE  HoldsTarget(p) /\ RowIsNew(p)
  BY DEF Init, HoldsTarget, RowIsNew
<1> QED  BY <1>1, <1>3, <1>4 DEF IInv

\* What a step that leaves the database alone must see to.
LEMMA QuietStep ==
    ASSUME IInv, TypeOK', UNCHANGED <<ledger, schema, command>>, NEW p \in Runs,
           \A q \in Runs \ {p} :
              /\ pc'[q] = pc[q] /\ todo'[q] = todo[q]
              /\ \A v \in Versions : lock[v] = q => lock'[v] = q,
           HoldsTarget(p)', RowIsNew(p)'
    PROVE  IInv'
<1>1. LedgerMatchesSchema'
  BY DEF IInv, LedgerMatchesSchema, Applied
<1>2. ASSUME NEW q \in Runs, q # p
      PROVE  (HoldsTarget(q) /\ RowIsNew(q))'
  <2>1. Target(q)' = Target(q)
    BY <1>2 DEF Target
  <2>2. pc[q] \in {"record", "commit"} => Target(q) \in Versions
    BY TargetType DEF IInv
  <2>3. HoldsTarget(q) /\ RowIsNew(q)
    BY DEF IInv
  <2> QED  BY <1>2, <2>1, <2>2, <2>3 DEF HoldsTarget, RowIsNew, Applied
<1> QED  BY <1>1, <1>2 DEF IInv

\* A run that ends or goes on outside a transaction, with its locks as they
\* were or given up.
LEMMA StepOutside ==
    ASSUME IInv, TypeOK', NEW p \in Runs,
           UNCHANGED <<ledger, schema, command>>,
           \A q \in Runs \ {p} : pc'[q] = pc[q] /\ todo'[q] = todo[q],
           pc'[p] \notin {"record", "commit"},
           Unlock(p) \/ UNCHANGED lock
    PROVE  IInv'
<1>1. HoldsTarget(p)' /\ RowIsNew(p)'
  BY DEF HoldsTarget, RowIsNew
<1>2. ASSUME NEW q \in Runs \ {p}, NEW v \in Versions, lock[v] = q
      PROVE  lock'[v] = q
  BY <1>2 DEF Unlock
<1> QED  BY <1>1, <1>2, QuietStep

\* The transaction of p takes effect.
LEMMA CommitsStep ==
    ASSUME IInv, TypeOK', NEW p \in Runs, pc[p] = "commit", Commits(p),
           UNCHANGED command, pc'[p] \notin {"record", "commit"},
           \A q \in Runs \ {p} : pc'[q] = pc[q] /\ todo'[q] = todo[q]
    PROVE  IInv'
<1> DEFINE v == Target(p)
<1>1. v \in Versions /\ lock[v] = p
  BY TargetType DEF IInv, HoldsTarget
<1>2. /\ ledger \in Seq(Versions) /\ IsInjective(ledger) /\ Applied = schema
      /\ RowIsNew(p)
  BY DEF IInv, TypeOK, LedgerMatchesSchema
<1>3. /\ Applied' = schema' /\ IsInjective(ledger')
      /\ \A u \in Versions : u # v => (u \in Applied' <=> u \in Applied)
  <2> HIDE DEF v
  <2>1. CASE command[p] = "up"
    <3>1. v \notin Applied /\ ledger' = Append(ledger, v) /\ schema' = schema \cup {v}
      BY <1>2, <2>1 DEF RowIsNew, Commits, v
    <3> QED  BY <1>1, <1>2, <3>1, AppendRow
  <2>2. CASE command[p] = "down"
    <3>1. Delete(v) /\ schema' = schema \ {v}
      BY <2>2 DEF Commits, v
    <3> QED  BY <1>1, <1>2, <3>1, DeleteRow
  <2> QED  BY <2>1, <2>2 DEF Commits
<1>4. ASSUME NEW q \in Runs, q # p
      PROVE  (HoldsTarget(q) /\ RowIsNew(q))'
  <2>1. Target(q)' = Target(q) /\ pc'[q] = pc[q]
    BY <1>4 DEF Target
  <2>2. HoldsTarget(q) /\ RowIsNew(q)
    BY DEF IInv
  <2>3. CASE pc[q] \in {"record", "commit"}
    <3>1. Target(q) \in Versions /\ lock[Target(q)] = q
      BY <2>2, <2>3, TargetType DEF IInv, HoldsTarget
    <3>2. Target(q) # v
      BY <1>1, <3>1, <1>4
    <3>3. lock'[Target(q)] = q
      BY <3>1, <1>4 DEF Commits, Unlock
    <3> QED  BY <1>3, <2>1, <2>2, <3>1, <3>2, <3>3 DEF HoldsTarget, RowIsNew
  <2>4. CASE pc[q] \notin {"record", "commit"}
    BY <2>1, <2>4 DEF HoldsTarget, RowIsNew
  <2> QED  BY <2>3, <2>4
<1>5. (HoldsTarget(p) /\ RowIsNew(p))'
  BY DEF HoldsTarget, RowIsNew
<1> QED  BY <1>3, <1>4, <1>5 DEF IInv, LedgerMatchesSchema

-----------------------------------------------------------------------------
LEMMA CommitsType ==
    ASSUME IInv, NEW p \in Runs, pc[p] = "commit", Commits(p)
    PROVE  /\ table' \in BOOLEAN
           /\ ledger' \in Seq(Versions)
           /\ schema' \subseteq Versions
           /\ lock' \in [Versions -> Runs \cup {NoRun}]
<1> DEFINE v == Target(p)
<1>1. v \in Versions
  BY TargetType DEF IInv
<1>2. ledger \in Seq(Versions) /\ IsInjective(ledger)
  BY DEF IInv, TypeOK, LedgerMatchesSchema
<1>3. ledger' \in Seq(Versions)
  <2> HIDE DEF v
  <2>1. CASE ledger' = Append(ledger, v)
    BY <1>1, <1>2, <2>1
  <2>2. CASE Delete(v)
    BY <1>1, <1>2, <2>2, DeleteRow
  <2> QED  BY <2>1, <2>2 DEF Commits, v
<1>4. schema' \subseteq Versions
  BY <1>1 DEF Commits, IInv, TypeOK
<1> QED  BY <1>3, <1>4 DEF Commits, Unlock, IInv, TypeOK

LEMMA StepType ==
    ASSUME IInv, NEW p \in Runs, Start(p) \/ Step(p) \/ Killed(p)
    PROVE  TypeOK'
<1> USE DEF Goto, Report, Locations, database
<1>1. CASE Start(p) \/ Ensure(p) \/ ReadFails(p) \/ Killed(p)
  BY <1>1 DEF Start, Ensure, ReadFails, Killed, Unlock, IInv, TypeOK
<1>2. CASE ReadPending(p) \/ ReadTarget(p)
  <2>1. Registered[p] \subseteq Versions
    BY MigratorAssumption
  <2>2. /\ todo' \in [Runs -> SUBSET Versions]
        /\ pc' \in [Runs -> Locations]
        /\ outcome' \in [Runs -> {"none", "ok", "failed"}]
        /\ UNCHANGED <<table, ledger, schema, lock, command, overlapped>>
    BY <1>2, <2>1 DEF ReadPending, ReadTarget, IInv, TypeOK
  <2>3. ASSUME NEW q \in Runs, pc'[q] \in {"begin", "record", "commit"}
        PROVE  todo'[q] # {}
    <3>1. CASE q # p
      <4>1. pc'[q] = pc[q] /\ todo'[q] = todo[q]
        BY <1>2, <3>1 DEF ReadPending, ReadTarget, IInv, TypeOK
      <4> QED  BY <2>3, <4>1 DEF IInv, TypeOK
    <3>2. CASE q = p /\ ReadPending(p)
      BY <2>3, <3>2 DEF ReadPending, IInv, TypeOK
    <3>3. CASE q = p /\ ReadTarget(p)
      BY <2>3, <3>3 DEF ReadTarget, IInv, TypeOK
    <3> QED  BY <1>2, <3>1, <3>2, <3>3
  <2> QED  BY <2>2, <2>3 DEF IInv, TypeOK
<1>3. CASE Migrate(p)
  BY <1>3, TargetType DEF Migrate, IInv, TypeOK
<1>4. CASE MigrateFails(p) \/ Record(p) \/ RecordFails(p)
  BY <1>4 DEF MigrateFails, Record, RecordFails, Unlock, IInv, TypeOK
<1>5. CASE Commit(p)
  <2>1. pc[p] = "commit" /\ Commits(p)
    BY <1>5 DEF Commit
  <2>2. /\ table' \in BOOLEAN /\ ledger' \in Seq(Versions)
        /\ schema' \subseteq Versions
        /\ lock' \in [Versions -> Runs \cup {NoRun}]
    BY <2>1, CommitsType
  <2>3. /\ todo' \in [Runs -> SUBSET Versions]
        /\ pc' \in [Runs -> Locations]
        /\ outcome' \in [Runs -> {"none", "ok", "failed"}]
        /\ command' = command /\ overlapped' = overlapped
    BY <1>5 DEF Commit, IInv, TypeOK
  <2>4. ASSUME NEW q \in Runs, pc'[q] \in {"begin", "record", "commit"}
        PROVE  todo'[q] # {}
    BY <1>5, <2>4 DEF Commit, IInv, TypeOK
  <2> QED  BY <2>2, <2>3, <2>4 DEF IInv, TypeOK
<1>6. CASE CommitFails(p)
  <2>1. CASE Commits(p)
    BY <1>6, <2>1, CommitsType DEF CommitFails, IInv, TypeOK
  <2>2. CASE Unlock(p) /\ UNCHANGED database
    BY <1>6, <2>2 DEF CommitFails, Unlock, IInv, TypeOK
  <2> QED  BY <1>6, <2>1, <2>2 DEF CommitFails
<1> QED  BY <1>1, <1>2, <1>3, <1>4, <1>5, <1>6 DEF Step

\* The two steps of a transaction before it ends.
LEMMA MigrateStep ==
    ASSUME IInv, TypeOK', NEW p \in Runs, Migrate(p)
    PROVE  IInv'
<1>1. Target(p) \in Versions /\ Target(p)' = Target(p)
  BY TargetType DEF Migrate, Goto, IInv, Target
<1>2. (HoldsTarget(p) /\ RowIsNew(p))'
  BY <1>1 DEF Migrate, Goto, HoldsTarget, RowIsNew, IInv, TypeOK
<1>3. \A q \in Runs \ {p} :
         /\ pc'[q] = pc[q] /\ todo'[q] = todo[q]
         /\ \A v \in Versions : lock[v] = q => lock'[v] = q
  BY DEF Migrate, Goto, MigratorAssumption, IInv, TypeOK
<1> QED  BY <1>2, <1>3, QuietStep DEF Migrate, database

LEMMA RecordStep ==
    ASSUME IInv, TypeOK', NEW p \in Runs, Record(p)
    PROVE  IInv'
<1>1. Target(p)' = Target(p) /\ lock' = lock
  BY DEF Record, Target
<1>2. HoldsTarget(p)
  BY DEF IInv
<1>3. (HoldsTarget(p) /\ RowIsNew(p))'
  BY <1>1, <1>2 DEF Record, Goto, HoldsTarget, RowIsNew, Applied, database, IInv, TypeOK
<1>4. \A q \in Runs \ {p} : pc'[q] = pc[q] /\ todo'[q] = todo[q]
  BY DEF Record, Goto, IInv, TypeOK
<1> QED  BY <1>1, <1>3, <1>4, QuietStep DEF Record, database

LEMMA Invariance == Spec => []IInv
<1>1. IInv /\ [Next]_vars => IInv'
  <2> SUFFICES ASSUME IInv, [Next]_vars
               PROVE  IInv'
    OBVIOUS
  <2>1. ASSUME NEW p \in Runs, Start(p) \/ Step(p) \/ Killed(p)
        PROVE  IInv'
    <3>1. TypeOK'
      BY <2>1, StepType
    <3>2. pc \in [Runs -> Locations] /\ todo \in [Runs -> SUBSET Versions]
      BY DEF IInv, TypeOK
    <3> USE DEF Goto, Report, database
    <3>3. CASE \/ Start(p) \/ Ensure(p) \/ ReadPending(p) \/ ReadTarget(p)
               \/ ReadFails(p) \/ MigrateFails(p) \/ RecordFails(p) \/ Killed(p)
      <4>1. /\ UNCHANGED <<ledger, schema, command>>
            /\ \A q \in Runs \ {p} : pc'[q] = pc[q] /\ todo'[q] = todo[q]
            /\ pc'[p] \notin {"record", "commit"}
            /\ Unlock(p) \/ UNCHANGED lock
        BY <3>2, <3>3 DEF Start, Ensure, ReadPending, ReadTarget, ReadFails,
                          MigrateFails, RecordFails, Killed
      <4> QED  BY <3>1, <4>1, StepOutside
    <3>4. CASE Migrate(p)
      BY <3>1, <3>4, MigrateStep
    <3>5. CASE Record(p)
      BY <3>1, <3>5, RecordStep
    <3>6. CASE Commit(p) \/ (CommitFails(p) /\ Commits(p))
      <4>1. /\ pc[p] = "commit" /\ Commits(p) /\ UNCHANGED command
            /\ pc'[p] \notin {"record", "commit"}
            /\ \A q \in Runs \ {p} : pc'[q] = pc[q] /\ todo'[q] = todo[q]
        BY <3>2, <3>6 DEF Commit, CommitFails
      <4> QED  BY <3>1, <4>1, CommitsStep
    <3>7. CASE CommitFails(p) /\ Unlock(p) /\ UNCHANGED database
      <4>1. /\ UNCHANGED <<ledger, schema, command>>
            /\ \A q \in Runs \ {p} : pc'[q] = pc[q] /\ todo'[q] = todo[q]
            /\ pc'[p] \notin {"record", "commit"}
        BY <3>2, <3>7 DEF CommitFails
      <4> QED  BY <3>1, <3>7, <4>1, StepOutside
    <3> QED  BY <2>1, <3>3, <3>4, <3>5, <3>6, <3>7 DEF Step, CommitFails
  <2>2. CASE UNCHANGED vars
    BY <2>2 DEF vars, database, IInv, TypeOK, LedgerMatchesSchema, Applied,
                HoldsTarget, RowIsNew, Target
  <2> QED  BY <2>1, <2>2 DEF Next
<1> QED  BY <1>1, InitIInv, PTL DEF Spec

-----------------------------------------------------------------------------
\* Every variable has its type, and a run that works has something to work on
\* (migrator.go:96-179).
THEOREM TypeCorrectness == Spec => []TypeOK
BY Invariance, PTL DEF IInv

\* The row of a migration is there exactly when its effect is, and once,
\* whoever runs, fails or is killed (migrator.go:113-179).
THEOREM LedgerTruth == Spec => []LedgerMatchesSchema
BY Invariance, PTL DEF IInv

-----------------------------------------------------------------------------
(* As long as no rollback has run beside an Up, what Up works off is all    *)
(* that its release misses, and what Down takes is the highest applied      *)
(* version that its release has.                                            *)

Working(p) == pc[p] \in {"begin", "record", "commit"}
Alone == \A p, q \in Runs : Active(p) /\ Active(q) => command[p] = command[q]
ListOK(p) ==
    Working(p) =>
        IF command[p] = "up" THEN Registered[p] \ todo[p] \subseteq Applied
        ELSE \E v \in Versions :
                todo[p] = {v} /\ \A u \in Registered[p] \cap Applied : u <= v

ListInv ==
    /\ \A p \in Runs : outcome[p] # "none" => pc[p] = "done"
    /\ ~overlapped => Alone /\ (\A p \in Runs : ListOK(p))

\* A step of one run that leaves the ledger alone.
LEMMA QuietList ==
    ASSUME ListInv, NEW p \in Runs, UNCHANGED <<ledger, command>>,
           \A q \in Runs \ {p} : pc'[q] = pc[q] /\ todo'[q] = todo[q] /\ outcome'[q] = outcome[q],
           outcome'[p] # "none" => pc'[p] = "done",
           overlapped => overlapped',
           ~overlapped' => Alone' /\ ListOK(p)'
    PROVE  ListInv'
<1>1. \A q \in Runs : outcome'[q] # "none" => pc'[q] = "done"
  BY DEF ListInv
<1>2. ASSUME ~overlapped' PROVE (Alone /\ (\A q \in Runs : ListOK(q)))'
  <2>1. ~overlapped /\ Alone' /\ ListOK(p)'
    BY <1>2
  <2>2. ASSUME NEW q \in Runs, q # p PROVE ListOK(q)'
    BY <2>1, <2>2 DEF ListInv, ListOK, Working, Applied
  <2> QED  BY <2>1, <2>2
<1> QED  BY <1>1, <1>2 DEF ListInv

\* A run that goes on or ends, but does not begin.
LEMMA GoesOnList ==
    ASSUME ListInv, NEW p \in Runs, Active(p), UNCHANGED <<ledger, command, overlapped>>,
           \A q \in Runs \ {p} : pc'[q] = pc[q] /\ todo'[q] = todo[q] /\ outcome'[q] = outcome[q],
           outcome'[p] # "none" => pc'[p] = "done",
           ~overlapped => ListOK(p)'
    PROVE  ListInv'
<1>1. \A q \in Runs : Active(q)' => Active(q)
  BY DEF Active
<1>2. ~overlapped' => Alone'
  BY <1>1 DEF ListInv, Alone
<1> QED  BY <1>2, QuietList

\* What a commit does to the set of applied versions.
LEMMA CommitsApplied ==
    ASSUME IInv, NEW p \in Runs, pc[p] = "commit", Commits(p)
    PROVE  /\ Target(p) \in Versions /\ Target(p) \in todo[p]
           /\ command[p] = "up" => /\ Applied' = Applied \cup {Target(p)}
                                   /\ \A v \in todo[p] : Target(p) <= v
           /\ command[p] = "down" => Applied' = Applied \ {Target(p)}
<1>1. PICK v : v = Target(p)
  OBVIOUS
<1>2. v \in Versions /\ v \in todo[p] /\ \A u \in todo[p] : v <= u
  BY <1>1, TargetType DEF IInv
<1>3. ledger \in Seq(Versions) /\ IsInjective(ledger)
  BY DEF IInv, TypeOK, LedgerMatchesSchema
<1>4. CASE command[p] = "up"
  <2>1. v \notin Applied /\ ledger' = Append(ledger, v)
    BY <1>1, <1>4 DEF IInv, RowIsNew, Commits
  <2>2. Applied' = Applied \cup {v}
    BY <1>2, <1>3, <2>1, AppendRow
  <2> QED  BY <1>1, <1>2, <1>4, <2>2
<1>5. CASE command[p] = "down"
  <2>1. Delete(v)
    BY <1>1, <1>5 DEF Commits
  <2>2. Applied' = Applied \ {v}
    BY <1>2, <1>3, <2>1, DeleteRow
  <2> QED  BY <1>1, <1>2, <1>5, <2>2
<1> QED  BY <1>4, <1>5 DEF IInv, TypeOK

LEMMA CommitsList ==
    ASSUME IInv, ListInv, NEW p \in Runs, pc[p] = "commit", Commits(p),
           UNCHANGED <<command, overlapped>>,
           \A q \in Runs \ {p} : pc'[q] = pc[q] /\ todo'[q] = todo[q] /\ outcome'[q] = outcome[q],
           outcome'[p] # "none" => pc'[p] = "done",
           Working(p)' => todo'[p] = todo[p] \ {Target(p)} /\ todo'[p] # {}
    PROVE  ListInv'
<1>1. \A q \in Runs : outcome'[q] # "none" => pc'[q] = "done"
  BY DEF ListInv
<1>2. ASSUME ~overlapped PROVE (Alone /\ (\A q \in Runs : ListOK(q)))'
  <2>1. Alone /\ Active(p) /\ \A q \in Runs : Active(q)' => Active(q)
    BY <1>2 DEF ListInv, Active
  <2>2. Alone'
    BY <2>1 DEF Alone
  <2>3. \A q \in Runs : Working(q) => command[q] = command[p]
    BY <2>1 DEF Alone, Active, Working
  <2>4. \A q \in Runs : ListOK(q)
    BY <1>2 DEF ListInv
  <2>5. CASE command[p] = "up"
    <3>1. Applied' = Applied \cup {Target(p)}
      BY <2>5, CommitsApplied
    <3>2. ASSUME NEW q \in Runs PROVE ListOK(q)'
      <4>1. CASE q = p
        BY <2>4, <2>5, <3>1, <4>1 DEF ListOK, Working
      <4>2. CASE q # p
        BY <2>3, <2>4, <2>5, <3>1, <4>2 DEF ListOK, Working
      <4> QED  BY <4>1, <4>2
    <3> QED  BY <2>2, <3>2
  <2>6. CASE command[p] = "down"
    <3>1. Applied' = Applied \ {Target(p)} /\ Target(p) \in todo[p]
      BY <2>6, CommitsApplied
    <3>2. ASSUME NEW q \in Runs PROVE ListOK(q)'
      <4>1. CASE q = p
        <5>1. PICK v \in Versions : todo[p] = {v}
          BY <2>4, <2>6 DEF ListOK, Working
        <5>2. ~Working(p)'
          BY <3>1, <5>1
        <5> QED  BY <4>1, <5>2 DEF ListOK
      <4>2. CASE q # p
        <5>1. /\ command'[q] = command[q] /\ todo'[q] = todo[q]
              /\ (Working(q)' <=> Working(q))
          BY <4>2 DEF Working
        <5>2. CASE Working(q)
          <6>1. command[q] = "down"
            BY <2>3, <2>6, <5>2
          <6>2. PICK v \in Versions :
                   todo[q] = {v} /\ \A u \in Registered[q] \cap Applied : u <= v
            BY <2>4, <5>2, <6>1 DEF ListOK
          <6>3. \A u \in Registered[q] \cap Applied' : u <= v
            BY <3>1, <6>2
          <6> QED  BY <5>1, <6>1, <6>2, <6>3 DEF ListOK
        <5> QED  BY <5>1, <5>2 DEF ListOK
      <4> QED  BY <4>1, <4>2
    <3> QED  BY <2>2, <3>2
  <2> QED  BY <2>5, <2>6 DEF IInv, TypeOK
<1> QED  BY <1>1, <1>2 DEF ListInv

LEMMA StartList ==
    ASSUME IInv, ListInv, NEW p \in Runs, Start(p)
    PROVE  ListInv'
<1>1. /\ pc[p] = "start" /\ pc' = [pc EXCEPT ![p] = "ensure"]
      /\ UNCHANGED <<ledger, command, todo, outcome>>
  BY DEF Start, Goto, database
<1>2. pc'[p] = "ensure" /\ \A q \in Runs \ {p} : pc'[q] = pc[q]
  BY <1>1 DEF IInv, TypeOK
<1>3. outcome[p] = "none"
  BY <1>1 DEF ListInv
<1>4. overlapped => overlapped'
  BY DEF Start
<1>5. ASSUME ~overlapped' PROVE Alone' /\ ListOK(p)'
  <2>1. ~overlapped /\ \A q \in Runs : Active(q) => command[q] = command[p]
    BY <1>5 DEF Start
  <2>2. \A q \in Runs : q # p /\ Active(q)' => Active(q)
    BY <1>2 DEF Active
  <2>3. Alone'
    BY <1>1, <2>1, <2>2 DEF Alone
  <2> QED  BY <1>2, <2>3 DEF ListOK, Working
<1> QED  BY <1>1, <1>2, <1>3, <1>4, <1>5, QuietList

LEMMA ReadList ==
    ASSUME IInv, ListInv, NEW p \in Runs, ReadPending(p) \/ ReadTarget(p)
    PROVE  ListInv'
<1>1. /\ pc[p] = "read" /\ UNCHANGED <<ledger, command, overlapped>>
      /\ \A q \in Runs \ {p} : pc'[q] = pc[q] /\ todo'[q] = todo[q] /\ outcome'[q] = outcome[q]
      /\ pc'[p] \in {"begin", "done"}
      /\ pc'[p] = "begin" => outcome' = outcome
  BY DEF ReadPending, ReadTarget, Goto, Report, database, IInv, TypeOK
<1>2. outcome'[p] # "none" => pc'[p] = "done"
  BY <1>1 DEF ListInv
<1>3. Applied \subseteq Versions
  <2>1. ledger \in Seq(Versions)
    BY DEF IInv, TypeOK
  <2> QED  BY <2>1 DEF Applied, ToSet
<1>4. Applied' = Applied
  BY <1>1 DEF Applied
<1>5. ListOK(p)'
  <2>1. CASE pc'[p] = "done"
    BY <2>1 DEF ListOK, Working
  <2>2. CASE pc'[p] = "begin" /\ ReadPending(p)
    <3>1. command'[p] = "up" /\ todo'[p] = Registered[p] \ Applied
      BY <1>1, <2>2 DEF ReadPending, Report, Goto, IInv, TypeOK
    <3> QED  BY <1>4, <3>1 DEF ListOK
  <2>3. CASE pc'[p] = "begin" /\ ReadTarget(p)
    <3>1. PICK v \in Registered[p] \cap Applied :
             (\A u \in Registered[p] \cap Applied : u <= v) /\ todo' = [todo EXCEPT ![p] = {v}]
      BY <1>1, <2>3 DEF ReadTarget, Report, Goto, IInv, TypeOK
    <3>2. command'[p] = "down" /\ todo'[p] = {v} /\ v \in Versions
      BY <1>1, <1>3, <2>3, <3>1 DEF ReadTarget, IInv, TypeOK
    <3> QED  BY <1>4, <3>1, <3>2 DEF ListOK
  <2> QED  BY <1>1, <2>1, <2>2, <2>3
<1> QED  BY <1>1, <1>2, <1>5, GoesOnList DEF Active

LEMMA ListStep ==
    ASSUME IInv, ListInv, [Next]_vars
    PROVE  ListInv'
<1>1. ASSUME NEW p \in Runs, Start(p) \/ Step(p) \/ Killed(p) PROVE ListInv'
  <2>1. /\ pc \in [Runs -> Locations] /\ todo \in [Runs -> SUBSET Versions]
        /\ outcome \in [Runs -> {"none", "ok", "failed"}]
    BY DEF IInv, TypeOK
  <2>2. outcome[p] # "none" => pc[p] = "done"
    BY DEF ListInv
  <2>3. CASE \/ Ensure(p) \/ ReadFails(p) \/ MigrateFails(p) \/ RecordFails(p) \/ Killed(p)
             \/ (CommitFails(p) /\ Unlock(p) /\ UNCHANGED database)
    <3>1. /\ Active(p) /\ UNCHANGED <<ledger, command, overlapped>>
          /\ \A q \in Runs \ {p} : pc'[q] = pc[q] /\ todo'[q] = todo[q] /\ outcome'[q] = outcome[q]
          /\ pc'[p] = "done" \/ (pc'[p] = "read" /\ outcome' = outcome)
      <4> USE DEF Goto, Report, Active, database
      <4>1. CASE Ensure(p)
        BY <2>1, <4>1 DEF Ensure
      <4>2. CASE ReadFails(p) \/ MigrateFails(p)
        BY <2>1, <4>2 DEF ReadFails, MigrateFails
      <4>3. CASE RecordFails(p) \/ Killed(p)
        BY <2>1, <4>3 DEF RecordFails, Killed
      <4>4. CASE CommitFails(p) /\ Unlock(p) /\ UNCHANGED database
        BY <2>1, <4>4 DEF CommitFails
      <4> QED  BY <2>3, <4>1, <4>2, <4>3, <4>4
    <3>2. (outcome'[p] # "none" => pc'[p] = "done") /\ ListOK(p)'
      BY <2>2, <3>1 DEF ListOK, Working, Active
    <3> QED  BY <3>1, <3>2, GoesOnList
  <2>4. CASE Migrate(p) \/ Record(p)
    <3>1. /\ Active(p) /\ Working(p) /\ UNCHANGED <<ledger, command, overlapped, todo, outcome>>
          /\ \A q \in Runs \ {p} : pc'[q] = pc[q]
      BY <2>1, <2>4 DEF Migrate, Record, Goto, Active, Working, database
    <3>2. outcome'[p] = "none"
      BY <2>2, <3>1 DEF Active
    <3>3. ~overlapped => ListOK(p)'
      BY <3>1 DEF ListInv, ListOK, Applied
    <3> QED  BY <3>1, <3>2, <3>3, GoesOnList
  <2>5. CASE Commit(p) \/ (CommitFails(p) /\ Commits(p))
    <3>1. /\ pc[p] = "commit" /\ Commits(p) /\ UNCHANGED <<command, overlapped>>
          /\ \A q \in Runs \ {p} : pc'[q] = pc[q] /\ todo'[q] = todo[q] /\ outcome'[q] = outcome[q]
          /\ pc'[p] = "done" \/ (/\ pc'[p] = "begin" /\ outcome' = outcome
                                 /\ todo'[p] = todo[p] \ {Target(p)} /\ todo'[p] # {})
      BY <2>1, <2>5 DEF Commit, CommitFails, Goto, Report
    <3>2. outcome'[p] # "none" => pc'[p] = "done"
      BY <2>2, <3>1
    <3> QED  BY <3>1, <3>2, CommitsList DEF Working
  <2> QED  BY <1>1, <2>3, <2>4, <2>5, StartList, ReadList DEF Step, CommitFails
<1>2. ASSUME UNCHANGED vars PROVE ListInv'
  <2>1. UNCHANGED <<ledger, pc, command, todo, outcome, overlapped>>
    BY <1>2 DEF vars, database
  <2> QED  BY <2>1 DEF ListInv, Alone, ListOK, Working, Active, Applied
<1> QED  BY <1>1, <1>2 DEF Next

LEMMA ListInvariance == Spec => [](IInv /\ ListInv)
<1>1. Init => ListInv
  BY DEF Init, ListInv, Alone, Active, ListOK, Working
<1>2. IInv /\ ListInv /\ [Next]_vars => ListInv'
  BY ListStep
<1> QED  BY <1>1, <1>2, Invariance, PTL DEF Spec

-----------------------------------------------------------------------------
(* The ledger changes when a transaction commits, and only then. *)

LEMMA LedgerChanges ==
    ASSUME IInv, Next
    PROVE  \/ UNCHANGED ledger /\ (overlapped => overlapped')
           \/ \E p \in Runs : pc[p] = "commit" /\ Commits(p) /\ UNCHANGED overlapped
<1>1. PICK q \in Runs : Start(q) \/ Step(q) \/ Killed(q)
  BY DEF Next
<1> USE DEF Goto, Report, database
<1>2. CASE Start(q) \/ Migrate(q) \/ Record(q) \/ Killed(q)
  BY <1>2 DEF Start, Migrate, Record, Killed
<1>3. CASE Ensure(q) \/ ReadFails(q) \/ MigrateFails(q) \/ RecordFails(q)
  BY <1>3 DEF Ensure, ReadFails, MigrateFails, RecordFails
<1>4. CASE ReadTarget(q) \/ ReadPending(q)
  BY <1>4 DEF ReadTarget, ReadPending
<1>5. CASE Commit(q)
  BY <1>5 DEF Commit
<1>6. CASE CommitFails(q)
  BY <1>6 DEF CommitFails
<1> QED  BY <1>1, <1>2, <1>3, <1>4, <1>5, <1>6 DEF Step

Closed == \A v \in Applied : \A u \in Versions : u < v => u \in Applied
ClosedInv == ~overlapped => Closed
SameRelease == \A p \in Runs : Registered[p] = Versions

LEMMA ClosedStep ==
    ASSUME SameRelease, IInv, ListInv, ClosedInv, [Next]_vars
    PROVE  ClosedInv'
<1> SUFFICES ASSUME ~overlapped' PROVE Closed'
  BY DEF ClosedInv
<1>1. CASE UNCHANGED ledger /\ (overlapped => overlapped')
  BY <1>1 DEF ClosedInv, Closed, Applied
<1>2. ASSUME NEW p \in Runs, pc[p] = "commit", Commits(p), UNCHANGED overlapped
      PROVE  Closed'
  <2>1. /\ ListOK(p) /\ Working(p) /\ Closed
    BY <1>2 DEF ListInv, ClosedInv, Working
  <2>2. PICK v : v = Target(p)
    OBVIOUS
  <2>3. /\ v \in Versions /\ v \in todo[p]
        /\ command[p] = "up" => Applied' = Applied \cup {v} /\ \A u \in todo[p] : v <= u
        /\ command[p] = "down" => Applied' = Applied \ {v}
    BY <1>2, <2>2, CommitsApplied
  <2>4. ledger \in Seq(Versions) /\ Applied \subseteq Versions
    BY DEF IInv, TypeOK, Applied, ToSet
  <2>5. CASE command[p] = "up"
    <3>1. ASSUME NEW u \in Versions, u < v PROVE u \in Applied
      <4>1. u \notin todo[p]
        BY <2>3, <2>5, <3>1
      <4> QED  BY <2>1, <2>5, <4>1 DEF ListOK, SameRelease
    <3> QED  BY <2>1, <2>3, <2>5, <3>1 DEF Closed
  <2>6. CASE command[p] = "down"
    <3>1. \A u \in Applied : u <= v
      BY <2>1, <2>3, <2>4, <2>6 DEF ListOK, SameRelease
    <3>2. ASSUME NEW w \in Applied', NEW u \in Versions, u < w PROVE u \in Applied'
      <4>1. w \in Applied /\ w \in Versions /\ w <= v
        BY <2>3, <2>4, <2>6, <3>1, <3>2
      <4>2. u \in Nat /\ w \in Nat /\ v \in Nat
        BY <2>3, <4>1
      <4>3. u # v
        BY <3>2, <4>1, <4>2
      <4>4. u \in Applied
        BY <2>1, <3>2, <4>1 DEF Closed
      <4> QED  BY <2>3, <2>6, <4>3, <4>4
    <3> QED  BY <3>2 DEF Closed
  <2> QED  BY <2>5, <2>6 DEF IInv, TypeOK
<1>3. CASE UNCHANGED vars
  BY <1>1, <1>3 DEF vars, database
<1> QED  BY <1>1, <1>2, <1>3, LedgerChanges

LEMMA UpCompleteStep ==
    ASSUME IInv, ListInv, Next, ~overlapped, NEW p \in Runs,
           pc[p] # "done", outcome'[p] = "ok", command[p] = "up"
    PROVE  Registered[p] \subseteq ToSet(ledger')
<1>1. outcome[p] = "none" /\ pc \in [Runs -> Locations]
      /\ outcome \in [Runs -> {"none", "ok", "failed"}]
  BY DEF ListInv, IInv, TypeOK
<1>2. PICK q \in Runs : Start(q) \/ Step(q) \/ Killed(q)
  BY DEF Next
<1>3. p = q /\ ((ReadPending(p) /\ pc'[p] = "done") \/ (Commit(p) /\ pc'[p] = "done"))
  <2> USE DEF Goto, Report
  <2>1. CASE Start(q) \/ Migrate(q) \/ Record(q) \/ Killed(q)
    BY <1>1, <2>1 DEF Start, Migrate, Record, Killed
  <2>2. CASE Ensure(q) \/ ReadFails(q) \/ MigrateFails(q) \/ RecordFails(q) \/ CommitFails(q)
    BY <1>1, <2>2 DEF Ensure, ReadFails, MigrateFails, RecordFails, CommitFails
  <2>3. CASE ReadTarget(q)
    BY <1>1, <2>3 DEF ReadTarget
  <2>4. CASE ReadPending(q)
    BY <1>1, <2>4 DEF ReadPending
  <2>5. CASE Commit(q)
    BY <1>1, <2>5 DEF Commit
  <2> QED  BY <1>2, <2>1, <2>2, <2>3, <2>4, <2>5 DEF Step
<1>4. CASE ReadPending(p) /\ pc'[p] = "done"
  <2>1. Registered[p] \ Applied = {} /\ ledger' = ledger
    BY <1>1, <1>4 DEF ReadPending, Report, Goto, database
  <2> QED  BY <2>1 DEF Applied
<1>5. CASE Commit(p) /\ pc'[p] = "done"
  <2>1. pc[p] = "commit" /\ Commits(p) /\ todo[p] \ {Target(p)} = {}
    BY <1>1, <1>5 DEF Commit, Goto
  <2>2. Registered[p] \ todo[p] \subseteq Applied
    BY <2>1 DEF ListInv, ListOK, Working
  <2>3. Applied' = Applied \cup {Target(p)}
    BY <2>1, CommitsApplied
  <2>4. Registered[p] \subseteq Applied'
    BY <2>1, <2>2, <2>3
  <2> QED  BY <2>4 DEF Applied
<1> QED  BY <1>3, <1>4, <1>5

LEMMA DownHighestStep ==
    ASSUME IInv, ListInv, Next, ~overlapped, NEW p \in Runs,
           command[p] = "down", pc[p] = "commit", pc'[p] = "done",
           NEW v \in ToSet(ledger) \ ToSet(ledger'),
           NEW u \in Registered[p] \cap ToSet(ledger)
    PROVE  u <= v
<1>1. pc \in [Runs -> Locations]
  BY DEF IInv, TypeOK
<1>2. PICK q \in Runs : Start(q) \/ Step(q) \/ Killed(q)
  BY DEF Next
<1>3. ledger' # ledger
  OBVIOUS
<1>4. p = q /\ Commits(p)
  <2> USE DEF Goto, Report, database
  <2>1. CASE Start(q) \/ Migrate(q) \/ Record(q) \/ Killed(q)
    BY <1>3, <2>1 DEF Start, Migrate, Record, Killed
  <2>2. CASE Ensure(q) \/ ReadFails(q) \/ MigrateFails(q) \/ RecordFails(q)
    BY <1>3, <2>2 DEF Ensure, ReadFails, MigrateFails, RecordFails
  <2>3. CASE ReadTarget(q) \/ ReadPending(q)
    BY <1>3, <2>3 DEF ReadTarget, ReadPending
  <2>4. CASE Commit(q)
    BY <1>1, <1>3, <2>4 DEF Commit
  <2>5. CASE CommitFails(q)
    BY <1>1, <1>3, <2>5 DEF CommitFails
  <2> QED  BY <1>2, <2>1, <2>2, <2>3, <2>4, <2>5 DEF Step
<1>5. /\ Applied' = Applied \ {Target(p)} /\ Target(p) \in todo[p]
  BY <1>4, CommitsApplied
<1>6. v = Target(p)
  BY <1>5 DEF Applied
<1>7. PICK w \in Versions : todo[p] = {w} /\ \A x \in Registered[p] \cap Applied : x <= w
  BY DEF ListInv, ListOK, Working
<1> QED  BY <1>5, <1>6, <1>7 DEF Applied

-----------------------------------------------------------------------------
\* Invocations of one release leave no hole below an applied version, as long as no
\* rollback runs beside an Up (migrator.go:93-108).  Of several releases, the one
\* without a migration applies what comes after it.
THEOREM NoHoles == SameRelease => (Spec => []NoGaps)
<1> SUFFICES ASSUME SameRelease PROVE Spec => []NoGaps
  OBVIOUS
<1>1. Init => ClosedInv
  <2> SUFFICES ASSUME Init PROVE ClosedInv
    OBVIOUS
  <2>1. Applied = {}
    BY DEF Init, Applied, ToSet
  <2> QED  BY <2>1 DEF ClosedInv, Closed
<1>2. IInv /\ ListInv /\ ClosedInv /\ [Next]_vars => ClosedInv'
  BY ClosedStep
<1>3. ClosedInv => NoGaps
  BY DEF ClosedInv, NoGaps, Closed
<1> QED  BY <1>1, <1>2, <1>3, ListInvariance, PTL DEF Spec

\* An Up that reports success has left nothing of its release unapplied, whatever
\* other Ups, of whatever releases, ran beside it (migrator.go:93-108).
THEOREM UpIsComplete == Spec => UpComplete
<1>1. IInv /\ ListInv /\ [Next]_vars =>
         [\A p \in Runs :
             /\ pc[p] # "done" /\ outcome'[p] = "ok" /\ command[p] = "up"
             /\ ~overlapped
             => Registered[p] \subseteq ToSet(ledger')]_vars
  BY UpCompleteStep
<1> QED  BY <1>1, ListInvariance, PTL DEF Spec, UpComplete

\* A rollback takes the highest applied version that its release has, for any
\* releases and any rollbacks beside it (migrator.go:148-154).
THEOREM DownTakesTop == Spec => DownTakesHighest
<1>1. IInv /\ ListInv /\ [Next]_vars =>
         [\A p \in Runs :
             /\ ~overlapped
             /\ command[p] = "down" /\ pc[p] = "commit" /\ pc'[p] = "done"
             => \A v \in ToSet(ledger) \ ToSet(ledger'), u \in Registered[p] \cap ToSet(ledger) :
                   u <= v]_vars
  BY DownHighestStep
<1> QED  BY <1>1, ListInvariance, PTL DEF Spec, DownTakesHighest
==============================================================================
