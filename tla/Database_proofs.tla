---------------------------- MODULE Database_proofs ----------------------------
(***************************************************************************)
(* Theorems about pkg/orm and the statements below it.                     *)
(*                                                                         *)
(* The first part is about the prepared-statement cache, for any number of *)
(* goroutines, texts and statements and any bound; the second about the    *)
(* rows that handlers of a generated resource read and write, for any      *)
(* numbers of readers, writers and rows.                                   *)
(***************************************************************************)
EXTENDS StmtCache, Orm, FiniteSetTheorems, SequenceTheorems, TLAPS

USE StmtCacheAssumption

\* The steps of a caller's get and executor methods, its call included.
CallerStep(c) ==
    \/ \E q \in Queries, m \in Methods : Lookup(c, q, m)
    \/ Step(c)

-----------------------------------------------------------------------------
(* Type correctness. *)

\* A location is a location, so moving a program counter keeps its type
\* (the shape shared by every step of a caller).
LEMMA GotoType ==
    ASSUME TypeOK, NEW c \in Callers, NEW here \in Locations,
           NEW there \in Locations, Goto(c, here, there)
    PROVE  pc' \in [Callers -> Locations]
  BY DEF Goto, TypeOK

\* Returning from an Executor method keeps the types, given that nothing of
\* the current call reached the database before.
LEMMA ReturnType ==
    ASSUME TypeOK, NEW c \in Callers, sent[c] = 0,
           NEW here \in Locations, NEW a \in Answers, NEW n \in 0..1,
           Return(c, here, a, n)
    PROVE  TypeOK'
  <1>1. pc' \in [Callers -> Locations]
    BY GotoType DEF Return, Locations
  <1>2. sent' \in [Callers -> 0..1]
    BY DEF Return, TypeOK
  <1>3. QED
    BY <1>1, <1>2 DEF Return, TypeOK

\* What the driver may answer (DbOutcomes, StmtOutcomes).
LEMMA OutcomeType ==
    ASSUME NEW c, NEW o \in StmtOutcomes(c) \cup DbOutcomes
    PROVE  /\ o[1] \in Answers \ {"none"}
           /\ o[2] \in 0..1
           /\ o[1] = "ok" => o[2] = 1
           /\ o[1] = "stale" => o[2] = 0
           /\ o \in DbOutcomes => o[1] # "stale"
  BY DEF StmtOutcomes, DbOutcomes, Answers

\* Every step keeps the types of the variables.
LEMMA TypeStep ==
    ASSUME IInv, [Next]_vars
    PROVE  TypeOK'
  <1> USE DEF IInv
  <1>1. ASSUME NEW c \in Callers, NEW q \in Queries, NEW m \in Methods,
               Lookup(c, q, m)
        PROVE  TypeOK'
    BY <1>1 DEF Lookup, Goto, TypeOK, Locations, Answers
  <1>2. ASSUME NEW c \in Callers, NEW s \in Stmts, Prepare(c, s)
        PROVE  TypeOK'
    BY <1>2 DEF Prepare, Goto, TypeOK, Locations
  <1>3. ASSUME NEW c \in Callers, PrepareFails(c)
        PROVE  TypeOK'
    BY <1>3 DEF PrepareFails, Goto, TypeOK, Locations
  <1>4. ASSUME NEW c \in Callers, Admit(c)
        PROVE  TypeOK'
    BY <1>4 DEF Admit, Goto, TypeOK, Locations
  <1>5. ASSUME NEW c \in Callers, Discard(c)
        PROVE  TypeOK'
    BY <1>5 DEF Discard, Goto, TypeOK, Locations
  <1>6. ASSUME NEW c \in Callers, Run(c)
        PROVE  TypeOK'
    <2>1. sent[c] = 0
      BY <1>6 DEF Run, Return, Goto, CallerInv
    <2>2. PICK o \in StmtOutcomes(c) :
             \/ Return(c, "run", o[1], o[2])
             \/ /\ Goto(c, "run", "forget")
                /\ UNCHANGED <<stmts, open, pool, query, method, local, owned,
                               sent, answer, swept>>
      BY <1>6 DEF Run
    <2>3. o[1] \in Answers /\ o[2] \in 0..1
      BY OutcomeType
    <2>4. CASE Return(c, "run", o[1], o[2])
      BY <2>1, <2>3, <2>4, ReturnType DEF Locations
    <2>5. CASE /\ Goto(c, "run", "forget")
               /\ UNCHANGED <<stmts, open, pool, query, method, local, owned,
                              sent, answer, swept>>
      BY <2>5 DEF Goto, TypeOK, Locations
    <2>6. QED
      BY <2>2, <2>4, <2>5
  <1>7. ASSUME NEW c \in Callers, Forget(c)
        PROVE  TypeOK'
    BY <1>7 DEF Forget, Goto, TypeOK, Locations
  <1>8. ASSUME NEW c \in Callers, Release(c)
        PROVE  TypeOK'
    BY <1>8 DEF Release, Goto, TypeOK, Locations
  <1>9. ASSUME NEW c \in Callers, Direct(c)
        PROVE  TypeOK'
    <2>1. sent[c] = 0
      BY <1>9 DEF Direct, Return, Goto, CallerInv
    <2>2. PICK o \in DbOutcomes : Return(c, "direct", o[1], o[2])
      BY <1>9 DEF Direct
    <2>3. o[1] \in Answers /\ o[2] \in 0..1
      BY OutcomeType
    <2>4. QED
      BY <2>1, <2>2, <2>3, ReturnType DEF Locations
  <1>10. ASSUME Shutdown
         PROVE  TypeOK'
    BY <1>10 DEF Shutdown, Sweep, CloseSwept, CloseReturns, ClosePool, TypeOK,
                 PoolStates, CachedStmts, CachedQueries
  <1>11. CASE UNCHANGED vars
    BY <1>11 DEF vars, TypeOK
  <1>12. QED
    BY <1>1, <1>2, <1>3, <1>4, <1>5, <1>6, <1>7, <1>8, <1>9, <1>10, <1>11
       DEF Next, Step

-----------------------------------------------------------------------------
(* The bound. *)

\* The texts in the map stay the same, lose some, or gain one when the map is
\* not full: no step of two goroutines inserts twice past the check.
LEMMA CachedQueriesStep ==
    ASSUME IInv, [Next]_vars
    PROVE  \/ CachedQueries' \subseteq CachedQueries
           \/ ~Full /\ \E q \in Queries : CachedQueries' = CachedQueries \cup {q}
  <1> USE DEF IInv, TypeOK, CachedQueries
  <1>1. ASSUME NEW c \in Callers, Admit(c)
        PROVE  \/ CachedQueries' \subseteq CachedQueries
               \/ ~Full /\ \E q \in Queries : CachedQueries' = CachedQueries \cup {q}
    <2>1. CASE UNCHANGED stmts
      BY <2>1
    <2>2. CASE ~Full /\ stmts' = [stmts EXCEPT ![query[c]] = local[c]]
      <3>1. CachedQueries' \subseteq CachedQueries \cup {query[c]}
        BY <2>2
      <3>2. CachedQueries \ {query[c]} \subseteq CachedQueries'
        BY <2>2
      <3>3. QED
        BY <2>2, <3>1, <3>2
    <2>3. QED
      BY <1>1, <2>1, <2>2 DEF Admit
  <1>2. ASSUME NEW c \in Callers, Forget(c)
        PROVE  CachedQueries' \subseteq CachedQueries
    BY <1>2 DEF Forget
  <1>3. CASE Sweep
    BY <1>3 DEF Sweep
  <1>4. CASE UNCHANGED stmts
    BY <1>4
  <1>5. QED
    BY <1>1, <1>2, <1>3, <1>4
       DEF Next, Step, Shutdown, Lookup, Prepare, PrepareFails, Discard, Run,
           Return, Release, Direct, CloseSwept, CloseReturns, ClosePool, vars

\* The map stays finite and within its bound.
LEMMA BoundStep ==
    ASSUME IInv, [Next]_vars
    PROVE  IsFiniteSet(CachedQueries') /\ BoundKept'
  <1> USE DEF IInv, BoundKept
  <1>1. Cardinality(CachedQueries) \in Nat
    BY FS_CardinalityType
  <1>2. CASE CachedQueries' \subseteq CachedQueries
    <2>1. /\ IsFiniteSet(CachedQueries')
          /\ Cardinality(CachedQueries') <= Cardinality(CachedQueries)
      BY <1>2, FS_Subset
    <2>2. Cardinality(CachedQueries') \in Nat
      BY <2>1, FS_CardinalityType
    <2>3. QED
      BY <1>1, <2>1, <2>2
  <1>3. ASSUME ~Full, NEW q \in Queries,
               CachedQueries' = CachedQueries \cup {q}
        PROVE  IsFiniteSet(CachedQueries') /\ BoundKept'
    <2>1. /\ IsFiniteSet(CachedQueries')
          /\ Cardinality(CachedQueries') <= Cardinality(CachedQueries) + 1
      <3>1. /\ IsFiniteSet(CachedQueries \cup {q})
            /\ Cardinality(CachedQueries \cup {q}) =
                  IF q \in CachedQueries THEN Cardinality(CachedQueries)
                                         ELSE Cardinality(CachedQueries) + 1
        BY FS_AddElement
      <3>2. QED
        BY <1>1, <1>3, <3>1
    <2>2. Cardinality(CachedQueries') \in Nat
      BY <2>1, FS_CardinalityType
    <2>3. QED
      BY <1>1, <1>3, <2>1, <2>2 DEF Full
  <1>4. QED
    BY <1>2, <1>3, CachedQueriesStep

-----------------------------------------------------------------------------
(* Ownership. *)

\* Ownership of the open statements survives every step.
LEMMA OwnershipStep ==
    ASSUME IInv, [Next]_vars
    PROVE  Ownership'
  <1> USE DEF IInv, TypeOK, Ownership, CachedStmts, CachedQueries
  <1>1. ASSUME NEW c \in Callers, NEW q \in Queries, NEW m \in Methods,
               Lookup(c, q, m)
        PROVE  Ownership'
    BY <1>1 DEF Lookup
  <1>2. ASSUME NEW c \in Callers, NEW s \in Stmts, Prepare(c, s)
        PROVE  Ownership'
    BY <1>2 DEF Prepare, Goto, CallerInv, Referenced
  <1>3. ASSUME NEW c \in Callers, PrepareFails(c)
        PROVE  Ownership'
    BY <1>3 DEF PrepareFails
  <1>4. ASSUME NEW c \in Callers, Admit(c)
        PROVE  Ownership'
    <2>1. pc[c] = "admit" /\ owned[c] = {local[c]}
      BY <1>4 DEF Admit, Goto, CallerInv
    <2>2. CASE UNCHANGED <<stmts, owned>>
      BY <1>4, <2>2 DEF Admit
    <2>3. CASE /\ stmts[query[c]] = NoStmt
               /\ stmts' = [stmts EXCEPT ![query[c]] = local[c]]
               /\ owned' = [owned EXCEPT ![c] = {}]
      <3>1. /\ local[c] \in Stmts
            /\ UNCHANGED <<open, swept>>
        BY <1>4, <2>1 DEF Admit
      <3>2. CachedStmts' = CachedStmts \cup {local[c]}
        BY <2>3, <3>1
      <3>3. \A p, q \in CachedQueries' : stmts'[p] = stmts'[q] => p = q
        BY <2>1, <2>3, <3>1
      <3>4. owned[c] \cap (CachedStmts \cup swept) = {}
        OBVIOUS
      <3>5. QED
        BY <2>1, <2>3, <3>1, <3>2, <3>3, <3>4
    <2>4. QED
      BY <1>4, <2>2, <2>3 DEF Admit
  <1>5. ASSUME NEW c \in Callers, Discard(c)
        PROVE  Ownership'
    BY <1>5 DEF Discard
  <1>6. ASSUME NEW c \in Callers, Run(c)
        PROVE  Ownership'
    BY <1>6 DEF Run, Return
  <1>7. ASSUME NEW c \in Callers, Forget(c)
        PROVE  Ownership'
    BY <1>7 DEF Forget, Goto, CallerInv
  <1>8. ASSUME NEW c \in Callers, Release(c)
        PROVE  Ownership'
    BY <1>8 DEF Release
  <1>9. ASSUME NEW c \in Callers, Direct(c)
        PROVE  Ownership'
    BY <1>9 DEF Direct, Return
  <1>10. CASE Sweep
    BY <1>10 DEF Sweep
  <1>11. ASSUME NEW s \in Stmts, CloseSwept(s)
         PROVE  Ownership'
    BY <1>11 DEF CloseSwept
  <1>12. CASE CloseReturns \/ ClosePool
    BY <1>12 DEF CloseReturns, ClosePool
  <1>13. CASE UNCHANGED vars
    BY <1>13 DEF vars
  <1>14. QED
    BY <1>1, <1>2, <1>3, <1>4, <1>5, <1>6, <1>7, <1>8, <1>9, <1>10, <1>11,
       <1>12, <1>13 DEF Next, Step, Shutdown

-----------------------------------------------------------------------------
(* What holds of a caller at each place. *)

\* Facts about every caller survive every step.
LEMMA CallerStepInv ==
    ASSUME IInv, [Next]_vars, NEW d \in Callers
    PROVE  CallerInv(d)'
  <1> USE DEF IInv, TypeOK, CallerInv
  <1>1. ASSUME NEW c \in Callers, NEW q \in Queries, NEW m \in Methods,
               Lookup(c, q, m)
        PROVE  CallerInv(d)'
    BY <1>1 DEF Lookup, Goto, Ownership, CachedStmts, CachedQueries
  <1>2. ASSUME NEW c \in Callers, NEW s \in Stmts, Prepare(c, s)
        PROVE  CallerInv(d)'
    BY <1>2 DEF Prepare, Goto, Referenced
  <1>3. ASSUME NEW c \in Callers, PrepareFails(c)
        PROVE  CallerInv(d)'
    BY <1>3 DEF PrepareFails, Goto
  <1>4. ASSUME NEW c \in Callers, Admit(c)
        PROVE  CallerInv(d)'
    BY <1>4 DEF Admit, Goto, Ownership, CachedStmts, CachedQueries
  <1>5. ASSUME NEW c \in Callers, Discard(c)
        PROVE  CallerInv(d)'
    BY <1>5 DEF Discard, Goto, Ownership
  <1>6. ASSUME NEW c \in Callers, Run(c)
        PROVE  CallerInv(d)'
    BY <1>6 DEF Run, Return, Goto
  <1>7. ASSUME NEW c \in Callers, Forget(c)
        PROVE  CallerInv(d)'
    BY <1>7 DEF Forget, Goto
  <1>8. ASSUME NEW c \in Callers, Release(c)
        PROVE  CallerInv(d)'
    BY <1>8 DEF Release, Goto
  <1>9. ASSUME NEW c \in Callers, Direct(c)
        PROVE  CallerInv(d)'
    BY <1>9 DEF Direct, Return, Goto
  <1>10. CASE Shutdown
    BY <1>10 DEF Shutdown, Sweep, CloseSwept, CloseReturns, ClosePool
  <1>11. CASE UNCHANGED vars
    BY <1>11 DEF vars
  <1>12. QED
    BY <1>1, <1>2, <1>3, <1>4, <1>5, <1>6, <1>7, <1>8, <1>9, <1>10, <1>11
       DEF Next, Step

\* Only a sweep in progress holds statements back.
LEMMA SweptStep ==
    ASSUME IInv, [Next]_vars
    PROVE  pool' # "sweeping" => swept' = {}
  BY DEF IInv, Next, Step, Shutdown, Lookup, Prepare, PrepareFails, Admit,
         Discard, Run, Return, Forget, Release, Direct, Sweep, CloseSwept,
         CloseReturns, ClosePool, vars

-----------------------------------------------------------------------------
(* The theorems. *)

\* The inductive invariant holds initially and survives every step.
LEMMA Invariance == Spec => []IInv
  <1>1. Init => IInv
    <2> SUFFICES ASSUME Init PROVE IInv
      OBVIOUS
    <2>1. CachedQueries = {}
      BY DEF Init, CachedQueries
    <2>2. TypeOK
      BY DEF Init, TypeOK, Locations, Answers, PoolStates
    <2>3. IsFiniteSet(CachedQueries) /\ BoundKept
      BY <2>1, FS_EmptySet DEF BoundKept
    <2>4. Ownership
      BY <2>1 DEF Init, Ownership, CachedStmts
    <2>5. \A c \in Callers : CallerInv(c)
      BY DEF Init, CallerInv
    <2>6. QED
      BY <2>2, <2>3, <2>4, <2>5 DEF IInv, Init
  <1>2. IInv /\ [Next]_vars => IInv'
    <2> SUFFICES ASSUME IInv, [Next]_vars PROVE IInv'
      OBVIOUS
    <2>1. \A d \in Callers : CallerInv(d)'
      BY CallerStepInv
    <2>2. QED
      BY <2>1, TypeStep, BoundStep, OwnershipStep, SweptStep DEF IInv
  <1>3. QED
    BY <1>1, <1>2, PTL DEF Spec

\* The variables of the cache and of its callers keep their types; with it,
\* the SQL of a call reaches the database at most once.
THEOREM TypeCorrectness == Spec => []TypeOK
  <1>1. IInv => TypeOK
    BY DEF IInv
  <1>2. QED
    BY <1>1, Invariance, PTL

\* However many goroutines prepare at once, the map never exceeds max
\* (stmtcache.go:47-82).
THEOREM CacheBounded == Spec => []BoundKept
  <1>1. IInv => BoundKept
    BY DEF IInv
  <1>2. QED
    BY <1>1, Invariance, PTL

\* Every open statement has exactly one place that will close it, so none
\* leaks and none is closed twice (stmtcache.go:70-118).
THEOREM StatementsOwned == Spec => []Ownership
  <1>1. IInv => Ownership
    BY DEF IInv
  <1>2. QED
    BY <1>1, Invariance, PTL

\* The map never holds a closed statement (stmtcache.go:93-118).
THEOREM CachedStatementsOpen == Spec => []CachedOpen
  <1>1. IInv => CachedOpen
    BY DEF IInv, Ownership, CachedOpen
  <1>2. QED
    BY <1>1, Invariance, PTL

\* A statement somebody is about to run is closed by a forget or by the
\* shutdown, never by an admission (stmtcache.go:22-25).
THEOREM NoEviction == Spec => NeverEvicts
  <1> DEFINE Closed(s) ==
               \/ s \in swept
               \/ \E c \in Callers : pc[c] = "release" /\ s \in owned[c]
             Kept == \A s \in open \ open' : InUse(s) => Closed(s)
  <1>1. ASSUME IInv, [Next]_vars
        PROVE  Kept
    <2> USE DEF IInv, InUse
    <2>1. ASSUME NEW c \in Callers, Discard(c)
          PROVE  Kept
      <3>1. pc[c] = "discard" /\ open \ open' \subseteq owned[c]
        BY <2>1 DEF Discard, Goto
      <3>2. \A s \in owned[c] : ~InUse(s)
        BY <1>1, <3>1 DEF CallerInv
      <3>3. QED
        BY <3>1, <3>2
    <2>2. ASSUME NEW c \in Callers, Release(c)
          PROVE  Kept
      BY <2>2 DEF Release, Goto
    <2>3. ASSUME NEW s \in Stmts, CloseSwept(s)
          PROVE  Kept
      BY <2>3 DEF CloseSwept
    <2>4. CASE open \subseteq open'
      BY <2>4
    <2>5. QED
      BY <1>1, <2>1, <2>2, <2>3, <2>4
         DEF Next, Step, Shutdown, Lookup, Prepare, PrepareFails, Admit, Run,
             Return, Forget, Direct, Sweep, CloseReturns, ClosePool, vars
  <1>2. QED
    BY <1>1, Invariance, PTL DEF Spec, NeverEvicts

\* The cached executor implements a plain pool whose statements are sent at
\* most once and whose QueryContext and ExecContext never surface a statement
\* error (stmtcache.go:152-185).
THEOREM Refinement == Spec => RefinesExecutor
  <1>1. Init => Plain!Init
    BY DEF Init, Plain!Init, Methods, Plain!Methods
  <1>2. IInv /\ [Next]_vars => [Plain!Next]_(Plain!vars)
    <2> SUFFICES ASSUME IInv, [Next]_vars
                 PROVE  [Plain!Next]_(Plain!vars)
      OBVIOUS
    <2> USE DEF IInv, TypeOK
    <2>1. ASSUME NEW c \in Callers, NEW q \in Queries, NEW m \in Methods,
                 Lookup(c, q, m)
          PROVE  Plain!Next
      <3>1. Plain!Begin(c, m)
        BY <2>1 DEF Lookup, Goto, Plain!Begin
      <3>2. m \in Plain!Methods
        BY DEF Methods, Plain!Methods
      <3>3. QED
        BY <3>1, <3>2 DEF Plain!Next
    <2>2. ASSUME NEW c \in Callers, NEW here \in Locations \ {"idle"},
                 NEW o \in StmtOutcomes(c) \cup DbOutcomes,
                 Return(c, here, o[1], o[2]),
                 o[1] = "stale" => method[c] \in StaleMethods
          PROVE  Plain!Next
      <3>1. /\ o[1] \in Answers \ {"none"}
            /\ o[2] \in {0, 1}
            /\ o[1] = "ok" => o[2] = 1
            /\ o[1] = "stale" => o[2] = 0
        BY OutcomeType
      <3>2. /\ pc[c] # "idle"
            /\ sent[c] = 0
        BY <2>2 DEF Return, Goto, CallerInv
      <3>3. /\ [d \in Callers |-> pc'[d] # "idle"]
                 = [[d \in Callers |-> pc[d] # "idle"] EXCEPT ![c] = FALSE]
            /\ sent' = [sent EXCEPT ![c] = o[2]]
            /\ answer' = [answer EXCEPT ![c] = o[1]]
            /\ UNCHANGED method
        <4>1. [d \in Callers |-> pc'[d] # "idle"]
                 = [[d \in Callers |-> pc[d] # "idle"] EXCEPT ![c] = FALSE]
          BY <2>2 DEF Return, Goto
        <4>2. sent[c] + o[2] = o[2]
          BY <3>1, <3>2
        <4>3. QED
          BY <2>2, <4>1, <4>2 DEF Return
      <3>4. Plain!Finish(c, o[1], o[2])
        BY <2>2, <3>1, <3>2, <3>3 DEF Plain!Finish
      <3>5. QED
        BY <3>1, <3>4 DEF Plain!Next, Answers, Plain!Answers
    <2>3. ASSUME NEW c \in Callers, Run(c)
          PROVE  [Plain!Next]_(Plain!vars)
      <3>1. PICK o \in StmtOutcomes(c) :
               \/ /\ o[1] # "stale" \/ method[c] \in StaleMethods
                  /\ Return(c, "run", o[1], o[2])
               \/ /\ Goto(c, "run", "forget")
                  /\ UNCHANGED <<method, sent, answer>>
        BY <2>3 DEF Run
      <3>2. CASE Goto(c, "run", "forget") /\ UNCHANGED <<method, sent, answer>>
        BY <3>2 DEF Goto, Plain!vars
      <3>3. QED
        BY <2>2, <3>1, <3>2 DEF Locations
    <2>4. ASSUME NEW c \in Callers, Direct(c)
          PROVE  Plain!Next
      <3>1. PICK o \in DbOutcomes : Return(c, "direct", o[1], o[2])
        BY <2>4 DEF Direct
      <3>2. o[1] # "stale"
        BY OutcomeType
      <3>3. QED
        BY <2>2, <3>1, <3>2 DEF Locations
    <2>5. ASSUME NEW c \in Callers,
                 \/ \E s \in Stmts : Prepare(c, s)
                 \/ PrepareFails(c)
                 \/ Admit(c)
                 \/ Discard(c)
                 \/ Forget(c)
                 \/ Release(c)
          PROVE  UNCHANGED Plain!vars
      BY <2>5 DEF Prepare, PrepareFails, Admit, Discard, Forget, Release,
                  Goto, Plain!vars
    <2>6. CASE Shutdown
      BY <2>6 DEF Shutdown, Sweep, CloseSwept, CloseReturns, ClosePool,
                  Plain!vars
    <2>7. CASE UNCHANGED vars
      BY <2>7 DEF vars, Plain!vars
    <2>8. QED
      BY <2>1, <2>3, <2>4, <2>5, <2>6, <2>7 DEF Next, Step
  <1>3. QED
    BY <1>1, <1>2, Invariance, PTL DEF Spec, RefinesExecutor, Plain!Spec

-----------------------------------------------------------------------------
(* Orm: the rows.  All rows there are have ids that were given (RowsInv), so that none *)
(* comes back. *)

HIDE StmtCacheAssumption  \* nothing below is about the cache

\* A writer about to store or to delete has a record or an id to do it with.
Held == {c \in Writes : /\ c.place \in {"update", "delete"} => c.id \in Ids
                        /\ c.place = "update" => c.record \in Rows}
RowsInv ==
    /\ posts \in [Ids -> Rows \cup {None}]
    /\ used \subseteq Ids
    /\ {i \in Ids : posts[i] # None} \subseteq used
    /\ write \in [Writers -> Held]

\* What a writer stores has the type of a row, and is none where there was none.
LEMMA StoreType ==
    ASSUME NEW row \in Rows \cup {None}, NEW record \in Rows
    PROVE  /\ Store(row, record) \in Rows \cup {None}
           /\ row = None <=> Store(row, record) = None
           /\ row # None => Store(row, record).created = row.created
<1>1. \A x \in Rows : x # None
  BY OrmAssumption
<1>2. CASE row = None
  BY <1>2 DEF Store
<1>3. CASE row # None
  <2>1. Store(row, record) = [record EXCEPT !.created = row.created]
    BY <1>3 DEF Store
  <2>2. Store(row, record) \in Rows /\ Store(row, record).created = row.created
    BY <1>3, <2>1 DEF Rows
  <2> QED  BY <1>1, <1>3, <2>2
<1> QED  BY <1>2, <1>3

\* A writer with nothing in hand, before its request and after it.
LEMMA WritesTyped ==
    /\ IdleWrite \in Held
    /\ [IdleWrite EXCEPT !.place = "ok"] \in Held
    /\ [IdleWrite EXCEPT !.place = "error"] \in Held
BY DEF IdleWrite, Writes, Held

LEMMA InitRowsInv == OrmInit => RowsInv
<1> SUFFICES ASSUME OrmInit PROVE RowsInv
  OBVIOUS
<1>1. PICK n \in 0..InitRows : \E owner \in [1..n -> Authors \cup {0}] :
          /\ posts = [i \in Ids |-> IF i <= n THEN [author |-> owner[i], created |-> TRUE]
                                    ELSE None]
          /\ used = 1..n
          /\ write = [w \in Writers |-> IdleWrite]
  BY DEF OrmInit
<1>0. PICK owner \in [1..n -> Authors \cup {0}] :
          /\ posts = [i \in Ids |-> IF i <= n THEN [author |-> owner[i], created |-> TRUE]
                                    ELSE None]
          /\ used = 1..n
          /\ write = [w \in Writers |-> IdleWrite]
  BY <1>1
<1>2. n \in Nat /\ n <= MaxId /\ MaxId \in Nat
  BY OrmAssumption
<1>3. \A i \in Ids : i <= n => [author |-> owner[i], created |-> TRUE] \in Rows
  BY <1>2 DEF Ids, Rows
<1>4. posts \in [Ids -> Rows \cup {None}]
  BY <1>0, <1>3
<1>5. used \subseteq Ids
  BY <1>0, <1>2 DEF Ids
<1>6. {i \in Ids : posts[i] # None} \subseteq used
  BY <1>0, <1>2 DEF Ids
<1>7. write \in [Writers -> Held]
  BY <1>0, WritesTyped
<1> QED  BY <1>4, <1>5, <1>6, <1>7 DEF RowsInv

\* What a step does to one row: nothing, or it deletes it, makes it under a new
\* id, or stores a record over it that keeps its time.
RowStep(i) ==
    \/ posts'[i] = posts[i]
    \/ posts'[i] = None
    \/ i \notin used
    \/ posts[i] # None /\ posts'[i] # None /\ posts'[i].created = posts[i].created

LEMMA StepRows ==
    ASSUME RowsInv, [OrmNext]_ormVars
    PROVE  RowsInv' /\ \A i \in Ids : RowStep(i)
<1> USE DEF RowsInv
<1>1. ASSUME UNCHANGED <<posts, used, write>>
      PROVE  RowsInv' /\ \A i \in Ids : RowStep(i)
  BY <1>1 DEF RowStep
<1>2. ASSUME NEW w \in Writers, UNCHANGED <<posts, used>>, NEW c \in Held, SetWrite(w, c)
      PROVE  RowsInv' /\ \A i \in Ids : RowStep(i)
  BY <1>2 DEF RowStep, SetWrite
<1>3. ASSUME NEW w \in Writers, Create(w)
      PROVE  RowsInv' /\ \A i \in Ids : RowStep(i)
  <2>1. PICK i \in Ids \ used, a \in Authors \cup {0} :
            /\ posts' = [posts EXCEPT ![i] = [author |-> a, created |-> TRUE]]
            /\ used' = used \cup {i}
    BY <1>3 DEF Create
  <2>2. [author |-> a, created |-> TRUE] \in Rows
    BY DEF Rows
  <2>3. write' \in [Writers -> Held]
    <3>1. [IdleWrite EXCEPT !.place = "ok"] \in Held
      BY WritesTyped
    <3> QED  BY <1>3, <3>1 DEF Create, SetWrite
  <2>4. posts' \in [Ids -> Rows \cup {None}]
    BY <2>1, <2>2
  <2>5. \A j \in Ids : j # i => posts'[j] = posts[j]
    BY <2>1
  <2> QED  BY <2>1, <2>3, <2>4, <2>5 DEF RowStep
<1>4. ASSUME NEW w \in Writers, NEW i \in Ids, Find(w, i)
      PROVE  RowsInv' /\ \A j \in Ids : RowStep(j)
  <2>1. UNCHANGED <<posts, used>>
    BY <1>4 DEF Find
  <2>2. CASE posts[i] = None
    <3>1. SetWrite(w, [IdleWrite EXCEPT !.place = "error"])
      BY <1>4, <2>2 DEF Find
    <3>2. [IdleWrite EXCEPT !.place = "error"] \in Held
      BY WritesTyped
    <3> QED  BY <1>2, <2>1, <3>1, <3>2
  <2>3. CASE posts[i] # None
    <3>1. posts[i] \in Rows
      BY <2>3
    <3>2. PICK stamp \in {posts[i].created, FALSE} :
             SetWrite(w, [IdleWrite EXCEPT !.place = "update", !.id = i,
                            !.record = [posts[i] EXCEPT !.created = stamp]])
      BY <1>4, <2>3 DEF Find
    <3>3. [posts[i] EXCEPT !.created = stamp] \in Rows
      BY <3>1 DEF Rows
    <3>4. [IdleWrite EXCEPT !.place = "update", !.id = i,
                            !.record = [posts[i] EXCEPT !.created = stamp]] \in Held
      BY <3>3 DEF IdleWrite, Writes, Held
    <3> QED  BY <1>2, <2>1, <3>2, <3>4
  <2> QED  BY <2>2, <2>3
<1>5. ASSUME NEW w \in Writers, NEW i \in Ids, FindToDelete(w, i)
      PROVE  RowsInv' /\ \A j \in Ids : RowStep(j)
  <2>1. /\ [IdleWrite EXCEPT !.place = "error"] \in Held
        /\ [IdleWrite EXCEPT !.place = "delete", !.id = i] \in Held
    BY DEF IdleWrite, Writes, Held
  <2> QED  BY <1>2, <1>5, <2>1 DEF FindToDelete
<1>6. ASSUME NEW w \in Writers, NoKey(w) \/ WriteFails(w)
      PROVE  RowsInv' /\ \A j \in Ids : RowStep(j)
  <2>1. [IdleWrite EXCEPT !.place = "error"] \in Held
    BY WritesTyped
  <2> QED  BY <1>2, <1>6, <2>1 DEF NoKey, WriteFails
<1>7. ASSUME NEW w \in Writers, Update(w)
      PROVE  RowsInv' /\ \A j \in Ids : RowStep(j)
  <2> DEFINE k == write[w].id
  <2>0. k \in Ids /\ write[w].record \in Rows
    BY <1>7 DEF Update, WriteAt, Held
  <2>1. PICK a \in Authors \cup {0} :
            posts' = [posts EXCEPT ![k] =
                         Store(posts[k], [write[w].record EXCEPT !.author = a])]
    BY <1>7 DEF Update
  <2>2. [write[w].record EXCEPT !.author = a] \in Rows
    BY <2>0 DEF Rows
  <2>3. /\ posts'[k] \in Rows \cup {None}
        /\ posts[k] = None <=> posts'[k] = None
        /\ posts[k] # None => posts'[k].created = posts[k].created
    BY <2>0, <2>1, <2>2, StoreType
  <2>4. \A j \in Ids : j # k => posts'[j] = posts[j]
    BY <2>1
  <2>5. posts' \in [Ids -> Rows \cup {None}]
    BY <2>0, <2>1, <2>3
  <2>6. UNCHANGED used
    BY <1>7 DEF Update
  <2>7. write' \in [Writers -> Held]
    <3>1. /\ [IdleWrite EXCEPT !.place = "ok"] \in Held
          /\ [IdleWrite EXCEPT !.place = "error"] \in Held
      BY WritesTyped
    <3> QED  BY <1>7, <3>1 DEF Update, SetWrite
  <2> QED  BY <2>0, <2>3, <2>4, <2>5, <2>6, <2>7 DEF RowStep
<1>8. ASSUME NEW w \in Writers, Delete(w)
      PROVE  RowsInv' /\ \A j \in Ids : RowStep(j)
  <2>1. /\ posts' = [posts EXCEPT ![write[w].id] = None]
        /\ UNCHANGED used
    BY <1>8 DEF Delete
  <2>2. write' \in [Writers -> Held]
    <3>1. /\ [IdleWrite EXCEPT !.place = "ok"] \in Held
          /\ [IdleWrite EXCEPT !.place = "error"] \in Held
      BY WritesTyped
    <3> QED  BY <1>8, <3>1 DEF Delete, SetWrite
  <2>3. \A j \in Ids : posts'[j] = posts[j] \/ posts'[j] = None
    BY <2>1
  <2> QED  BY <2>1, <2>2, <2>3 DEF RowStep
<1>9. ASSUME NEW a \in Authors, DeleteAuthor(a)
       PROVE  RowsInv' /\ \A j \in Ids : RowStep(j)
  BY <1>1, <1>9 DEF DeleteAuthor
<1>10. ASSUME NEW r \in Readers,
              \/ \E n \in PerPages : StartWalk(r, n) \/ \E p \in Pages : AskPage(r, p, n)
              \/ Count(r) \/ FirstPage(r) \/ NextPage(r)
              \/ LoadAuthors(r) \/ LoadOthers(r)
              \/ ReadFails(r)
       PROVE  UNCHANGED <<posts, used, write>>
  BY <1>10 DEF StartWalk, AskPage, Count, FirstPage, NextPage, LoadAuthors, LoadOthers,
               ReadFails, SetRead
<1>11. CASE UNCHANGED ormVars
  BY <1>1, <1>11 DEF ormVars
<1>12. CASE OrmNext
  BY <1>1, <1>3, <1>4, <1>5, <1>6, <1>7, <1>8, <1>9, <1>10, <1>12 DEF OrmNext
<1> QED  BY <1>11, <1>12

\* Every row has an id that was given, and every writer holds what it needs.
THEOREM RowsInvHolds == OrmSpec => []RowsInv
<1>1. OrmInit => RowsInv
  BY InitRowsInv
<1>2. RowsInv /\ [OrmNext]_ormVars => RowsInv'
  BY StepRows
<1> QED  BY <1>1, <1>2, PTL DEF OrmSpec

\* No write loses the time a row was created or brings a deleted row back
\* (crud.go:82-217), for any numbers of writers and rows.
THEOREM RowsAreKept == OrmSpec => RowsKept
<1>1. RowsInv /\ [OrmNext]_ormVars =>
        [\A i \in Ids :
          /\ posts[i] # None /\ posts'[i] # None => posts'[i].created = posts[i].created
          /\ posts[i] = None /\ i \in used => posts'[i] = None]_ormVars
  <2> SUFFICES ASSUME RowsInv, [OrmNext]_ormVars, NEW i \in Ids
               PROVE  /\ posts[i] # None /\ posts'[i] # None
                           => posts'[i].created = posts[i].created
                      /\ posts[i] = None /\ i \in used => posts'[i] = None
    OBVIOUS
  <2>1. RowStep(i)
    BY StepRows
  <2>2. posts[i] # None => i \in used
    BY DEF RowsInv
  <2> QED  BY <2>1, <2>2 DEF RowStep
<1> QED  BY <1>1, RowsInvHolds, PTL DEF OrmSpec, RowsKept

-----------------------------------------------------------------------------
(* Rows in descending order. *)

Rank(i, rows) == Cardinality(Before(i, rows))
\* The first f rows.
Top(rows, f) == {i \in rows : Rank(i, rows) < f}

LEMMA IdsFinite == ASSUME NEW rows \in SUBSET Ids PROVE IsFiniteSet(rows)
<1>1. MaxId \in Int
  BY OrmAssumption
<1>2. IsFiniteSet(Ids)
  BY <1>1, FS_Interval DEF Ids
<1> QED  BY <1>2, FS_Subset

LEMMA BeforeFinite ==
    ASSUME NEW rows \in SUBSET Ids, NEW i
    PROVE  IsFiniteSet(Before(i, rows)) /\ Rank(i, rows) \in Nat
BY IdsFinite, FS_CardinalityType DEF Before, Rank

\* A row with more rows before it is further down.
LEMMA RankOrder ==
    ASSUME NEW rows \in SUBSET Ids, NEW i \in rows, NEW j \in rows, i < j
    PROVE  Rank(j, rows) < Rank(i, rows)
<1>1. Before(j, rows) \subseteq Before(i, rows) \ {j}
  <2>1. rows \subseteq Int
    BY OrmAssumption DEF Ids
  <2>2. \A k \in rows : k > j => k > i /\ k # j
    BY <2>1
  <2> QED  BY <2>2 DEF Before
<1>2. IsFiniteSet(Before(i, rows)) /\ IsFiniteSet(Before(j, rows))
  BY BeforeFinite
<1>3. j \in Before(i, rows)
  BY DEF Before
<1>4. Cardinality(Before(i, rows) \ {j}) = Rank(i, rows) - 1
      /\ IsFiniteSet(Before(i, rows) \ {j})
  BY <1>2, <1>3, FS_RemoveElement DEF Rank
<1>5. Rank(j, rows) <= Cardinality(Before(i, rows) \ {j})
  BY <1>1, <1>4, FS_Subset DEF Rank
<1> QED  BY <1>4, <1>5, BeforeFinite

LEMMA RankUnique ==
    ASSUME NEW rows \in SUBSET Ids, NEW i \in rows, NEW j \in rows,
           Rank(i, rows) = Rank(j, rows)
    PROVE  i = j
<1>1. i \in Int /\ j \in Int
  BY OrmAssumption DEF Ids
<1>2. Rank(i, rows) \in Nat
  BY BeforeFinite
<1>3. CASE i < j
  BY <1>2, <1>3, RankOrder
<1>4. CASE j < i
  BY <1>2, <1>4, RankOrder
<1> QED  BY <1>1, <1>3, <1>4

LEMMA RankBound ==
    ASSUME NEW rows \in SUBSET Ids, NEW i \in rows
    PROVE  Rank(i, rows) \in 0..(Cardinality(rows) - 1)
<1>1. IsFiniteSet(rows)
  BY IdsFinite
<1>2. i \notin Before(i, rows) /\ Before(i, rows) \subseteq rows \ {i}
  BY OrmAssumption DEF Before, Ids
<1>3. Cardinality(rows \ {i}) = Cardinality(rows) - 1 /\ IsFiniteSet(rows \ {i})
  BY <1>1, FS_RemoveElement
<1>4. Rank(i, rows) <= Cardinality(rows) - 1
  BY <1>2, <1>3, FS_Subset DEF Rank
<1> QED  BY <1>1, <1>4, BeforeFinite, FS_CardinalityType

\* Rows of different ranks in an interval are no more than it is long.
LEMMA RanksCount ==
    ASSUME NEW rows \in SUBSET Ids, NEW a \in Nat, NEW b \in Nat,
           NEW some \in SUBSET rows, \A i \in some : Rank(i, rows) \in a..(b - 1)
    PROVE  Cardinality(some) <= IF b > a THEN b - a ELSE 0
<1> DEFINE f == [i \in some |-> Rank(i, rows)]
<1>1. f \in Injection(some, a..(b - 1))
  BY RankUnique DEF Injection, IsInjective
<1>2. IsFiniteSet(a..(b - 1))
      /\ Cardinality(a..(b - 1)) = IF a > b - 1 THEN 0 ELSE b - 1 - a + 1
  BY FS_Interval
<1>3. Cardinality(some) <= Cardinality(a..(b - 1))
  BY <1>1, <1>2, FS_Injection
<1>4. IsFiniteSet(some)
  BY IdsFinite
<1>5. Cardinality(some) \in Nat
  BY <1>4, FS_CardinalityType
<1> HIDE DEF f
<1> QED  BY <1>2, <1>3, <1>5

\* Every rank below the number of rows is some row's.
LEMMA RanksAll ==
    ASSUME NEW rows \in SUBSET Ids, NEW k \in 0..(Cardinality(rows) - 1)
    PROVE  \E i \in rows : Rank(i, rows) = k
<1> DEFINE n == Cardinality(rows)
           f == [i \in rows |-> Rank(i, rows)]
<1>1. IsFiniteSet(rows) /\ n \in Nat
  BY IdsFinite, FS_CardinalityType
<1>2. f \in Injection(rows, 0..(n - 1))
  BY RankUnique, RankBound DEF Injection, IsInjective
<1>3. IsFiniteSet(0..(n - 1)) /\ Cardinality(0..(n - 1)) = n
  BY <1>1, FS_Interval
<1>4. f \in Surjection(rows, 0..(n - 1))
  BY <1>2, <1>3, FS_Injection
<1> QED  BY <1>4 DEF Surjection

\* Descending lists every row once, by rank.
LEMMA DescendingIs ==
    ASSUME NEW rows \in SUBSET Ids
    PROVE  /\ Descending(rows) \in Seq(rows)
           /\ Len(Descending(rows)) = Cardinality(rows)
           /\ \A k \in 1..Cardinality(rows) : Rank(Descending(rows)[k], rows) = k - 1
           /\ \A i \in rows : Descending(rows)[Rank(i, rows) + 1] = i
<1> DEFINE n == Cardinality(rows)
           d == Descending(rows)
<1>1. n \in Nat
  BY IdsFinite, FS_CardinalityType
<1>2. \A k \in 1..n : d[k] \in rows /\ Rank(d[k], rows) = k - 1
  <2> SUFFICES ASSUME NEW k \in 1..n PROVE d[k] \in rows /\ Rank(d[k], rows) = k - 1
    OBVIOUS
  <2>1. k - 1 \in 0..(n - 1)
    BY <1>1
  <2>2. \E i \in rows : Cardinality(Before(i, rows)) = k - 1
    BY <2>1, RanksAll DEF Rank
  <2>3. d[k] = CHOOSE i \in rows : Cardinality(Before(i, rows)) = k - 1
    BY DEF Descending
  <2> QED  BY <2>2, <2>3 DEF Rank
<1>3. DOMAIN d = 1..n
  BY DEF Descending
<1>4. d \in Seq(rows) /\ Len(d) = n
  <2>1. d = [k \in 1..n |-> CHOOSE i \in rows : Cardinality(Before(i, rows)) = k - 1]
    BY DEF Descending
  <2>2. d \in [1..n -> rows]
    BY <1>2, <2>1
  <2> HIDE DEF d
  <2> QED  BY <1>1, <2>2
<1>5. \A i \in rows : d[Rank(i, rows) + 1] = i
  <2> SUFFICES ASSUME NEW i \in rows PROVE d[Rank(i, rows) + 1] = i
    OBVIOUS
  <2>1. Rank(i, rows) \in 0..(n - 1)
    BY RankBound
  <2>2. PICK k \in 1..n : k = Rank(i, rows) + 1
    BY <1>1, <2>1
  <2>3. k - 1 = Rank(i, rows)
    BY <2>1, <2>2
  <2>4. Rank(d[k], rows) = Rank(i, rows) /\ d[k] \in rows
    BY <1>2, <2>3
  <2>5. d[k] = i
    BY <2>4, RankUnique
  <2> QED  BY <2>2, <2>5
<1> QED  BY <1>2, <1>4, <1>5

\* Making a row, or deleting it, moves at most one other over a given line.
LEMMA TopMoves ==
    ASSUME NEW rows \in SUBSET Ids, NEW x \in Ids \ rows, NEW f \in Nat
    PROVE  LET more == rows \cup {x} IN
           /\ Top(more, f) \ {x} \subseteq Top(rows, f)
           /\ Cardinality(Top(rows, f) \ Top(more, f)) <= 1
           /\ IsFiniteSet(Top(rows, f) \ Top(more, f))
<1> DEFINE more == rows \cup {x}
<1>0. more \in SUBSET Ids
  OBVIOUS
<1>1. \A i \in rows : Rank(i, more) \in {Rank(i, rows), Rank(i, rows) + 1}
  <2> SUFFICES ASSUME NEW i \in rows PROVE Rank(i, more) \in {Rank(i, rows), Rank(i, rows) + 1}
    OBVIOUS
  <2>1. IsFiniteSet(Before(i, rows)) /\ x \notin Before(i, rows)
    BY BeforeFinite DEF Before
  <2>2. Before(i, more) \in {Before(i, rows), Before(i, rows) \cup {x}}
    BY DEF Before
  <2>3. Cardinality(Before(i, rows) \cup {x}) = Cardinality(Before(i, rows)) + 1
    BY <2>1, FS_AddElement
  <2> QED  BY <2>2, <2>3 DEF Rank
<1>2. \A i \in rows : Rank(i, rows) \in Nat
  BY BeforeFinite
<1>3. Top(more, f) \ {x} \subseteq Top(rows, f)
  BY <1>1, <1>2 DEF Top
<1> DEFINE out == Top(rows, f) \ Top(more, f)
<1>4. \A i \in out : i \in rows /\ Rank(i, rows) \in (f - 1)..(f - 1) /\ f >= 1
  BY <1>1, <1>2 DEF Top
<1>5. Cardinality(out) <= 1
  <2>1. CASE out = {}
    BY <2>1, FS_EmptySet
  <2>2. CASE out # {}
    <3>1. f - 1 \in Nat /\ f \in Nat
      BY <1>4, <2>2
    <3>2. out \in SUBSET rows
      BY <1>4
    <3>3. \A i \in out : Rank(i, rows) \in (f - 1)..(f - 1)
      BY <1>4
    <3> HIDE DEF out
    <3>4. Cardinality(out) <= IF f > f - 1 THEN f - (f - 1) ELSE 0
      BY <3>1, <3>2, <3>3, RanksCount
    <3> QED  BY <3>4
  <2> QED  BY <2>1, <2>2
<1>6. IsFiniteSet(out)
  BY IdsFinite DEF Top
<1> QED  BY <1>3, <1>5, <1>6
-----------------------------------------------------------------------------
(* Pages. *)

LEMMA WrapIs == ASSUME NEW n \in Nat, n < IntLimit PROVE Wrap(n) = n
<1>1. IntLimit \in Nat \ {0}
  BY OrmAssumption
<1>2. (n + IntLimit) % (2 * IntLimit) = n + IntLimit
  BY <1>1
<1> QED  BY <1>1, <1>2 DEF Wrap

\* The pages are enough for all rows, and without the last they are not.
LEMMA TotalPagesIs ==
    ASSUME NEW total \in Nat, NEW n \in Nat \ {0}
    PROVE  /\ TotalPages(total, n) \in Nat
           /\ TotalPages(total, n) * n >= total
           /\ TotalPages(total, n) * n < total + n
<1> DEFINE t == (total + n - 1) \div n
           m == (total + n - 1) % n
<1>1. t \in Nat /\ m \in 0..(n - 1) /\ total + n - 1 = n * t + m
  OBVIOUS
<1> HIDE DEF t, m
<1>2. t * n = n * t /\ n * t \in Nat
  BY <1>1
<1>3. t * n >= total /\ t * n < total + n
  BY <1>1, <1>2
<1> QED  BY <1>1, <1>3 DEF TotalPages, t

LEMMA PagesOrder ==
    ASSUME NEW a \in Nat, NEW b \in Nat, NEW n \in Nat, a <= b
    PROVE  a * n <= b * n
OBVIOUS

LEMMA PagePastLast ==
    ASSUME NEW total \in Nat, NEW n \in Nat \ {0}, NEW p \in Nat, p >= TotalPages(total, n)
    PROVE  p * n >= total
<1>1. TotalPages(total, n) * n >= total /\ TotalPages(total, n) \in Nat
  BY TotalPagesIs
<1>2. TotalPages(total, n) * n <= p * n
  BY <1>1, PagesOrder
<1>3. p * n \in Nat /\ TotalPages(total, n) * n \in Nat
  BY <1>1
<1> QED  BY <1>1, <1>2, <1>3

LEMMA PageNotLast ==
    ASSUME NEW total \in Nat, NEW n \in Nat \ {0}, NEW p \in Nat, p < TotalPages(total, n)
    PROVE  p * n < total
<1> DEFINE t == TotalPages(total, n)
<1>1. t * n < total + n /\ t \in Nat
  BY TotalPagesIs
<1> HIDE DEF t
<1>2. p < t
  BY DEF t
<1>3. (p + 1) * n <= t * n
  BY <1>1, <1>2, PagesOrder
<1>4. (p + 1) * n = p * n + n /\ p * n \in Nat /\ t * n \in Nat
  BY <1>1
<1> QED  BY <1>1, <1>3, <1>4

\* What Paginate's second statement returns: the rows of the window, each once.
LEMMA PageIs ==
    ASSUME posts \in [Ids -> Rows \cup {None}], NEW n \in Nat, NEW o \in Int,
           Get([Query EXCEPT !.limit = n, !.offset = o]) # None
    PROVE  LET page == Get([Query EXCEPT !.limit = n, !.offset = o]) IN
           /\ o \in Nat
           /\ page \in Seq(Here)
           /\ Len(page) = Cardinality(ToSet(page))
           /\ ToSet(page) = Top(Here, o + n) \ Top(Here, o)
           /\ o >= Cardinality(Here) => page = <<>>
<1> DEFINE q == [Query EXCEPT !.limit = n, !.offset = o]
           all == Descending(Here)
           rest == SubSeq(all, o + 1, Len(all))
           page == SubSeq(rest, 1, Min2(n, Len(rest)))
           c == Cardinality(Here)
<1>1. q.where = {} /\ q.limit = n /\ q.offset = o
  BY DEF Query
<1>2. {i \in Here : Matches(i, q)} = Here
  BY <1>1 DEF Matches
<1>3. n # NoLimit
  BY DEF NoLimit
<1>4. Get(q) = page /\ o \in Nat
  <2>1. Get(q) = IF o < 0 \/ TooMany(page) THEN None ELSE page
    <3> HIDE DEF q
    <3>1. Get(q) =
             LET r == SubSeq(Descending(Here), q.offset + 1, Len(Descending(Here)))
                 w == IF q.limit = NoLimit THEN r ELSE SubSeq(r, 1, Min2(q.limit, Len(r)))
             IN IF q.offset < 0 \/ TooMany(w) THEN None ELSE w
      BY <1>2 DEF Get
    <3> QED  BY <1>1, <1>3, <3>1
  <2>2. Get(q) # None
    OBVIOUS
  <2> HIDE DEF q, page
  <2> QED  BY <2>1, <2>2
<1>5. Here \in SUBSET Ids
  BY DEF Here
<1>6. /\ all \in Seq(Here) /\ Len(all) = c /\ c \in Nat
      /\ \A k \in 1..c : all[k] \in Here /\ Rank(all[k], Here) = k - 1
      /\ \A i \in Here : all[Rank(i, Here) + 1] = i
  BY <1>5, DescendingIs, IdsFinite, FS_CardinalityType
<1> HIDE DEF all, q
<1> DEFINE len == IF o + 1 <= c THEN c - (o + 1) + 1 ELSE 0
<1>7. /\ rest \in Seq(Here) /\ Len(rest) = len /\ len \in Nat
      /\ \A k \in 1..len : rest[k] = all[o + k]
  <2>1. \A i \in (o + 1)..c : all[i] \in Here
    BY <1>4, <1>6
  <2>2. /\ SubSeq(all, o + 1, c) \in Seq(Here)
        /\ Len(SubSeq(all, o + 1, c)) = len
        /\ \A k \in 1 .. c - (o + 1) + 1 : SubSeq(all, o + 1, c)[k] = all[o + 1 + k - 1]
    BY <2>1, <1>4, <1>6, SubSeqProperties
  <2>3. len \in Nat
    BY <1>4, <1>6
  <2>4. \A k \in 1..len : k \in 1 .. c - (o + 1) + 1 /\ o + 1 + k - 1 = o + k
    <3> HIDE DEF c
    <3> QED  BY <1>4, <1>6
  <2> QED  BY <2>2, <2>3, <2>4, <1>6
<1> HIDE DEF rest
<1> DEFINE m == IF n < len THEN n ELSE len
<1>8. /\ page \in Seq(Here) /\ Len(page) = m /\ m \in Nat
      /\ \A k \in 1..m : page[k] = all[o + k]
  <2>1. Min2(n, Len(rest)) = m /\ m \in Nat /\ m <= len
    BY <1>7 DEF Min2
  <2>2. \A i \in 1..m : rest[i] \in Here
    BY <1>7, <2>1
  <2> HIDE DEF m, len
  <2>3. /\ SubSeq(rest, 1, m) \in Seq(Here)
        /\ Len(SubSeq(rest, 1, m)) = IF 1 <= m THEN m - 1 + 1 ELSE 0
        /\ \A k \in 1 .. m - 1 + 1 : SubSeq(rest, 1, m)[k] = rest[1 + k - 1]
    BY <2>1, <2>2, SubSeqProperties
  <2>4. \A k \in 1..m : k \in 1 .. m - 1 + 1 /\ 1 + k - 1 = k /\ k \in 1..len
    BY <1>7, <2>1
  <2>5. Len(SubSeq(rest, 1, m)) = m
    BY <2>1, <2>3
  <2>6. page = SubSeq(rest, 1, m)
    BY <2>1
  <2> HIDE DEF page
  <2> QED  BY <1>7, <2>1, <2>3, <2>4, <2>5, <2>6
<1> HIDE DEF page
<1>9. ToSet(page) = {page[k] : k \in 1..m} /\ DOMAIN page = 1..m
  BY <1>8 DEF ToSet
<1>10. \A k \in 1..m : o + k \in 1..c /\ o + k <= o + n /\ Rank(page[k], Here) = o + k - 1
  BY <1>4, <1>6, <1>8
<1>11. ToSet(page) = Top(Here, o + n) \ Top(Here, o)
  <2>1. ASSUME NEW k \in 1..m
        PROVE  page[k] \in Top(Here, o + n) \ Top(Here, o)
    <3>1. page[k] \in Here
      BY <1>6, <1>8, <1>10
    <3> QED  BY <1>4, <1>10, <3>1 DEF Top
  <2>2. ASSUME NEW i \in Top(Here, o + n) \ Top(Here, o)
        PROVE  \E k \in 1..m : page[k] = i
    <3>1. i \in Here /\ Rank(i, Here) < o + n /\ ~(Rank(i, Here) < o)
      BY <2>2 DEF Top
    <3>2. Rank(i, Here) \in 0..(c - 1)
      BY <1>5, <3>1, RankBound
    <3>3. PICK k \in 1..m : o + k = Rank(i, Here) + 1
      <4> DEFINE k == Rank(i, Here) + 1 - o
      <4>1. k \in 1..m /\ o + k = Rank(i, Here) + 1
        BY <1>4, <1>6, <3>1, <3>2
      <4> QED  BY <4>1
    <3>4. all[Rank(i, Here) + 1] = i
      BY <1>6, <3>1
    <3>5. page[k] = all[o + k]
      BY <1>8
    <3> QED  BY <3>3, <3>4, <3>5
  <2> QED  BY <1>9, <2>1, <2>2
<1>12. Len(page) = Cardinality(ToSet(page))
  <2> DEFINE f == [k \in 1..m |-> page[k]]
  <2>1. \A j, k \in 1..m : page[j] = page[k] => j = k
    BY <1>4, <1>10
  <2>2. f \in Bijection(1..m, ToSet(page))
    BY <1>9, <2>1 DEF Bijection, Injection, Surjection, IsInjective
  <2>3. ExistsBijection(1..m, ToSet(page))
    BY <2>2 DEF ExistsBijection
  <2> HIDE DEF m
  <2>4. IsFiniteSet(1..m) /\ Cardinality(1..m) = m
    <3>1. m \in Nat
      BY <1>8
    <3>2. 1 \in Int /\ m \in Int
      BY <3>1
    <3>3. IsFiniteSet(1..m) /\ Cardinality(1..m) = IF 1 > m THEN 0 ELSE m - 1 + 1
      BY ONLY <3>2, FS_Interval
    <3> QED  BY <3>1, <3>3
  <2> QED  BY <1>8, <2>3, <2>4, FS_Bijection
<1>13. o >= c => page = <<>>
  BY <1>4, <1>6, <1>8
<1> QED  BY <1>4, <1>8, <1>11, <1>12, <1>13 DEF q
-----------------------------------------------------------------------------
(* A client's walk over the pages, against the rows there are. *)

Walks(c) == c.walking /\ c.place \in {"count", "get", "listed"}
\* The rows that its pages have passed.
Passed(c) == (IF c.place = "listed" THEN c.page ELSE c.page - 1) * c.perPage
Unseen(c, rows) == (c.walk.start \cap rows) \ ToSet(c.walk.seen)
\* Seen, and below the line, so that a page may show it once more.
Again(c, rows) == (ToSet(c.walk.seen) \cap rows) \ Top(rows, Passed(c))
Repeats(c) == Len(c.walk.seen) - Cardinality(ToSet(c.walk.seen))

\* Rows above the line that were not seen came there by a deletion; rows below it that
\* were seen, and those seen twice, by a creation.
LineInv(c, rows) ==
    Walks(c) =>
       /\ Cardinality(Unseen(c, rows) \cap Top(rows, Passed(c))) <= c.walk.gone
       /\ Repeats(c) + Cardinality(Again(c, rows)) <= c.walk.made
       /\ (c.page - 1) * c.perPage < IntLimit
\* What is left below the line is what was counted and not passed, or came late.
RestInv(c, rows) ==
    Walks(c) /\ c.place = "listed" =>
       \/ Cardinality(Unseen(c, rows)) <= c.walk.gone + c.walk.late
       \/ Cardinality(Unseen(c, rows)) <= c.walk.gone + c.walk.late + c.total - Passed(c)
\* Count's answer is too small only by what came since.
CountInv(c, rows) == c.place = "get" => Cardinality(rows) <= c.total + c.walk.late
EndInv(c, rows) ==
    c.walking /\ c.place = "done" =>
       /\ Cardinality(Unseen(c, rows)) <= c.walk.gone + c.walk.late
       /\ Repeats(c) <= c.walk.made
FarInv(c) ==
    /\ c.place = "listed" /\ c.page > TotalPages(c.total, c.perPage)
    /\ (c.page - 1) * c.perPage < IntLimit /\ c.walk.late = 0
    => c.data = <<>>
ReadInv(c, rows, ids) ==
    /\ c \in Reads
    /\ c.page > 0 /\ c.perPage > 0 /\ c.total <= MaxId
    /\ c.walking => c.data = <<>> /\ c.place # "authors"
    /\ c.walk.start \cup ToSet(c.walk.seen) \subseteq ids
    /\ LineInv(c, rows) /\ RestInv(c, rows) /\ CountInv(c, rows) /\ EndInv(c, rows)
    /\ FarInv(c)

OrmInv ==
    /\ RowsInv
    /\ authors \subseteq Authors
    /\ read \in [Readers -> Reads]
    /\ \A r \in Readers : ReadInv(read[r], Here, used)

\* The sizes compared above are numbers.
LEMMA WalkSizes ==
    ASSUME NEW c \in Reads, NEW rows \in SUBSET Ids
    PROVE  /\ ToSet(c.walk.seen) \in SUBSET Ids /\ IsFiniteSet(ToSet(c.walk.seen))
           /\ Len(c.walk.seen) \in Nat /\ Cardinality(ToSet(c.walk.seen)) \in Nat
           /\ Repeats(c) \in Int
           /\ Unseen(c, rows) \in SUBSET rows /\ Again(c, rows) \in SUBSET rows
           /\ Cardinality(Unseen(c, rows)) \in Nat /\ Cardinality(Again(c, rows)) \in Nat
           /\ \A f : Cardinality(Unseen(c, rows) \cap Top(rows, f)) \in Nat
           /\ c.walk.made \in Nat /\ c.walk.gone \in Nat /\ c.walk.late \in Nat
           /\ c.total \in Nat /\ c.page \in Nat /\ c.perPage \in Nat
<1>1. /\ c.walk.seen \in Seq(Ids) /\ c.walk.start \in SUBSET Ids
      /\ c.walk.made \in Nat /\ c.walk.gone \in Nat /\ c.walk.late \in Nat
      /\ c.total \in Nat /\ c.page \in Nat /\ c.perPage \in Nat
  BY DEF Reads, Walk
<1>2. ToSet(c.walk.seen) \in SUBSET Ids /\ Len(c.walk.seen) \in Nat
  BY <1>1 DEF ToSet
<1>3. IsFiniteSet(ToSet(c.walk.seen)) /\ Cardinality(ToSet(c.walk.seen)) \in Nat
  BY <1>2, IdsFinite, FS_CardinalityType
<1>4. Unseen(c, rows) \in SUBSET rows /\ Again(c, rows) \in SUBSET rows
  BY DEF Unseen, Again
<1>5. \A some \in SUBSET rows : Cardinality(some) \in Nat
  BY IdsFinite, FS_CardinalityType
<1>6. \A f : Unseen(c, rows) \cap Top(rows, f) \in SUBSET rows
  BY <1>4
<1> QED  BY <1>1, <1>2, <1>3, <1>4, <1>5, <1>6 DEF Repeats

LEMMA PassedNat ==
    ASSUME NEW c, NEW rows, NEW ids, ReadInv(c, rows, ids)
    PROVE  Passed(c) \in Nat /\ c.page \in Nat \ {0} /\ c.perPage \in Nat \ {0}
<1>1. c \in Reads /\ c.page > 0 /\ c.perPage > 0
  BY DEF ReadInv
<1>2. c.page \in Nat \ {0} /\ c.perPage \in Nat \ {0}
  BY <1>1 DEF Reads
<1>3. c.page * c.perPage \in Nat /\ (c.page - 1) * c.perPage \in Nat
  BY <1>2
<1> QED  BY <1>2, <1>3 DEF Passed

\* A subset is no larger, and two sets together no larger than their sum.
LEMMA Fewer ==
    ASSUME NEW S \in SUBSET Ids, NEW T \in SUBSET S
    PROVE  Cardinality(T) <= Cardinality(S) /\ Cardinality(S) \in Nat /\ Cardinality(T) \in Nat
BY IdsFinite, FS_Subset, FS_CardinalityType

LEMMA Together ==
    ASSUME NEW S \in SUBSET Ids, NEW T \in SUBSET Ids, NEW R \in SUBSET (S \cup T)
    PROVE  /\ Cardinality(R) <= Cardinality(S) + Cardinality(T)
           /\ Cardinality(R) \in Nat /\ Cardinality(S) \in Nat /\ Cardinality(T) \in Nat
<1>1. IsFiniteSet(S) /\ IsFiniteSet(T) /\ IsFiniteSet(S \cup T) /\ IsFiniteSet(S \cap T)
  BY IdsFinite
<1>2. Cardinality(S \cup T) = Cardinality(S) + Cardinality(T) - Cardinality(S \cap T)
  BY <1>1, FS_Union
<1>3. Cardinality(R) <= Cardinality(S \cup T) /\ Cardinality(R) \in Nat
  BY Fewer
<1>4. /\ Cardinality(S \cap T) \in Nat /\ Cardinality(S) \in Nat /\ Cardinality(T) \in Nat
      /\ Cardinality(S \cup T) \in Nat
  BY <1>1, FS_CardinalityType
<1> QED  BY <1>2, <1>3, <1>4

LEMMA Apart ==
    ASSUME NEW S \in SUBSET Ids, NEW T \in SUBSET Ids, S \cap T = {}
    PROVE  /\ Cardinality(S \cup T) = Cardinality(S) + Cardinality(T)
           /\ Cardinality(S) \in Nat /\ Cardinality(T) \in Nat
<1>1. IsFiniteSet(S) /\ IsFiniteSet(T)
  BY IdsFinite
<1>2. Cardinality(S) \in Nat /\ Cardinality(T) \in Nat
  BY <1>1, FS_CardinalityType
<1>3. Cardinality(S \cap T) = 0
  BY FS_EmptySet
<1>4. Cardinality(S \cup T) = Cardinality(S) + Cardinality(T) - Cardinality(S \cap T)
  BY <1>1, FS_Union
<1> QED  BY <1>2, <1>3, <1>4

\* A walk begins above all rows.
LEMMA NothingPassed ==
    ASSUME NEW rows \in SUBSET Ids
    PROVE  Top(rows, 0) = {}
BY BeforeFinite DEF Top

\* A row is made under an id that is new, for every client.
MadeRead(c) ==
    [c EXCEPT !.walk.made = IF c.walking /\ c.place \in {"count", "get", "listed"}
                            THEN @ + 1 ELSE @,
              !.walk.late = IF c.place = "get" THEN @ + 1 ELSE @]

LEMMA MadeKept ==
    ASSUME NEW rows \in SUBSET Ids, NEW ids \in SUBSET Ids, rows \subseteq ids,
           NEW c, ReadInv(c, rows, ids), NEW x \in Ids \ ids
    PROVE  ReadInv(MadeRead(c), rows \cup {x}, ids \cup {x})
<1> DEFINE d == MadeRead(c)
           more == rows \cup {x}
           f == Passed(c)
<1>0. c \in Reads /\ more \in SUBSET Ids
  BY DEF ReadInv
<1>1. /\ d \in Reads
      /\ d.place = c.place /\ d.walking = c.walking /\ d.page = c.page
      /\ d.perPage = c.perPage /\ d.total = c.total /\ d.data = c.data
      /\ d.walk.start = c.walk.start /\ d.walk.seen = c.walk.seen
      /\ d.walk.gone = c.walk.gone
      /\ d.walk.made = IF Walks(c) THEN c.walk.made + 1 ELSE c.walk.made
      /\ d.walk.late = IF c.place = "get" THEN c.walk.late + 1 ELSE c.walk.late
  <2> DEFINE m == IF Walks(c) THEN c.walk.made + 1 ELSE c.walk.made
             l == IF c.place = "get" THEN c.walk.late + 1 ELSE c.walk.late
  <2>1. m \in Nat /\ l \in Nat
    BY <1>0, WalkSizes
  <2>2. d = [c EXCEPT !.walk.made = m, !.walk.late = l]
    BY <1>0 DEF MadeRead, Walks, Reads, Walk
  <2> HIDE DEF m, l, d
  <2>3. d \in Reads
    BY <1>0, <2>1, <2>2 DEF Reads, Walk
  <2>4. /\ d.place = c.place /\ d.walking = c.walking /\ d.page = c.page
        /\ d.perPage = c.perPage /\ d.total = c.total /\ d.data = c.data
    BY <1>0, <2>2 DEF Reads, Walk
  <2>5. /\ d.walk.start = c.walk.start /\ d.walk.seen = c.walk.seen
        /\ d.walk.gone = c.walk.gone /\ d.walk.made = m /\ d.walk.late = l
    BY <1>0, <2>2 DEF Reads, Walk
  <2> QED  BY <2>3, <2>4, <2>5 DEF m, l
<1> HIDE DEF d
<1>2. Walks(d) = Walks(c) /\ Passed(d) = f /\ Repeats(d) = Repeats(c)
  BY <1>1 DEF Walks, Passed, Repeats
<1>3. Unseen(d, more) = Unseen(c, rows) /\ x \notin Unseen(c, rows)
  BY <1>1 DEF Unseen, ReadInv
<1>4. /\ f \in Nat /\ c.page \in Nat /\ c.perPage \in Nat
  BY <1>0, PassedNat
<1>5. /\ Top(more, f) \ {x} \subseteq Top(rows, f)
      /\ Cardinality(Top(rows, f) \ Top(more, f)) <= 1
  <2>1. x \in Ids \ rows
    OBVIOUS
  <2> QED  BY <1>4, <2>1, TopMoves
<1> HIDE DEF f
<1>6. LineInv(d, more)
  <2> SUFFICES ASSUME Walks(c)
               PROVE  /\ Cardinality(Unseen(c, rows) \cap Top(more, f)) <= c.walk.gone
                      /\ Repeats(c) + Cardinality(Again(d, more)) <= c.walk.made + 1
                      /\ (c.page - 1) * c.perPage < IntLimit
    BY <1>1, <1>2, <1>3 DEF LineInv
  <2>1. /\ Cardinality(Unseen(c, rows) \cap Top(rows, f)) <= c.walk.gone
        /\ Repeats(c) + Cardinality(Again(c, rows)) <= c.walk.made
        /\ (c.page - 1) * c.perPage < IntLimit
    BY DEF ReadInv, LineInv, f
  <2>2. Cardinality(Unseen(c, rows) \cap Top(more, f))
           <= Cardinality(Unseen(c, rows) \cap Top(rows, f))
    <3>1. Unseen(c, rows) \cap Top(more, f) \subseteq Unseen(c, rows) \cap Top(rows, f)
      BY <1>3, <1>5
    <3> QED  BY <1>0, <3>1, WalkSizes, Fewer
  <2>3. Cardinality(Again(d, more)) <= Cardinality(Again(c, rows)) + 1
    <3>1. /\ Again(d, more) = (ToSet(c.walk.seen) \cap more) \ Top(more, f)
          /\ Again(c, rows) = (ToSet(c.walk.seen) \cap rows) \ Top(rows, f)
          /\ x \notin ToSet(c.walk.seen)
      BY <1>1, <1>2 DEF Again, ReadInv, f
    <3>2. Again(d, more) \subseteq Again(c, rows) \cup (Top(rows, f) \ Top(more, f))
      BY <3>1
    <3>3. Again(c, rows) \in SUBSET Ids /\ Top(rows, f) \ Top(more, f) \in SUBSET Ids
      BY <3>1 DEF Top
    <3>4. /\ Cardinality(Again(d, more))
                <= Cardinality(Again(c, rows)) + Cardinality(Top(rows, f) \ Top(more, f))
          /\ Cardinality(Again(d, more)) \in Nat /\ Cardinality(Again(c, rows)) \in Nat
          /\ Cardinality(Top(rows, f) \ Top(more, f)) \in Nat
      BY <3>2, <3>3, Together
    <3> QED  BY <1>5, <3>4
  <2>4. /\ Cardinality(Unseen(c, rows) \cap Top(more, f)) \in Nat
        /\ Cardinality(Unseen(c, rows) \cap Top(rows, f)) \in Nat
        /\ Cardinality(Again(d, more)) \in Nat /\ Cardinality(Again(c, rows)) \in Nat
        /\ Repeats(c) \in Int /\ c.walk.made \in Nat /\ c.walk.gone \in Nat
    <3>1. Unseen(c, rows) \cap Top(more, f) \in SUBSET Ids
      BY <1>0, WalkSizes
    <3> QED  BY <1>0, <1>1, <3>1, WalkSizes, Fewer
  <2> QED  BY <2>1, <2>2, <2>3, <2>4
<1>7. RestInv(d, more) /\ EndInv(d, more)
  BY <1>1, <1>2, <1>3 DEF RestInv, EndInv, ReadInv, Walks, f
<1>8. CountInv(d, more)
  <2>1. Cardinality(more) = Cardinality(rows) + 1 /\ Cardinality(rows) \in Nat
    BY IdsFinite, FS_AddElement, FS_CardinalityType
  <2>2. c.total \in Nat /\ c.walk.late \in Nat
    BY <1>0, WalkSizes
  <2> QED  BY <1>1, <2>1, <2>2 DEF CountInv, ReadInv
<1>9. FarInv(d)
  BY <1>1 DEF FarInv, ReadInv
<1>10. /\ d.page > 0 /\ d.perPage > 0 /\ d.total <= MaxId
       /\ d.walking => d.data = <<>> /\ d.place # "authors"
       /\ d.walk.start \cup ToSet(d.walk.seen) \subseteq ids \cup {x}
  BY <1>1 DEF ReadInv
<1> QED  BY <1>1, <1>6, <1>7, <1>8, <1>9, <1>10 DEF ReadInv, d

\* A row is deleted.
GoneRead(c) == IF Walks(c) THEN [c EXCEPT !.walk.gone = @ + 1] ELSE c

LEMMA GoneKept ==
    ASSUME NEW rows \in SUBSET Ids, NEW ids,
           NEW c, ReadInv(c, rows, ids), NEW x \in rows
    PROVE  ReadInv(GoneRead(c), rows \ {x}, ids)
<1> DEFINE d == GoneRead(c)
           less == rows \ {x}
           f == Passed(c)
<1>0. c \in Reads /\ less \in SUBSET Ids
  BY DEF ReadInv
<1>1. /\ d \in Reads
      /\ d.place = c.place /\ d.walking = c.walking /\ d.page = c.page
      /\ d.perPage = c.perPage /\ d.total = c.total /\ d.data = c.data
      /\ d.walk.start = c.walk.start /\ d.walk.seen = c.walk.seen
      /\ d.walk.made = c.walk.made /\ d.walk.late = c.walk.late
      /\ d.walk.gone = IF Walks(c) THEN c.walk.gone + 1 ELSE c.walk.gone
  <2>1. CASE ~Walks(c)
    BY <1>0, <2>1 DEF GoneRead
  <2>2. CASE Walks(c)
    <3>1. d = [c EXCEPT !.walk.gone = c.walk.gone + 1]
      BY <1>0, <2>2 DEF GoneRead, Reads, Walk
    <3>2. c.walk.gone + 1 \in Nat
      BY <1>0 DEF Reads, Walk
    <3> HIDE DEF d
    <3>3. d \in Reads
      BY <1>0, <3>1, <3>2 DEF Reads, Walk
    <3>4. /\ d.place = c.place /\ d.walking = c.walking /\ d.page = c.page
          /\ d.perPage = c.perPage /\ d.total = c.total /\ d.data = c.data
      BY <1>0, <3>1 DEF Reads, Walk
    <3>5. /\ d.walk.start = c.walk.start /\ d.walk.seen = c.walk.seen
          /\ d.walk.made = c.walk.made /\ d.walk.late = c.walk.late
          /\ d.walk.gone = c.walk.gone + 1
      BY <1>0, <3>1 DEF Reads, Walk
    <3> QED  BY <2>2, <3>3, <3>4, <3>5
  <2> QED  BY <2>1, <2>2
<1> HIDE DEF d
<1>2. Walks(d) = Walks(c) /\ Passed(d) = f /\ Repeats(d) = Repeats(c)
  BY <1>1 DEF Walks, Passed, Repeats
<1>3. Unseen(d, less) = Unseen(c, rows) \ {x}
  BY <1>1 DEF Unseen
<1>4. /\ f \in Nat /\ c.page \in Nat /\ c.perPage \in Nat
  BY <1>0, PassedNat
<1>5. /\ Top(rows, f) \ {x} \subseteq Top(less, f)
      /\ Cardinality(Top(less, f) \ Top(rows, f)) <= 1
  <2>1. x \in Ids \ less /\ less \cup {x} = rows
    OBVIOUS
  <2> HIDE DEF less, f
  <2>2. /\ Top(less \cup {x}, f) \ {x} \subseteq Top(less, f)
        /\ Cardinality(Top(less, f) \ Top(less \cup {x}, f)) <= 1
    BY <1>0, <1>4, <2>1, TopMoves
  <2> QED  BY <2>1, <2>2
<1> HIDE DEF f
<1>6. /\ Cardinality(Unseen(d, less)) <= Cardinality(Unseen(c, rows))
      /\ Cardinality(Unseen(d, less)) \in Nat /\ Cardinality(Unseen(c, rows)) \in Nat
  BY <1>0, <1>3, WalkSizes, Fewer
<1>7. LineInv(d, less)
  <2> SUFFICES ASSUME Walks(c)
               PROVE  /\ Cardinality(Unseen(d, less) \cap Top(less, f)) <= c.walk.gone + 1
                      /\ Repeats(c) + Cardinality(Again(d, less)) <= c.walk.made
                      /\ (c.page - 1) * c.perPage < IntLimit
    BY <1>1, <1>2 DEF LineInv
  <2>1. /\ Cardinality(Unseen(c, rows) \cap Top(rows, f)) <= c.walk.gone
        /\ Repeats(c) + Cardinality(Again(c, rows)) <= c.walk.made
        /\ (c.page - 1) * c.perPage < IntLimit
    BY DEF ReadInv, LineInv, f
  <2> DEFINE above == Unseen(c, rows) \cap Top(rows, f)
             new == Top(less, f) \ Top(rows, f)
  <2>2. /\ Cardinality(Unseen(d, less) \cap Top(less, f))
              <= Cardinality(above) + Cardinality(new)
        /\ Cardinality(Unseen(d, less) \cap Top(less, f)) \in Nat
        /\ Cardinality(above) \in Nat /\ Cardinality(new) \in Nat
    <3>1. Unseen(d, less) \cap Top(less, f) \subseteq above \cup new
      BY <1>3
    <3>2. above \in SUBSET Ids /\ new \in SUBSET Ids
      BY <1>0, WalkSizes DEF Top
    <3> HIDE DEF above, new
    <3> QED  BY <3>1, <3>2, Together
  <2>3. Cardinality(Again(d, less)) <= Cardinality(Again(c, rows))
    <3>1. /\ Again(d, less) = (ToSet(c.walk.seen) \cap less) \ Top(less, f)
          /\ Again(c, rows) = (ToSet(c.walk.seen) \cap rows) \ Top(rows, f)
      BY <1>1, <1>2 DEF Again, f
    <3>2. Again(d, less) \subseteq Again(c, rows)
      BY <1>5, <3>1
    <3> QED  BY <1>0, <3>2, WalkSizes, Fewer
  <2>4. /\ Cardinality(Again(d, less)) \in Nat /\ Cardinality(Again(c, rows)) \in Nat
        /\ Repeats(c) \in Int /\ c.walk.made \in Nat /\ c.walk.gone \in Nat
    BY <1>0, <1>1, WalkSizes
  <2> HIDE DEF above, new
  <2>5. Cardinality(above) <= c.walk.gone /\ Cardinality(new) <= 1
    BY <1>5, <2>1 DEF above, new
  <2> QED  BY <2>1, <2>2, <2>3, <2>4, <2>5
<1>8. RestInv(d, less) /\ EndInv(d, less)
  <2>1. /\ c.walk.gone \in Nat /\ c.walk.late \in Nat /\ c.total \in Nat
        /\ d.walk.gone \in Nat /\ d.walk.gone >= c.walk.gone
    <3>1. c.walk.gone \in Nat /\ c.walk.late \in Nat /\ c.total \in Nat
      BY <1>0, WalkSizes
    <3>2. d.walk.gone = c.walk.gone \/ d.walk.gone = c.walk.gone + 1
      BY <1>1
    <3> HIDE DEF d
    <3> QED  BY <3>1, <3>2
  <2>2. RestInv(c, rows) /\ EndInv(c, rows)
    BY DEF ReadInv
  <2> DEFINE u == Cardinality(Unseen(c, rows))
             v == Cardinality(Unseen(d, less))
  <2>3. v <= u /\ v \in Nat /\ u \in Nat
    BY <1>6
  <2>4. RestInv(d, less)
    <3> SUFFICES ASSUME Walks(c), c.place = "listed"
                 PROVE  \/ v <= d.walk.gone + c.walk.late
                        \/ v <= d.walk.gone + c.walk.late + c.total - f
      BY <1>1, <1>2 DEF RestInv
    <3>1. \/ u <= c.walk.gone + c.walk.late
          \/ u <= c.walk.gone + c.walk.late + c.total - f
      BY <2>2 DEF RestInv, f
    <3> HIDE DEF u, v
    <3> QED  BY <1>4, <2>1, <2>3, <3>1
  <2>5. EndInv(d, less)
    <3> SUFFICES ASSUME c.walking, c.place = "done"
                 PROVE  v <= d.walk.gone + c.walk.late /\ Repeats(c) <= c.walk.made
      BY <1>1, <1>2 DEF EndInv
    <3>1. u <= c.walk.gone + c.walk.late /\ Repeats(c) <= c.walk.made
      BY <2>2 DEF EndInv
    <3> HIDE DEF u, v
    <3> QED  BY <2>1, <2>3, <3>1
  <2> QED  BY <2>4, <2>5
<1>9. CountInv(d, less)
  <2>1. Cardinality(less) <= Cardinality(rows) /\ Cardinality(less) \in Nat
        /\ Cardinality(rows) \in Nat
    BY Fewer
  <2>2. c.total \in Nat /\ c.walk.late \in Nat
    BY <1>0, WalkSizes
  <2> QED  BY <1>1, <2>1, <2>2 DEF CountInv, ReadInv
<1>10. FarInv(d)
  BY <1>1 DEF FarInv, ReadInv
<1>11. /\ d.page > 0 /\ d.perPage > 0 /\ d.total <= MaxId
       /\ d.walking => d.data = <<>> /\ d.place # "authors"
       /\ d.walk.start \cup ToSet(d.walk.seen) \subseteq ids
  BY <1>1 DEF ReadInv
<1> QED  BY <1>1, <1>7, <1>8, <1>9, <1>10, <1>11 DEF ReadInv, d

\* A request begins, a walk with the rows of now.
LEMMA IdleReads == IdleRead \in Reads
<1>1. Fresh \in Walk
  <2>1. <<>> \in Seq(Ids) /\ {} \in SUBSET Ids
    OBVIOUS
  <2> QED  BY <2>1 DEF Fresh, Walk
<1>2. /\ <<>> \in Seq([id : Ids, author : Authors \cup {0}])
      /\ <<>> \in Seq(Authors \cup {None}) /\ <<>> \in Seq(SUBSET Ids)
  OBVIOUS
<1> QED  BY <1>1, <1>2 DEF IdleRead, Reads

LEMMA ClampsAre ==
    ASSUME NEW n \in Int
    PROVE  ClampPage(n) \in Nat \ {0} /\ ClampPerPage(n) \in Nat \ {0}
BY OrmAssumption DEF ClampPage, ClampPerPage, Min2

LEMMA WalkStarts ==
    ASSUME NEW rows \in SUBSET Ids, NEW ids, rows \subseteq ids, NEW n \in Nat \ {0}
    PROVE  ReadInv([IdleRead EXCEPT !.place = "count", !.walking = TRUE,
                                    !.walk.start = rows, !.perPage = n], rows, ids)
<1> DEFINE d == [IdleRead EXCEPT !.place = "count", !.walking = TRUE,
                                 !.walk.start = rows, !.perPage = n]
<1>1. /\ d.place = "count" /\ d.walking /\ d.page = 1 /\ d.perPage = n /\ d.total = 0
      /\ d.data = <<>> /\ d.walk.start = rows /\ d.walk.seen = <<>>
      /\ d.walk.made = 0 /\ d.walk.gone = 0
  BY DEF IdleRead, Fresh
<1>2. d \in Reads
  <2>1. IdleRead.walk = Fresh /\ [Fresh EXCEPT !.start = rows] \in Walk
    <3>1. <<>> \in Seq(Ids)
      OBVIOUS
    <3> QED  BY <3>1 DEF Fresh, Walk, IdleRead
  <2> QED  BY <2>1, IdleReads DEF Reads
<1> HIDE DEF d
<1>3. Passed(d) = 0 /\ ToSet(d.walk.seen) = {} /\ Len(d.walk.seen) = 0
  <2>1. (1 - 1) * n = 0
    OBVIOUS
  <2> QED  BY <1>1, <2>1 DEF Passed, ToSet
<1>4. Top(rows, Passed(d)) = {}
  BY <1>3, NothingPassed
<1>5. /\ Unseen(d, rows) \cap Top(rows, Passed(d)) = {} /\ Again(d, rows) = {}
      /\ Repeats(d) = 0 /\ Cardinality({}) = 0
  BY <1>3, <1>4, FS_EmptySet DEF Again, Repeats
<1>6. (1 - 1) * n < IntLimit /\ 0 <= MaxId
  BY OrmAssumption
<1>7. LineInv(d, rows)
  <2>1. (d.page - 1) * d.perPage < IntLimit
    BY <1>1, <1>6
  <2>2. /\ Cardinality(Unseen(d, rows) \cap Top(rows, Passed(d))) = 0
        /\ Cardinality(Again(d, rows)) = 0
    BY <1>5
  <2>3. Repeats(d) + Cardinality(Again(d, rows)) <= d.walk.made
    BY <1>1, <1>5, <2>2
  <2>4. Cardinality(Unseen(d, rows) \cap Top(rows, Passed(d))) <= d.walk.gone
    BY <1>1, <2>2
  <2> QED  BY <2>1, <2>3, <2>4 DEF LineInv
<1>8. RestInv(d, rows) /\ CountInv(d, rows) /\ EndInv(d, rows) /\ FarInv(d)
  BY <1>1 DEF RestInv, CountInv, EndInv, FarInv
<1> QED  BY <1>1, <1>2, <1>3, <1>6, <1>7, <1>8 DEF ReadInv, d

\* A client that does not walk, or whose request is over with an error, has nothing to
\* keep count of.
LEMMA StillReads ==
    ASSUME NEW rows, NEW ids, NEW d \in Reads,
           d.page > 0, d.perPage > 0, d.total <= MaxId,
           d.walking => d.data = <<>> /\ d.place # "authors",
           d.walk.start \cup ToSet(d.walk.seen) \subseteq ids,
           ~d.walking \/ d.place \in {"failed", "panicked", "idle"},
           d.place \notin {"get", "listed"}
    PROVE  ReadInv(d, rows, ids)
BY DEF ReadInv, LineInv, RestInv, CountInv, EndInv, FarInv, Walks

LEMMA PageAsked ==
    ASSUME NEW rows, NEW ids, NEW n \in Nat \ {0}, NEW p \in Nat \ {0}
    PROVE  ReadInv([IdleRead EXCEPT !.place = "count", !.page = p, !.perPage = n], rows, ids)
<1> DEFINE d == [IdleRead EXCEPT !.place = "count", !.page = p, !.perPage = n]
<1>1. d \in Reads
  BY IdleReads DEF Reads
<1>2. /\ d.place = "count" /\ ~d.walking /\ d.page = p /\ d.perPage = n /\ d.total = 0
      /\ d.walk.start = {} /\ d.walk.seen = <<>>
  BY DEF IdleRead, Fresh
<1> HIDE DEF d
<1>3. ToSet(<<>>) = {} /\ 0 <= MaxId
  BY OrmAssumption DEF ToSet
<1>4. ReadInv(d, rows, ids)
  BY <1>1, <1>2, <1>3, StillReads
<1> QED  BY <1>4 DEF d

\* Count.
LEMMA CountKept ==
    ASSUME NEW rows \in SUBSET Ids, NEW ids,
           NEW c, ReadInv(c, rows, ids), c.place = "count"
    PROVE  ReadInv([c EXCEPT !.place = "get", !.total = Cardinality(rows), !.walk.late = 0],
                   rows, ids)
<1> DEFINE n == Cardinality(rows)
           d == [c EXCEPT !.place = "get", !.total = n, !.walk.late = 0]
<1>0. c \in Reads
  BY DEF ReadInv
<1>1. n \in Nat /\ n <= MaxId
  <2>1. MaxId \in Nat
    BY OrmAssumption
  <2>2. IsFiniteSet(1..MaxId) /\ Cardinality(1..MaxId) = MaxId
    BY <2>1, FS_Interval
  <2> QED  BY <2>2, FS_Subset, FS_CardinalityType DEF Ids
<1> HIDE DEF n
<1>2. d \in Reads
  BY <1>0, <1>1 DEF Reads, Walk
<1>3. /\ d.place = "get" /\ d.walking = c.walking /\ d.page = c.page
      /\ d.perPage = c.perPage /\ d.total = n /\ d.data = c.data
      /\ d.walk.start = c.walk.start /\ d.walk.seen = c.walk.seen
      /\ d.walk.made = c.walk.made /\ d.walk.gone = c.walk.gone /\ d.walk.late = 0
  BY <1>0 DEF Reads, Walk
<1> HIDE DEF d
<1>4. /\ Passed(d) = Passed(c) /\ Walks(d) = Walks(c) /\ Repeats(d) = Repeats(c)
      /\ Unseen(d, rows) = Unseen(c, rows)
  BY <1>3 DEF Passed, Walks, Repeats, Unseen
<1>5. Again(d, rows) = Again(c, rows)
  BY <1>3, <1>4 DEF Again
<1>6. LineInv(d, rows)
  BY <1>3, <1>4, <1>5 DEF LineInv, ReadInv
<1>7. CountInv(d, rows)
  BY <1>1, <1>3 DEF CountInv, n
<1>8. RestInv(d, rows) /\ EndInv(d, rows) /\ FarInv(d)
  BY <1>3 DEF RestInv, EndInv, FarInv
<1>9. /\ d.page > 0 /\ d.perPage > 0 /\ d.total <= MaxId
      /\ d.walking => d.data = <<>> /\ d.place # "authors"
      /\ d.walk.start \cup ToSet(d.walk.seen) \subseteq ids
  BY <1>1, <1>3 DEF ReadInv
<1> QED  BY <1>2, <1>6, <1>7, <1>8, <1>9 DEF ReadInv, d, n

\* The next page, or the end of the walk.
LEMMA NextKept ==
    ASSUME NEW rows \in SUBSET Ids, NEW ids,
           NEW c, ReadInv(c, rows, ids), c.place = "listed", c.walking,
           c.page < TotalPages(c.total, c.perPage)
    PROVE  ReadInv([c EXCEPT !.place = "count", !.page = @ + 1], rows, ids)
<1> DEFINE d == [c EXCEPT !.place = "count", !.page = @ + 1]
<1>0. c \in Reads
  BY DEF ReadInv
<1>1. c.page \in Nat \ {0} /\ c.perPage \in Nat \ {0} /\ c.total \in Nat
  BY <1>0, PassedNat DEF Reads
<1>2. d \in Reads
  <2>1. c.page + 1 \in Nat
    BY <1>1
  <2> QED  BY <1>0, <2>1 DEF Reads
<1>3. /\ d.place = "count" /\ d.walking = c.walking /\ d.page = c.page + 1
      /\ d.perPage = c.perPage /\ d.total = c.total /\ d.data = c.data
      /\ d.walk = c.walk
  BY <1>0 DEF Reads, Walk
<1> HIDE DEF d
<1>4. /\ Walks(d) = Walks(c) /\ Repeats(d) = Repeats(c)
      /\ Unseen(d, rows) = Unseen(c, rows)
  BY <1>3 DEF Walks, Repeats, Unseen
<1>5. Passed(d) = Passed(c) /\ (d.page - 1) * d.perPage = c.page * c.perPage
  <2>1. d.page - 1 = c.page
    BY <1>1, <1>3
  <2>2. Passed(d) = (d.page - 1) * d.perPage /\ Passed(c) = c.page * c.perPage
    BY <1>3 DEF Passed
  <2> QED  BY <1>3, <2>1, <2>2
<1>6. Again(d, rows) = Again(c, rows)
  BY <1>3, <1>5 DEF Again
<1>7. c.page * c.perPage < IntLimit
  <2>1. c.page * c.perPage < c.total
    BY <1>1, PageNotLast
  <2>2. c.total <= MaxId /\ MaxId \in Nat /\ IntLimit \in Nat /\ MaxId < IntLimit
    BY OrmAssumption DEF ReadInv
  <2>3. c.page * c.perPage \in Nat
    BY <1>1
  <2> QED  BY <1>1, <2>1, <2>2, <2>3
<1>8. LineInv(d, rows)
  BY <1>3, <1>4, <1>5, <1>6, <1>7 DEF LineInv, ReadInv
<1>9. RestInv(d, rows) /\ EndInv(d, rows) /\ FarInv(d) /\ CountInv(d, rows)
  BY <1>3 DEF RestInv, EndInv, FarInv, CountInv
<1>10. /\ d.page > 0 /\ d.perPage > 0 /\ d.total <= MaxId
       /\ d.walking => d.data = <<>> /\ d.place # "authors"
       /\ d.walk.start \cup ToSet(d.walk.seen) \subseteq ids
  BY <1>1, <1>3 DEF ReadInv
<1> QED  BY <1>2, <1>8, <1>9, <1>10 DEF ReadInv, d

LEMMA WalkEnds ==
    ASSUME NEW rows \in SUBSET Ids, NEW ids,
           NEW c, ReadInv(c, rows, ids), c.place = "listed", c.walking,
           ~(c.page < TotalPages(c.total, c.perPage))
    PROVE  ReadInv([c EXCEPT !.place = "done"], rows, ids)
<1> DEFINE d == [c EXCEPT !.place = "done"]
<1>0. c \in Reads
  BY DEF ReadInv
<1>1. c.page \in Nat \ {0} /\ c.perPage \in Nat \ {0} /\ c.total \in Nat
  BY <1>0, PassedNat DEF Reads
<1>2. d \in Reads
  BY <1>0 DEF Reads
<1>3. /\ d.place = "done" /\ d.walking = c.walking /\ d.page = c.page
      /\ d.perPage = c.perPage /\ d.total = c.total /\ d.data = c.data
      /\ d.walk = c.walk
  BY <1>0 DEF Reads
<1> HIDE DEF d
<1>4. Repeats(d) = Repeats(c) /\ Unseen(d, rows) = Unseen(c, rows) /\ Walks(c)
  BY <1>3 DEF Walks, Repeats, Unseen
<1>5. Passed(c) >= c.total /\ Passed(c) \in Nat
  <2>1. TotalPages(c.total, c.perPage) \in Nat
    BY <1>1, TotalPagesIs
  <2>2. c.page * c.perPage >= c.total
    BY <1>1, <2>1, PagePastLast
  <2> QED  BY <2>2, PassedNat DEF Passed
<1>6. EndInv(d, rows)
  <2>1. /\ Repeats(c) + Cardinality(Again(c, rows)) <= c.walk.made
        /\ \/ Cardinality(Unseen(c, rows)) <= c.walk.gone + c.walk.late
           \/ Cardinality(Unseen(c, rows))
                 <= c.walk.gone + c.walk.late + c.total - Passed(c)
    BY <1>4 DEF ReadInv, LineInv, RestInv
  <2>2. /\ Cardinality(Again(c, rows)) \in Nat /\ Repeats(c) \in Int
        /\ Cardinality(Unseen(c, rows)) \in Nat
        /\ c.walk.made \in Nat /\ c.walk.gone \in Nat /\ c.walk.late \in Nat
    BY <1>0, WalkSizes
  <2>3. /\ Repeats(c) <= c.walk.made
        /\ Cardinality(Unseen(c, rows)) <= c.walk.gone + c.walk.late
    BY <1>1, <1>5, <2>1, <2>2
  <2> QED  BY <1>3, <1>4, <2>3 DEF EndInv
<1>7. LineInv(d, rows) /\ RestInv(d, rows) /\ FarInv(d) /\ CountInv(d, rows)
  BY <1>3 DEF RestInv, LineInv, FarInv, CountInv, Walks
<1>8. /\ d.page > 0 /\ d.perPage > 0 /\ d.total <= MaxId
      /\ d.walking => d.data = <<>> /\ d.place # "authors"
      /\ d.walk.start \cup ToSet(d.walk.seen) \subseteq ids
  BY <1>1, <1>3 DEF ReadInv
<1> QED  BY <1>2, <1>6, <1>7, <1>8 DEF ReadInv, d

LEMMA Joined ==
    ASSUME NEW s \in Seq(Ids), NEW t \in Seq(Ids)
    PROVE  /\ s \o t \in Seq(Ids)
           /\ Len(s \o t) = Len(s) + Len(t)
           /\ ToSet(s \o t) = ToSet(s) \cup ToSet(t)
<1> DEFINE u == s \o t
<1>1. /\ u \in Seq(Ids) /\ Len(u) = Len(s) + Len(t)
      /\ \A i \in 1..Len(s) : u[i] = s[i]
      /\ \A i \in 1..Len(t) : u[Len(s) + i] = t[i]
      /\ \A i \in 1..Len(u) : i <= Len(s) \/ i - Len(s) \in 1..Len(t)
  OBVIOUS
<1> HIDE DEF u
<1>2. /\ DOMAIN u = 1..Len(u) /\ DOMAIN s = 1..Len(s) /\ DOMAIN t = 1..Len(t)
      /\ Len(u) \in Nat /\ Len(s) \in Nat /\ Len(t) \in Nat
  BY <1>1
<1>3. ASSUME NEW i \in DOMAIN u PROVE u[i] \in ToSet(s) \cup ToSet(t)
  <2>1. CASE i <= Len(s)
    <3>1. i \in DOMAIN s /\ u[i] = s[i]
      BY <1>1, <1>2, <2>1
    <3> QED  BY <3>1 DEF ToSet
  <2>2. CASE ~(i <= Len(s))
    <3>1. i - Len(s) \in DOMAIN t /\ i = Len(s) + (i - Len(s))
      BY <1>1, <1>2, <2>2
    <3>2. u[i] = t[i - Len(s)]
      BY <1>1, <1>2, <3>1
    <3> QED  BY <3>1, <3>2 DEF ToSet
  <2> QED  BY <2>1, <2>2
<1>4. ASSUME NEW i \in DOMAIN s PROVE s[i] \in ToSet(u)
  <2>1. i \in DOMAIN u /\ u[i] = s[i]
    BY <1>1, <1>2
  <2> QED  BY <2>1 DEF ToSet
<1>5. ASSUME NEW i \in DOMAIN t PROVE t[i] \in ToSet(u)
  <2>1. Len(s) + i \in DOMAIN u /\ u[Len(s) + i] = t[i]
    BY <1>1, <1>2
  <2> QED  BY <2>1 DEF ToSet
<1>6. ToSet(u) = ToSet(s) \cup ToSet(t)
  BY <1>3, <1>4, <1>5 DEF ToSet
<1> QED  BY <1>1, <1>6 DEF u

LEMMA RestSum ==
    ASSUME NEW u \in Nat, NEW a \in Nat, NEW b \in Nat, NEW n \in Nat, NEW g \in Nat,
           NEW gone \in Nat, NEW late \in Nat, NEW total \in Nat,
           u <= a + b, a <= gone, b <= IF n > g THEN n - g ELSE 0, n <= total + late
    PROVE  u <= gone + late \/ u <= gone + late + total - g
OBVIOUS

\* A page of a walk: the line goes down by the rows it shows.
LEMMA PageTurned ==
    ASSUME NEW rows \in SUBSET Ids, NEW ids, rows \subseteq ids,
           NEW c, ReadInv(c, rows, ids), c.place = "get", c.walking,
           NEW page \in Seq(rows), Len(page) = Cardinality(ToSet(page)),
           ToSet(page) = Top(rows, Passed(c) + c.perPage) \ Top(rows, Passed(c))
    PROVE  ReadInv([c EXCEPT !.place = "listed", !.walk.seen = @ \o page], rows, ids)
<1> DEFINE d == [c EXCEPT !.place = "listed", !.walk.seen = @ \o page]
           f == Passed(c)
           g == f + c.perPage
           S == ToSet(c.walk.seen)
           N == ToSet(page)
<1>0. c \in Reads
  BY DEF ReadInv
<1>1. /\ c.page \in Nat \ {0} /\ c.perPage \in Nat \ {0} /\ c.total \in Nat
      /\ f \in Nat /\ g \in Nat
  BY <1>0, PassedNat DEF Reads
<1>2. /\ c.walk.seen \in Seq(Ids) /\ page \in Seq(Ids)
      /\ c.walk.made \in Nat /\ c.walk.gone \in Nat /\ c.walk.late \in Nat
  BY <1>0 DEF Reads, Walk
<1>3. c.walk.seen \o page \in Seq(Ids)
  BY <1>2
<1>4. d \in Reads
  BY <1>0, <1>3 DEF Reads, Walk
<1>5. /\ d.place = "listed" /\ d.walking /\ d.page = c.page
      /\ d.perPage = c.perPage /\ d.total = c.total /\ d.data = c.data
      /\ d.walk.start = c.walk.start /\ d.walk.seen = c.walk.seen \o page
      /\ d.walk.made = c.walk.made /\ d.walk.gone = c.walk.gone /\ d.walk.late = c.walk.late
  BY <1>0 DEF Reads, Walk
<1> HIDE DEF d
<1>6. Passed(d) = g /\ Walks(c) /\ Walks(d) /\ f = (c.page - 1) * c.perPage
  <2>1. c.page * c.perPage = (c.page - 1) * c.perPage + c.perPage
    BY <1>1
  <2>2. Passed(d) = c.page * c.perPage
    BY <1>5 DEF Passed
  <2>3. f = (c.page - 1) * c.perPage
    BY DEF Passed
  <2> QED  BY <1>5, <2>1, <2>2, <2>3 DEF Walks
<1>7. ToSet(d.walk.seen) = S \cup N
  BY <1>2, <1>5, Joined
<1>8. Top(rows, f) \subseteq Top(rows, g) /\ Top(rows, g) \subseteq rows
  <2>1. \A i \in rows : Rank(i, rows) \in Nat
    BY BeforeFinite
  <2> QED  BY <1>1, <2>1 DEF Top
<1>9. N = Top(rows, g) \ Top(rows, f)
  OBVIOUS
<1>10. S \in SUBSET Ids /\ N \in SUBSET Ids /\ Len(page) = Cardinality(N)
  BY <1>0, <1>8, <1>9, WalkSizes
<1>11. /\ Cardinality(Unseen(c, rows) \cap Top(rows, f)) <= c.walk.gone
       /\ Repeats(c) + Cardinality(Again(c, rows)) <= c.walk.made
       /\ (c.page - 1) * c.perPage < IntLimit
       /\ Cardinality(rows) <= c.total + c.walk.late
  BY <1>6 DEF ReadInv, LineInv, CountInv
<1>12. Unseen(d, rows) = Unseen(c, rows) \ N
  BY <1>5, <1>7 DEF Unseen
<1>13. /\ Again(c, rows) = (S \cap rows) \ Top(rows, f)
       /\ Again(d, rows) = ((S \cup N) \cap rows) \ Top(rows, g)
  BY <1>6, <1>7 DEF Again
<1>14. Len(d.walk.seen) = Len(c.walk.seen) + Len(page)
  BY <1>2, <1>5, Joined
<1> HIDE DEF f, g, S, N
\* What is still unseen above the new line was so above the old one.
<1>15. Unseen(d, rows) \cap Top(rows, g) \subseteq Unseen(c, rows) \cap Top(rows, f)
  BY <1>9, <1>12
<1>16. /\ Cardinality(Unseen(d, rows) \cap Top(rows, g)) <= c.walk.gone
       /\ Cardinality(Unseen(d, rows) \cap Top(rows, g)) \in Nat
  <2>1. Unseen(c, rows) \cap Top(rows, f) \in SUBSET Ids
    BY <1>0, WalkSizes
  <2>2. /\ Cardinality(Unseen(d, rows) \cap Top(rows, g))
              <= Cardinality(Unseen(c, rows) \cap Top(rows, f))
        /\ Cardinality(Unseen(d, rows) \cap Top(rows, g)) \in Nat
        /\ Cardinality(Unseen(c, rows) \cap Top(rows, f)) \in Nat
    BY <1>15, <2>1, Fewer
  <2> QED  BY <1>2, <1>11, <2>2
\* What the page shows for the second time was seen and below the old line.
<1>17. Repeats(d) + Cardinality(Again(d, rows)) <= c.walk.made
  <2>1. /\ Again(c, rows) = Again(d, rows) \cup (S \cap N)
        /\ Again(d, rows) \cap (S \cap N) = {}
        /\ Again(d, rows) \in SUBSET Ids /\ S \cap N \in SUBSET Ids
    BY <1>8, <1>9, <1>10, <1>13
  <2>2. /\ Cardinality(Again(c, rows)) = Cardinality(Again(d, rows)) + Cardinality(S \cap N)
        /\ Cardinality(Again(d, rows)) \in Nat /\ Cardinality(S \cap N) \in Nat
    BY <2>1, Apart
  <2>3. Cardinality(S \cup N) = Cardinality(S) + Cardinality(N) - Cardinality(S \cap N)
        /\ Cardinality(S) \in Nat /\ Cardinality(N) \in Nat
    BY <1>10, IdsFinite, FS_Union, FS_CardinalityType
  <2>4. /\ Repeats(d) = Len(c.walk.seen) + Cardinality(N) - Cardinality(S \cup N)
        /\ Repeats(c) = Len(c.walk.seen) - Cardinality(S)
        /\ Len(c.walk.seen) \in Nat
    <3>1. Repeats(d) = Len(d.walk.seen) - Cardinality(ToSet(d.walk.seen))
      BY DEF Repeats
    <3>2. Len(c.walk.seen) \in Nat
      BY <1>2
    <3>3. Repeats(c) = Len(c.walk.seen) - Cardinality(S)
      BY DEF Repeats, S
    <3>4. Repeats(d) = Len(c.walk.seen) + Cardinality(N) - Cardinality(S \cup N)
      <4>1. Repeats(d) = (Len(c.walk.seen) + Cardinality(N)) - Cardinality(S \cup N)
        BY <1>7, <1>10, <1>14, <3>1
      <4>2. Cardinality(N) \in Nat /\ Cardinality(S \cup N) \in Nat
        BY <1>10, IdsFinite, FS_CardinalityType
      <4> QED  BY <3>2, <4>1, <4>2
    <3> QED  BY <3>2, <3>3, <3>4
  <2> QED  BY <1>2, <1>11, <2>2, <2>3, <2>4
<1>18. LineInv(d, rows)
  BY <1>5, <1>6, <1>11, <1>16, <1>17 DEF LineInv
\* Below the line are no more rows than were counted or came late.
<1>19. RestInv(d, rows)
  <2> DEFINE above == Unseen(d, rows) \cap Top(rows, g)
             below == Unseen(d, rows) \ Top(rows, g)
             n == Cardinality(rows)
  <2>1. Unseen(d, rows) \in SUBSET rows
    BY <1>4, WalkSizes
  <2>2. n \in Nat
    BY IdsFinite, FS_CardinalityType
  <2>3. \A i \in below : Rank(i, rows) \in g..(n - 1)
    <3> SUFFICES ASSUME NEW i \in rows, i \notin Top(rows, g)
                 PROVE  Rank(i, rows) \in g..(n - 1)
      BY <2>1
    <3>1. Rank(i, rows) \in 0..(n - 1) /\ ~(Rank(i, rows) < g)
      BY RankBound DEF Top
    <3> HIDE DEF n
    <3> QED  BY <1>1, <2>2, <3>1
  <2>4. Cardinality(below) <= IF n > g THEN n - g ELSE 0
    <3>1. below \in SUBSET rows
      BY <2>1
    <3> HIDE DEF below, n
    <3> QED  BY <1>1, <2>2, <2>3, <3>1, RanksCount
  <2>5. /\ Cardinality(Unseen(d, rows)) <= Cardinality(above) + Cardinality(below)
        /\ Cardinality(Unseen(d, rows)) \in Nat
        /\ Cardinality(above) \in Nat /\ Cardinality(below) \in Nat
    <3>1. /\ above \in SUBSET Ids /\ below \in SUBSET Ids
          /\ Unseen(d, rows) \subseteq above \cup below
      BY <2>1
    <3> HIDE DEF above, below
    <3> QED  BY <3>1, Together
  <2>6. Cardinality(above) <= c.walk.gone /\ n <= c.total + c.walk.late
    BY <1>11, <1>16
  <2> DEFINE u == Cardinality(Unseen(d, rows))
             a == Cardinality(above)
             b == Cardinality(below)
  <2>7. /\ u <= a + b /\ u \in Nat /\ a \in Nat /\ b \in Nat
        /\ a <= c.walk.gone /\ b <= (IF n > g THEN n - g ELSE 0)
    BY <2>4, <2>5, <2>6
  <2> HIDE DEF u, a, b, n
  <2>8. \/ u <= c.walk.gone + c.walk.late
        \/ u <= c.walk.gone + c.walk.late + c.total - g
    <3>1. n <= c.total + c.walk.late
      BY <2>6 DEF n
    <3> QED  BY <1>1, <1>2, <2>2, <2>7, <3>1, RestSum
  <2> QED  BY <1>5, <1>6, <2>8 DEF RestInv, u
<1>20. CountInv(d, rows) /\ EndInv(d, rows) /\ FarInv(d)
  BY <1>5 DEF CountInv, EndInv, FarInv, ReadInv
<1>21. /\ d.page > 0 /\ d.perPage > 0 /\ d.total <= MaxId
       /\ d.walking => d.data = <<>> /\ d.place # "authors"
       /\ d.walk.start \cup ToSet(d.walk.seen) \subseteq ids
  BY <1>1, <1>5, <1>7, <1>8, <1>9 DEF ReadInv, S
<1> QED  BY <1>4, <1>18, <1>19, <1>20, <1>21 DEF ReadInv, d

\* A page that a client asked for: past the last row there is nothing.
LEMMA PageShown ==
    ASSUME NEW rows \in SUBSET Ids, NEW ids,
           NEW c, ReadInv(c, rows, ids), c.place = "get", ~c.walking,
           NEW data \in Seq([id : Ids, author : Authors \cup {0}]),
           /\ (c.page - 1) * c.perPage < IntLimit
           /\ (c.page - 1) * c.perPage >= Cardinality(rows)
           => data = <<>>
    PROVE  ReadInv([c EXCEPT !.place = "listed", !.data = data], rows, ids)
<1> DEFINE d == [c EXCEPT !.place = "listed", !.data = data]
<1>0. c \in Reads
  BY DEF ReadInv
<1>1. c.page \in Nat \ {0} /\ c.perPage \in Nat \ {0} /\ c.total \in Nat
  BY <1>0, PassedNat DEF Reads
<1>2. d \in Reads
  BY <1>0 DEF Reads
<1>3. /\ d.place = "listed" /\ ~d.walking /\ d.page = c.page
      /\ d.perPage = c.perPage /\ d.total = c.total /\ d.data = data
      /\ d.walk = c.walk
  BY <1>0 DEF Reads
<1> HIDE DEF d
<1>4. FarInv(d)
  <2> SUFFICES ASSUME c.page > TotalPages(c.total, c.perPage),
                      (c.page - 1) * c.perPage < IntLimit, c.walk.late = 0
               PROVE  data = <<>>
    BY <1>3 DEF FarInv
  <2>1. Cardinality(rows) <= c.total + 0
    BY DEF ReadInv, CountInv
  <2>2. c.page - 1 \in Nat /\ c.page - 1 >= TotalPages(c.total, c.perPage)
    <3> DEFINE t == TotalPages(c.total, c.perPage)
    <3>1. t \in Nat /\ c.page > t
      BY <1>1, TotalPagesIs
    <3> HIDE DEF t
    <3>2. c.page - 1 \in Nat /\ c.page - 1 >= t
      BY <1>1, <3>1
    <3> QED  BY <3>2 DEF t
  <2>3. (c.page - 1) * c.perPage >= c.total
    BY <1>1, <2>2, PagePastLast
  <2>4. (c.page - 1) * c.perPage \in Nat /\ Cardinality(rows) \in Nat
    BY <1>1, <2>2, IdsFinite, FS_CardinalityType
  <2>5. (c.page - 1) * c.perPage >= Cardinality(rows)
    BY <1>1, <2>1, <2>3, <2>4
  <2> QED  BY <2>5
<1>5. LineInv(d, rows) /\ RestInv(d, rows) /\ CountInv(d, rows) /\ EndInv(d, rows)
  BY <1>3 DEF LineInv, RestInv, CountInv, EndInv, Walks
<1>6. /\ d.page > 0 /\ d.perPage > 0 /\ d.total <= MaxId
      /\ d.walking => d.data = <<>> /\ d.place # "authors"
      /\ d.walk.start \cup ToSet(d.walk.seen) \subseteq ids
  BY <1>3 DEF ReadInv
<1> QED  BY <1>2, <1>4, <1>5, <1>6 DEF ReadInv, d

-----------------------------------------------------------------------------
(* The loaders. *)

\* The index of a list leads from each key to the places that have it and no others.
LEMMA AssignIs ==
    ASSUME NEW items, NEW keys, DOMAIN keys = DOMAIN items, NEW value, NEW before,
           NEW i \in DOMAIN items
    PROVE  Assign(IndexParents(keys), items, value, before)[i]
              = IF keys[i] = 0 THEN before ELSE value[keys[i]]
<1> DEFINE index == IndexParents(keys)
           ks == {k \in DOMAIN index : i \in index[k]}
<1>1. DOMAIN index = ToSet(keys) \ {0}
  BY DEF IndexParents
<1>2. \A k \in ToSet(keys) \ {0} : index[k] = {j \in DOMAIN keys : keys[j] = k}
  BY DEF IndexParents
<1>3. keys[i] \in ToSet(keys)
  BY DEF ToSet
<1>4. ks = IF keys[i] = 0 THEN {} ELSE {keys[i]}
  <2> HIDE DEF index
  <2> QED  BY <1>1, <1>2, <1>3
<1>5. Assign(index, items, value, before)[i]
         = IF ks = {} THEN before ELSE value[CHOOSE k \in ks : TRUE]
  BY DEF Assign
<1> HIDE DEF index, ks
<1>6. CASE keys[i] = 0
  BY <1>4, <1>5, <1>6 DEF index
<1>7. CASE keys[i] # 0
  <2>1. ks = {keys[i]} /\ ks # {}
    BY <1>4, <1>7
  <2>2. (CHOOSE k \in ks : TRUE) = keys[i]
    BY <2>1
  <2> QED  BY <1>5, <1>7, <2>1, <2>2 DEF index
<1> QED  BY <1>6, <1>7

LEMMA BelongsToIs ==
    ASSUME authors \subseteq Authors,
           NEW items \in Seq([id : Ids, author : Authors \cup {0}])
    PROVE  /\ BelongsTo(items) \in Seq(Authors \cup {None})
           /\ \A i \in DOMAIN items :
                 BelongsTo(items)[i] =
                    IF items[i].author \in authors THEN items[i].author ELSE None
<1> DEFINE keys == AuthorKeys(items)
           index == IndexParents(keys)
           byID == DOMAIN index \cap authors
           value == [k \in DOMAIN index |-> IF k \in byID THEN k ELSE None]
<1>1. DOMAIN keys = DOMAIN items /\ \A i \in DOMAIN items : keys[i] = items[i].author
  BY DEF AuthorKeys
<1>2. DOMAIN index = ToSet(keys) \ {0}
  BY DEF IndexParents
<1>3. 0 \notin authors
  BY OrmAssumption
<1>4. BelongsTo(items) = Assign(index, items, value, None)
  BY DEF BelongsTo
<1>5. \A i \in DOMAIN items :
         BelongsTo(items)[i] = IF items[i].author \in authors THEN items[i].author ELSE None
  <2> SUFFICES ASSUME NEW i \in DOMAIN items
               PROVE  BelongsTo(items)[i] =
                         IF items[i].author \in authors THEN items[i].author ELSE None
    OBVIOUS
  <2>1. BelongsTo(items)[i] = IF keys[i] = 0 THEN None ELSE value[keys[i]]
    BY <1>1, <1>4, AssignIs
  <2>2. keys[i] # 0 => value[keys[i]] = IF keys[i] \in authors THEN keys[i] ELSE None
    <3>1. keys[i] \in ToSet(keys)
      BY <1>1 DEF ToSet
    <3> HIDE DEF index, keys
    <3> QED  BY <1>2, <3>1
  <2> HIDE DEF keys, value
  <2> QED  BY <1>1, <1>3, <2>1, <2>2
<1>6. BelongsTo(items) \in Seq(Authors \cup {None})
  <2>1. DOMAIN BelongsTo(items) = 1..Len(items) /\ Len(items) \in Nat
        /\ DOMAIN items = 1..Len(items)
    BY <1>4 DEF Assign
  <2>2. \A i \in 1..Len(items) : BelongsTo(items)[i] \in Authors \cup {None}
    BY <1>5, <2>1
  <2>3. BelongsTo(items) = [i \in 1..Len(items) |-> BelongsTo(items)[i]]
    BY <1>4, <2>1 DEF Assign
  <2>4. BelongsTo(items) \in [1..Len(items) -> Authors \cup {None}]
    BY <2>2, <2>3
  <2> QED  BY <2>1, <2>4
<1> QED  BY <1>5, <1>6

\* A query without a window returns all that match.
LEMMA AllIs ==
    ASSUME posts \in [Ids -> Rows \cup {None}], NEW K,
           Get(WhereIn(Query, "author", K)) # None
    PROVE  ToSet(Get(WhereIn(Query, "author", K))) = {i \in Here : posts[i].author \in K}
<1> DEFINE q == WhereIn(Query, "author", K)
           rows == {i \in Here : Matches(i, q)}
           all == Descending(rows)
           rest == SubSeq(all, q.offset + 1, Len(all))
<1>1. q.where = {[on |-> "author", in |-> K]} /\ q.limit = NoLimit /\ q.offset = 0
  BY DEF WhereIn, Query
<1> HIDE DEF q
<1>2. rows = {i \in Here : posts[i].author \in K} /\ rows \in SUBSET Ids
  BY <1>1 DEF Matches, Column, Here
<1>3. Get(q) # None
  BY DEF q
<1>4. Get(q) = rest
  <2>1. Get(q) = IF q.offset < 0 \/ TooMany(rest) THEN None ELSE rest
    BY <1>1 DEF Get
  <2> QED  BY <1>3, <2>1
<1>5. /\ all \in Seq(rows) /\ Len(all) = Cardinality(rows)
      /\ \A i \in rows : all[Rank(i, rows) + 1] = i
  BY <1>2, DescendingIs
<1> HIDE DEF all
<1>6. rest = all
  <2>1. q.offset + 1 = 1
    BY <1>1
  <2> QED  BY <1>5, <2>1, SubSeqFull
<1>7. ToSet(all) = rows
  <2> HIDE DEF rows
  <2>1. \A i \in rows : Rank(i, rows) + 1 \in DOMAIN all
    <3> SUFFICES ASSUME NEW i \in rows PROVE Rank(i, rows) + 1 \in DOMAIN all
      OBVIOUS
    <3>1. Rank(i, rows) \in 0..(Cardinality(rows) - 1)
      BY <1>2, RankBound
    <3>2. Cardinality(rows) \in Nat /\ DOMAIN all = 1..Cardinality(rows)
      BY <1>5
    <3> QED  BY <3>1, <3>2
  <2>2. \A k \in DOMAIN all : all[k] \in rows
    BY <1>5
  <2> QED  BY <1>5, <2>1, <2>2 DEF ToSet
<1> QED  BY <1>2, <1>4, <1>6, <1>7 DEF q

LEMMA HasManyIs ==
    ASSUME posts \in [Ids -> Rows \cup {None}],
           NEW items \in Seq(Authors \cup {None}), HasMany(items) # None
    PROVE  /\ HasMany(items) \in Seq(SUBSET Ids)
           /\ \A i \in DOMAIN items :
                 HasMany(items)[i] =
                    IF items[i] = None THEN {} ELSE {j \in Here : posts[j].author = items[i]}
<1> DEFINE keys == OwnKeys(items)
           index == IndexParents(keys)
           children == Get(WhereIn(Query, "author", DOMAIN index))
           grouped == [k \in DOMAIN index |-> {i \in ToSet(children) : posts[i].author = k}]
           of(i) == IF items[i] = None THEN {} ELSE {j \in Here : posts[j].author = items[i]}
<1>1. /\ DOMAIN keys = DOMAIN items
      /\ \A i \in DOMAIN items : keys[i] = IF items[i] = None THEN 0 ELSE items[i]
  BY DEF OwnKeys
<1>2. DOMAIN index = ToSet(keys) \ {0}
  BY DEF IndexParents
<1>3. \A i \in DOMAIN items : items[i] \in Authors \cup {None} /\ 0 \notin Authors
  BY OrmAssumption
<1>4. \A i \in DOMAIN items : keys[i] \in ToSet(keys)
  BY <1>1 DEF ToSet
<1>5. \A i \in DOMAIN items : keys[i] = 0 <=> items[i] = None
  BY <1>1, <1>3
<1>6. HasMany(items) = IF DOMAIN index = {} THEN [i \in DOMAIN items |-> {}]
                       ELSE IF children = None THEN None
                       ELSE Assign(index, items, grouped, {})
  BY DEF HasMany
<1>7. \A i \in DOMAIN items : HasMany(items)[i] = of(i)
  <2> SUFFICES ASSUME NEW i \in DOMAIN items PROVE HasMany(items)[i] = of(i)
    OBVIOUS
  <2> HIDE DEF keys
  <2>1. CASE DOMAIN index = {}
    <3>1. keys[i] = 0
      BY <1>2, <1>4, <2>1
    <3>2. of(i) = {}
      BY <1>5, <3>1
    <3> HIDE DEF index, children, grouped, of
    <3> QED  BY <1>6, <2>1, <3>2
  <2>2. CASE DOMAIN index # {}
    <3> HIDE DEF index, children, grouped
    <3>1. children # None /\ HasMany(items) = Assign(index, items, grouped, {})
      BY <1>6, <2>2
    <3>2. HasMany(items)[i] = IF keys[i] = 0 THEN {} ELSE grouped[keys[i]]
      BY <1>1, <3>1, AssignIs DEF index
    <3>3. CASE keys[i] = 0
      BY <1>5, <3>2, <3>3
    <3>4. CASE keys[i] # 0
      <4>1. keys[i] \in DOMAIN index /\ keys[i] = items[i] /\ items[i] # None
        BY <1>1, <1>2, <1>4, <1>5, <3>4
      <4>2. ToSet(children) = {j \in Here : posts[j].author \in DOMAIN index}
        BY <3>1, AllIs DEF children
      <4>3. grouped[keys[i]] = {j \in ToSet(children) : posts[j].author = keys[i]}
        BY <4>1 DEF grouped
      <4>4. grouped[keys[i]] = {j \in Here : posts[j].author = keys[i]}
        BY <4>1, <4>2, <4>3
      <4> QED  BY <3>2, <3>4, <4>1, <4>4
    <3> QED  BY <3>3, <3>4
  <2> QED  BY <2>1, <2>2
<1>8. HasMany(items) \in Seq(SUBSET Ids)
  <2>1. Len(items) \in Nat /\ DOMAIN items = 1..Len(items)
    OBVIOUS
  <2>2. HasMany(items) = [i \in 1..Len(items) |-> HasMany(items)[i]]
    <3>1. CASE DOMAIN index = {}
      <4> HIDE DEF index
      <4> QED  BY <1>6, <2>1, <3>1
    <3>2. CASE DOMAIN index # {}
      <4> HIDE DEF index, children, grouped
      <4>1. HasMany(items) = Assign(index, items, grouped, {})
        BY <1>6, <3>2
      <4> QED  BY <2>1, <4>1 DEF Assign
    <3> QED  BY <3>1, <3>2
  <2>3. \A i \in 1..Len(items) : HasMany(items)[i] \in SUBSET Ids
    BY <1>7, <2>1 DEF Here
  <2>4. HasMany(items) \in [1..Len(items) -> SUBSET Ids]
    BY <2>2, <2>3
  <2> QED  BY <2>1, <2>4
<1> QED  BY <1>7, <1>8

-----------------------------------------------------------------------------
(* The invariant, and what a step means for a reader's relations. *)

\* What the loaders attach in this step is what it should be.
Attached(r) ==
    /\ ReadAt(r, "listed") /\ ReadAt(r, "authors")' =>
          \A i \in DOMAIN read[r].data :
             LET a == read[r].data[i].author IN
             read'[r].loaded[i] = IF a \in authors THEN a ELSE None
    /\ ReadAt(r, "authors") /\ ReadAt(r, "done")' =>
          \A i \in DOMAIN read[r].loaded :
             read'[r].others[i] = IF read[r].loaded[i] = None THEN {}
                                  ELSE {j \in Here : posts[j].author = read[r].loaded[i]}

LEMMA HereIs == ASSUME OrmInv PROVE Here \in SUBSET Ids /\ Here \subseteq used
BY DEF OrmInv, RowsInv, Here

\* A step of a reader concerns that reader only.
LEMMA ReadMoves ==
    ASSUME OrmInv, RowsInv', NEW r \in Readers, NEW d, SetRead(r, d), ReadInv(d, Here, used),
           d.place # "authors", d.place = "done" => read[r].place # "authors"
    PROVE  OrmInv' /\ \A q \in Readers : Attached(q)
<1>1. /\ UNCHANGED <<posts, used, authors>> /\ Here' = Here
      /\ \A q \in Readers : read'[q] = IF q = r THEN d ELSE read[q]
  <2>1. DOMAIN read = Readers
    BY DEF OrmInv
  <2> QED  BY <2>1 DEF SetRead, Here
<1>2. \A q \in Readers : ReadInv(read[q], Here, used)
  BY DEF OrmInv
<1>3. \A q \in Readers : ReadInv(read'[q], Here', used')
  BY <1>1, <1>2
<1>4. OrmInv'
  <2>1. read' \in [Readers -> Reads]
    <3>1. d \in Reads
      BY DEF ReadInv
    <3> QED  BY <3>1 DEF OrmInv, SetRead
  <2>2. authors' \subseteq Authors
    BY <1>1 DEF OrmInv
  <2> QED  BY <1>3, <2>1, <2>2 DEF OrmInv
<1>5. ASSUME NEW q \in Readers PROVE Attached(q)
  <2>1. CASE q # r
    BY <1>1, <2>1 DEF Attached, ReadAt
  <2>2. CASE q = r
    BY <1>1, <2>2 DEF Attached, ReadAt
  <2> QED  BY <2>1, <2>2
<1> QED  BY <1>4, <1>5

LEMMA FirstPageKept ==
    ASSUME OrmInv, NEW r \in Readers, FirstPage(r)
    PROVE  \E d : SetRead(r, d) /\ ReadInv(d, Here, used) /\ d.place \in {"listed", "failed"}
<1> DEFINE c == read[r]
           q == [Query EXCEPT !.limit = c.perPage, !.offset = PageOffset(c.page, c.perPage)]
           rows == Get(q)
           f == (c.page - 1) * c.perPage
<1>1. /\ ReadInv(c, Here, used) /\ c \in Reads /\ c.place = "get"
      /\ posts \in [Ids -> Rows \cup {None}]
  BY DEF OrmInv, RowsInv, FirstPage, ReadAt
<1>2. c.page \in Nat \ {0} /\ c.perPage \in Nat \ {0} /\ Passed(c) = f /\ f \in Nat
  <2>1. Passed(c) = f
    BY <1>1 DEF Passed
  <2> QED  BY <1>1, <2>1, PassedNat
<1>3. Here \in SUBSET Ids /\ Here \subseteq used
  BY HereIs
<1>4. IF rows = None THEN SetRead(r, [c EXCEPT !.place = "failed"])
      ELSE SetRead(r, IF c.walking
                      THEN [c EXCEPT !.place = "listed", !.walk.seen = @ \o rows]
                      ELSE [c EXCEPT !.place = "listed",
                              !.data = [k \in DOMAIN rows |->
                                 [id |-> rows[k], author |-> posts[rows[k]].author]]])
  BY DEF FirstPage
<1> HIDE DEF c
<1>5. CASE rows = None
  <2> DEFINE d == [c EXCEPT !.place = "failed"]
  <2>1. d \in Reads
    BY <1>1 DEF Reads
  <2>2. /\ d.place = "failed" /\ d.walking = c.walking /\ d.page = c.page
        /\ d.perPage = c.perPage /\ d.total = c.total /\ d.data = c.data /\ d.walk = c.walk
    BY <1>1 DEF Reads
  <2>3. SetRead(r, d)
    BY <1>4, <1>5
  <2> HIDE DEF d
  <2>4. /\ d.page > 0 /\ d.perPage > 0 /\ d.total <= MaxId
        /\ d.walking => d.data = <<>> /\ d.place # "authors"
        /\ d.walk.start \cup ToSet(d.walk.seen) \subseteq used
    BY <1>1, <2>2 DEF ReadInv
  <2>5. ReadInv(d, Here, used)
    BY <2>1, <2>2, <2>4, StillReads
  <2> QED  BY <2>2, <2>3, <2>5
<1>6. CASE rows # None
  <2> DEFINE o == PageOffset(c.page, c.perPage)
  <2>1. o = Wrap(f) /\ o \in Int
    <3>1. IntLimit \in Nat \ {0}
      BY OrmAssumption
    <3>2. o = Wrap(f)
      BY DEF PageOffset
    <3> QED  BY <1>2, <3>1, <3>2 DEF Wrap
  <2>2. c.perPage \in Nat
    BY <1>2
  <2> HIDE DEF o, f
  <2>3. /\ o \in Nat
        /\ rows \in Seq(Here)
        /\ Len(rows) = Cardinality(ToSet(rows))
        /\ ToSet(rows) = Top(Here, o + c.perPage) \ Top(Here, o)
        /\ o >= Cardinality(Here) => rows = <<>>
    <3>1. q = [Query EXCEPT !.limit = c.perPage, !.offset = o]
      BY DEF o
    <3> HIDE DEF q
    <3> QED  BY <1>1, <1>6, <2>1, <2>2, <3>1, PageIs
  <2>4. f < IntLimit => o = f
    BY <1>2, <2>1, WrapIs
  <2> HIDE DEF rows
  <2>5. CASE c.walking
    <3> DEFINE d == [c EXCEPT !.place = "listed", !.walk.seen = @ \o rows]
    <3>1. SetRead(r, d)
      BY <1>4, <1>6, <2>5
    <3>2. d.place = "listed"
      BY <1>1 DEF Reads
    <3>3. f < IntLimit
      BY <1>1, <2>5 DEF ReadInv, LineInv, Walks, f
    <3>4. ReadInv(d, Here, used)
      BY <1>1, <1>2, <1>3, <2>3, <2>4, <2>5, <3>3, PageTurned
    <3> QED  BY <3>1, <3>2, <3>4
  <2>6. CASE ~c.walking
    <3> DEFINE data == [k \in DOMAIN rows |->
                          [id |-> rows[k], author |-> posts[rows[k]].author]]
               d == [c EXCEPT !.place = "listed", !.data = data]
    <3>1. SetRead(r, d)
      BY <1>4, <1>6, <2>6
    <3>2. d.place = "listed"
      BY <1>1 DEF Reads
    <3>3. data \in Seq([id : Ids, author : Authors \cup {0}])
      <4>1. Len(rows) \in Nat /\ DOMAIN rows = 1..Len(rows)
        BY <2>3
      <4>2. \A k \in 1..Len(rows) : rows[k] \in Ids /\ posts[rows[k]] \in Rows
        BY <1>1, <1>3, <2>3, <4>1 DEF Here
      <4>3. \A k \in 1..Len(rows) : posts[rows[k]].author \in Authors \cup {0}
        BY <4>2 DEF Rows
      <4> DEFINE T == [id : Ids, author : Authors \cup {0}]
                 n == Len(rows)
      <4>4. data \in [1..n -> T]
        BY <4>1, <4>2, <4>3
      <4>5. n \in Nat
        BY <4>1
      <4> HIDE DEF data, T, n
      <4>6. data \in Seq(T)
        BY <4>4, <4>5
      <4> QED  BY <4>6 DEF T
    <3>4. f < IntLimit /\ f >= Cardinality(Here) => data = <<>>
      <4>1. rows = <<>> => data = <<>>
        OBVIOUS
      <4> QED  BY <2>3, <2>4, <4>1
    <3> HIDE DEF data
    <3>5. ReadInv(d, Here, used)
      BY <1>1, <1>3, <2>6, <3>3, <3>4, PageShown DEF f
    <3> QED  BY <3>1, <3>2, <3>5
  <2> QED  BY <2>5, <2>6
<1> QED  BY <1>5, <1>6

\* A reader that fails, or whose relations are loaded, does not walk.
LEMMA ReaderLeaves ==
    ASSUME OrmInv, NEW r \in Readers, NEW d \in Reads,
           d.place \in {"failed", "authors", "done", "panicked"},
           d.walk = read[r].walk, d.walking = read[r].walking, d.page = read[r].page,
           d.perPage = read[r].perPage, d.total = read[r].total, d.data = read[r].data,
           ~d.walking \/ d.place \in {"failed", "panicked"}
    PROVE  ReadInv(d, Here, used)
<1>1. ReadInv(read[r], Here, used)
  BY DEF OrmInv
<1>2. /\ d.page > 0 /\ d.perPage > 0 /\ d.total <= MaxId
      /\ d.walking => d.data = <<>> /\ d.place # "authors"
      /\ d.walk.start \cup ToSet(d.walk.seen) \subseteq used
  BY <1>1 DEF ReadInv
<1> QED  BY <1>2, StillReads

LEMMA LoadKept ==
    ASSUME OrmInv, RowsInv', NEW r \in Readers,
           LoadAuthors(r) \/ LoadOthers(r) \/ ReadFails(r)
    PROVE  OrmInv' /\ \A q \in Readers : Attached(q)
<1> DEFINE c == read[r]
<1>1. /\ ReadInv(c, Here, used) /\ c \in Reads
      /\ posts \in [Ids -> Rows \cup {None}] /\ authors \subseteq Authors
      /\ read \in [Readers -> Reads]
  BY DEF OrmInv, RowsInv
\* What has to be shown of the record that the reader gets.
<1>2. ASSUME NEW d \in Reads, SetRead(r, d),
             d.place \in {"failed", "authors", "done", "panicked"},
             d.walk = c.walk, d.walking = c.walking, d.page = c.page,
             d.perPage = c.perPage, d.total = c.total, d.data = c.data,
             ~d.walking \/ d.place \in {"failed", "panicked"},
             d.place = "authors" => c.place = "listed" /\ \A i \in DOMAIN c.data :
                d.loaded[i] = IF c.data[i].author \in authors THEN c.data[i].author ELSE None,
             d.place = "done" => c.place = "authors" /\ \A i \in DOMAIN c.loaded :
                d.others[i] = IF c.loaded[i] = None THEN {}
                              ELSE {j \in Here : posts[j].author = c.loaded[i]}
      PROVE  OrmInv' /\ \A q \in Readers : Attached(q)
  <2>1. ReadInv(d, Here, used)
    BY <1>2, ReaderLeaves
  <2>2. /\ UNCHANGED <<posts, used, authors>> /\ Here' = Here
        /\ \A q \in Readers : read'[q] = IF q = r THEN d ELSE read[q]
        /\ read' \in [Readers -> Reads]
    BY <1>1, <1>2 DEF SetRead, Here
  <2>3. \A q \in Readers : ReadInv(read'[q], Here', used')
    BY <2>1, <2>2 DEF OrmInv
  <2>4. OrmInv'
    BY <1>1, <2>2, <2>3 DEF OrmInv
  <2>5. ASSUME NEW q \in Readers PROVE Attached(q)
    <3>1. CASE q # r
      BY <2>2, <3>1 DEF Attached, ReadAt
    <3>2. CASE q = r
      <4>1. read'[q] = d
        BY <2>2, <3>2
      <4> QED  BY <1>2, <3>2, <4>1 DEF Attached, ReadAt
    <3> QED  BY <3>1, <3>2
  <2> QED  BY <2>4, <2>5
<1>3. CASE LoadAuthors(r)
  <2> DEFINE l == BelongsTo(c.data)
             d == [c EXCEPT !.place = "authors", !.loaded = l]
  <2>1. c.place = "listed" /\ ~c.walking /\ SetRead(r, d)
    BY <1>3 DEF LoadAuthors, ReadAt
  <2>2. c.data \in Seq([id : Ids, author : Authors \cup {0}])
    BY <1>1 DEF Reads
  <2>3. /\ l \in Seq(Authors \cup {None})
        /\ \A i \in DOMAIN c.data :
              l[i] = IF c.data[i].author \in authors THEN c.data[i].author ELSE None
    BY <1>1, <2>2, BelongsToIs
  <2> HIDE DEF l, c
  <2>4. d \in Reads
    BY <1>1, <2>3 DEF Reads
  <2>5. /\ d.place = "authors" /\ d.walk = c.walk /\ d.walking = c.walking /\ d.page = c.page
        /\ d.perPage = c.perPage /\ d.total = c.total /\ d.data = c.data /\ d.loaded = l
    BY <1>1 DEF Reads
  <2> HIDE DEF d
  <2> QED  BY <1>2, <2>1, <2>3, <2>4, <2>5
<1>4. CASE LoadOthers(r)
  <2> DEFINE o == HasMany(c.loaded)
             d == [c EXCEPT !.place = "done", !.others = o]
             p == [c EXCEPT !.place = "panicked"]
             f == [c EXCEPT !.place = "failed"]
  <2>1. c.place = "authors" /\ ~c.walking
    BY <1>1, <1>4 DEF LoadOthers, ReadAt, ReadInv
  <2>2. \/ SetRead(r, f)
        \/ SetRead(r, p)
        \/ o # None /\ SetRead(r, d)
    BY <1>4 DEF LoadOthers
  <2>3. c.loaded \in Seq(Authors \cup {None})
    BY <1>1 DEF Reads
  <2>4. o # None =>
           /\ o \in Seq(SUBSET Ids)
           /\ \A i \in DOMAIN c.loaded :
                 o[i] = IF c.loaded[i] = None THEN {}
                        ELSE {j \in Here : posts[j].author = c.loaded[i]}
    BY <1>1, <2>3, HasManyIs
  <2> HIDE DEF o, c
  <2>5. CASE o # None /\ SetRead(r, d)
    <3>1. d \in Reads
      BY <1>1, <2>4, <2>5 DEF Reads
    <3>2. /\ d.place = "done" /\ d.walk = c.walk /\ d.walking = c.walking /\ d.page = c.page
          /\ d.perPage = c.perPage /\ d.total = c.total /\ d.data = c.data /\ d.others = o
      BY <1>1 DEF Reads
    <3> HIDE DEF d
    <3> QED  BY <1>2, <2>1, <2>4, <2>5, <3>1, <3>2
  <2>6. CASE SetRead(r, p)
    <3>1. p \in Reads
      BY <1>1 DEF Reads
    <3>2. /\ p.place = "panicked" /\ p.walk = c.walk /\ p.walking = c.walking
          /\ p.page = c.page /\ p.perPage = c.perPage /\ p.total = c.total /\ p.data = c.data
      BY <1>1 DEF Reads
    <3> HIDE DEF p
    <3> QED  BY <1>2, <2>6, <3>1, <3>2
  <2>7. CASE SetRead(r, f)
    <3>1. f \in Reads
      BY <1>1 DEF Reads
    <3>2. /\ f.place = "failed" /\ f.walk = c.walk /\ f.walking = c.walking
          /\ f.page = c.page /\ f.perPage = c.perPage /\ f.total = c.total /\ f.data = c.data
      BY <1>1 DEF Reads
    <3> HIDE DEF f
    <3> QED  BY <1>2, <2>7, <3>1, <3>2
  <2> QED  BY <2>2, <2>5, <2>6, <2>7
<1>5. CASE ReadFails(r)
  <2> DEFINE f == [c EXCEPT !.place = "failed"]
  <2>1. SetRead(r, f)
    BY <1>5 DEF ReadFails
  <2> HIDE DEF c
  <2>2. f \in Reads
    BY <1>1 DEF Reads
  <2>3. /\ f.place = "failed" /\ f.walk = c.walk /\ f.walking = c.walking
        /\ f.page = c.page /\ f.perPage = c.perPage /\ f.total = c.total /\ f.data = c.data
    BY <1>1 DEF Reads
  <2> HIDE DEF f
  <2> QED  BY <1>2, <2>1, <2>2, <2>3
<1> QED  BY <1>3, <1>4, <1>5

LEMMA StepOrm ==
    ASSUME OrmInv, [OrmNext]_ormVars
    PROVE  OrmInv' /\ \A q \in Readers : Attached(q)
<1>0. RowsInv' /\ RowsInv
  BY StepRows DEF OrmInv
<1>1. Here \in SUBSET Ids /\ Here \subseteq used /\ used \in SUBSET Ids
  BY <1>0, HereIs DEF RowsInv
<1>2. ASSUME NEW r \in Readers
      PROVE  read[r] \in Reads /\ ReadInv(read[r], Here, used)
  BY DEF OrmInv
\* Steps that leave the readers and the rows' ids alone.
<1>3. ASSUME UNCHANGED <<used, read>>, Here' = Here, authors' \subseteq Authors
      PROVE  OrmInv' /\ \A q \in Readers : Attached(q)
  <2>1. \A q \in Readers : Attached(q)
    BY <1>3 DEF Attached, ReadAt
  <2>2. \A q \in Readers : ReadInv(read'[q], Here', used')
    BY <1>2, <1>3
  <2> QED  BY <1>0, <1>3, <2>1, <2>2 DEF OrmInv
\* Steps of writers that readers have to reckon with.
<1>4. ASSUME read' = [q \in Readers |-> read'[q]], UNCHANGED authors,
             \A q \in Readers : ReadInv(read'[q], Here', used'),
             \A q \in Readers : read'[q].place = read[q].place
      PROVE  OrmInv' /\ \A q \in Readers : Attached(q)
  <2>1. \A q \in Readers : Attached(q)
    BY <1>4 DEF Attached, ReadAt
  <2>2. \A q \in Readers : ReadInv(read'[q], Here', used') /\ read'[q] \in Reads
    BY <1>4 DEF ReadInv
  <2>3. read' \in [Readers -> Reads]
    BY <1>4, <2>2
  <2> QED  BY <1>0, <1>4, <2>1, <2>2, <2>3 DEF OrmInv
<1>5. ASSUME NEW r \in Readers, NEW n \in PerPages, StartWalk(r, n)
      PROVE  OrmInv' /\ \A q \in Readers : Attached(q)
  <2> DEFINE d == [IdleRead EXCEPT !.place = "count", !.walking = TRUE,
                                   !.walk.start = Here, !.perPage = ClampPerPage(n)]
  <2>1. ClampPerPage(n) \in Nat \ {0}
    BY ClampsAre, OrmAssumption
  <2>2. ReadInv(d, Here, used)
    BY <1>1, <2>1, WalkStarts
  <2>3. SetRead(r, d) /\ d.place = "count"
    BY <1>5 DEF StartWalk, IdleRead
  <2> HIDE DEF d
  <2> QED  BY <1>0, <2>2, <2>3, ReadMoves
<1>6. ASSUME NEW r \in Readers, NEW n \in PerPages, NEW p \in Pages, AskPage(r, p, n)
      PROVE  OrmInv' /\ \A q \in Readers : Attached(q)
  <2> DEFINE d == [IdleRead EXCEPT !.place = "count", !.page = ClampPage(p),
                                   !.perPage = ClampPerPage(n)]
  <2>1. ClampPerPage(n) \in Nat \ {0} /\ ClampPage(p) \in Nat \ {0}
    BY ClampsAre, OrmAssumption
  <2>2. ReadInv(d, Here, used)
    BY <2>1, PageAsked
  <2>3. SetRead(r, d) /\ d.place = "count"
    BY <1>6 DEF AskPage, IdleRead
  <2> HIDE DEF d
  <2> QED  BY <1>0, <2>2, <2>3, ReadMoves
<1>7. ASSUME NEW r \in Readers, Count(r)
      PROVE  OrmInv' /\ \A q \in Readers : Attached(q)
  <2> DEFINE n == Cardinality(Here)
             d == [read[r] EXCEPT !.place = "get", !.total = n, !.walk.late = 0]
  <2>1. CountOf(Query) = n
    <3>1. {i \in Here : Matches(i, Query)} = Here
      BY DEF Matches, Query
    <3> QED  BY <3>1 DEF CountOf
  <2>2. ReadInv(d, Here, used)
    BY <1>1, <1>2, <1>7, CountKept DEF Count, ReadAt
  <2>3. SetRead(r, d) /\ d.place = "get"
    BY <1>2, <1>7, <2>1 DEF Count, Reads
  <2> HIDE DEF d
  <2> QED  BY <1>0, <2>2, <2>3, ReadMoves
<1>8. ASSUME NEW r \in Readers, FirstPage(r)
      PROVE  OrmInv' /\ \A q \in Readers : Attached(q)
  BY <1>0, <1>8, FirstPageKept, ReadMoves
<1>9. ASSUME NEW r \in Readers, NextPage(r)
      PROVE  OrmInv' /\ \A q \in Readers : Attached(q)
  <2> DEFINE c == read[r]
             d == [c EXCEPT !.place = "count", !.page = @ + 1]
             e == [c EXCEPT !.place = "done"]
  <2>0. c.place = "listed" /\ c.walking
    BY <1>9 DEF NextPage, ReadAt
  <2>1. CASE c.page < TotalPages(c.total, c.perPage)
    <3>1. SetRead(r, d) /\ d.place = "count"
      BY <1>2, <1>9, <2>1 DEF NextPage, Reads
    <3>2. ReadInv(d, Here, used)
      BY <1>1, <1>2, <2>0, <2>1, NextKept
    <3> HIDE DEF d
    <3> QED  BY <1>0, <3>1, <3>2, ReadMoves
  <2>2. CASE ~(c.page < TotalPages(c.total, c.perPage))
    <3>1. SetRead(r, e) /\ e.place = "done"
      BY <1>2, <1>9, <2>2 DEF NextPage, Reads
    <3>2. ReadInv(e, Here, used)
      BY <1>1, <1>2, <2>0, <2>2, WalkEnds
    <3> HIDE DEF e
    <3> QED  BY <1>0, <2>0, <3>1, <3>2, ReadMoves
  <2> QED  BY <2>1, <2>2
<1>10. ASSUME NEW r \in Readers, LoadAuthors(r) \/ LoadOthers(r) \/ ReadFails(r)
       PROVE  OrmInv' /\ \A q \in Readers : Attached(q)
  BY <1>0, <1>10, LoadKept
<1>11. ASSUME NEW w \in Writers, Create(w)
       PROVE  OrmInv' /\ \A q \in Readers : Attached(q)
  <2>1. PICK i \in Ids \ used, a \in Authors \cup {0} :
            /\ posts' = [posts EXCEPT ![i] = [author |-> a, created |-> TRUE]]
            /\ used' = used \cup {i}
    BY <1>11 DEF Create
  <2>2. [author |-> a, created |-> TRUE] # None
    <3>1. [author |-> a, created |-> TRUE] \in Rows
      BY DEF Rows
    <3> QED  BY <3>1, OrmAssumption
  <2>3. Here' = Here \cup {i}
    BY <1>0, <2>1, <2>2 DEF Here, RowsInv
  <2>4. \A q \in Readers : ReadInv(MadeRead(read[q]), Here', used')
    BY <1>1, <1>2, <2>1, <2>3, MadeKept
  <2>5. read' = [q \in Readers |-> MadeRead(read[q])]
    BY <1>11 DEF Create, RowMade, MadeRead, Walking, ReadAt
  <2>6. \A q \in Readers : MadeRead(read[q]).place = read[q].place
    BY <1>2 DEF MadeRead, Reads
  <2>7. UNCHANGED authors
    BY <1>11 DEF Create
  <2>8. /\ read' = [q \in Readers |-> read'[q]]
        /\ \A q \in Readers : read'[q] = MadeRead(read[q])
    BY <2>5
  <2> QED  BY <1>4, <2>4, <2>6, <2>7, <2>8
<1>12. ASSUME NEW w \in Writers, Delete(w)
       PROVE  OrmInv' /\ \A q \in Readers : Attached(q)
  <2> DEFINE i == write[w].id
  <2>1. i \in Ids /\ posts' = [posts EXCEPT ![i] = None] /\ UNCHANGED <<used, authors>>
    BY <1>0, <1>12 DEF Delete, WriteAt, RowsInv, Held
  <2>2. Here' = Here \ {i}
    BY <1>0, <2>1 DEF Here, RowsInv
  <2>3. CASE posts[i] = None
    <3>1. Here' = Here /\ UNCHANGED read
      BY <1>12, <2>2, <2>3 DEF Delete, Here
    <3> QED  BY <1>3, <2>1, <3>1 DEF OrmInv
  <2>4. CASE posts[i] # None
    <3>1. i \in Here
      BY <2>1, <2>4 DEF Here
    <3>2. read' = [q \in Readers |-> GoneRead(read[q])]
      BY <1>12, <2>4 DEF Delete, RowGone, GoneRead, Walking, Walks, ReadAt
    <3>3. \A q \in Readers : ReadInv(GoneRead(read[q]), Here', used')
      BY <1>1, <1>2, <2>1, <2>2, <3>1, GoneKept
    <3>4. \A q \in Readers : GoneRead(read[q]).place = read[q].place
      BY <1>2 DEF GoneRead, Reads
    <3>5. /\ read' = [q \in Readers |-> read'[q]]
          /\ \A q \in Readers : read'[q] = GoneRead(read[q])
      BY <3>2
    <3> QED  BY <1>4, <2>1, <3>3, <3>4, <3>5
  <2> QED  BY <2>3, <2>4
<1>13. ASSUME NEW w \in Writers, Update(w)
       PROVE  OrmInv' /\ \A q \in Readers : Attached(q)
  <2>1. UNCHANGED <<used, authors, read>>
    BY <1>13 DEF Update
  <2>2. Here' = Here
    <3>1. write[w].id \in Ids /\ write[w].record \in Rows
      BY <1>0, <1>13 DEF Update, WriteAt, RowsInv, Held
    <3>2. PICK a \in Authors \cup {0} :
             posts' = [posts EXCEPT ![write[w].id] =
                          Store(posts[write[w].id], [write[w].record EXCEPT !.author = a])]
      BY <1>13 DEF Update
    <3>3. [write[w].record EXCEPT !.author = a] \in Rows
      BY <3>1 DEF Rows
    <3>4. posts[write[w].id] = None <=> posts'[write[w].id] = None
      BY <1>0, <3>1, <3>2, <3>3, StoreType DEF RowsInv
    <3>5. \A j \in Ids : posts'[j] = None <=> posts[j] = None
      BY <1>0, <3>2, <3>4 DEF RowsInv
    <3> QED  BY <3>5 DEF Here
  <2> QED  BY <1>3, <2>1, <2>2 DEF OrmInv
<1>14. ASSUME NEW w \in Writers,
              \/ \E i \in Ids : Find(w, i) \/ FindToDelete(w, i)
              \/ NoKey(w) \/ WriteFails(w)
       PROVE  OrmInv' /\ \A q \in Readers : Attached(q)
  <2>1. UNCHANGED <<posts, used, authors, read>>
    BY <1>14 DEF Find, FindToDelete, NoKey, WriteFails
  <2> QED  BY <1>3, <2>1 DEF Here, OrmInv
<1>15. ASSUME NEW a \in Authors, DeleteAuthor(a)
       PROVE  OrmInv' /\ \A q \in Readers : Attached(q)
  <2>1. UNCHANGED <<posts, used, read>> /\ authors' \subseteq Authors
    BY <1>15 DEF DeleteAuthor, OrmInv
  <2> QED  BY <1>3, <2>1 DEF Here
<1>16. CASE UNCHANGED ormVars
  BY <1>3, <1>16 DEF ormVars, Here, OrmInv
<1>17. CASE OrmNext
  BY <1>5, <1>6, <1>7, <1>8, <1>9, <1>10, <1>11, <1>12, <1>13, <1>14, <1>15, <1>17
     DEF OrmNext
<1> QED  BY <1>16, <1>17

LEMMA InitOrm == OrmInit => OrmInv
<1> SUFFICES ASSUME OrmInit PROVE OrmInv
  OBVIOUS
<1>1. RowsInv
  BY InitRowsInv
<1>2. authors = Authors /\ read = [r \in Readers |-> IdleRead]
  BY DEF OrmInit
<1>3. ReadInv(IdleRead, Here, used)
  <2>1. IdleRead \in Reads
    BY IdleReads
  <2>2. /\ IdleRead.place = "idle" /\ ~IdleRead.walking /\ IdleRead.page = 1
        /\ IdleRead.perPage = 1 /\ IdleRead.total = 0
        /\ IdleRead.walk.start = {} /\ IdleRead.walk.seen = <<>>
    BY DEF IdleRead, Fresh
  <2>3. ToSet(<<>>) = {} /\ 0 <= MaxId
    BY OrmAssumption DEF ToSet
  <2> QED  BY <2>1, <2>2, <2>3, StillReads
<1> QED  BY <1>1, <1>2, <1>3, IdleReads DEF OrmInv

LEMMA OrmInductive == OrmSpec => []OrmInv
<1>1. OrmInv /\ [OrmNext]_ormVars => OrmInv'
  BY StepOrm
<1> QED  BY <1>1, InitOrm, PTL DEF OrmSpec

\* Every reachable state of the table, its readers and its writers is well typed.
THEOREM OrmTyped == OrmSpec => []OrmTypeOK
<1>1. OrmInv => OrmTypeOK
  BY DEF OrmInv, RowsInv, OrmTypeOK, Held
<1> QED  BY <1>1, OrmInductive, PTL

\* A walk over the pages (query.go:311-354) misses no more rows than were deleted
\* meanwhile or created behind the last Count, and repeats no more than were created,
\* for any numbers of rows, clients and writers and any page size.
THEOREM WalksLoseLittle == OrmSpec => []WalkLosesLittle
<1>1. OrmInv => WalkLosesLittle
  <2> SUFFICES ASSUME OrmInv, NEW r \in Readers, read[r].walking, ReadAt(r, "done")
               PROVE  LET w == read[r].walk
                          missed == {i \in w.start : posts[i] # None} \ ToSet(w.seen)
                      IN /\ Cardinality(missed) <= w.gone + w.late
                         /\ Len(w.seen) - Cardinality(ToSet(w.seen)) <= w.made
    BY DEF WalkLosesLittle
  <2>1. EndInv(read[r], Here) /\ read[r].walk.start \subseteq Ids
    BY DEF OrmInv, ReadInv, Reads, Walk
  <2>2. {i \in read[r].walk.start : posts[i] # None} = read[r].walk.start \cap Here
    BY <2>1 DEF Here
  <2> QED  BY <2>1, <2>2 DEF EndInv, ReadAt, Unseen, Repeats
<1> QED  BY <1>1, OrmInductive, PTL

\* A page past the last is empty while (page - 1) * perPage fits an int (query.go:328).
THEOREM FarPagesAreEmpty == OrmSpec => []FarPageIsEmpty
<1>1. OrmInv => FarPageIsEmpty
  BY DEF OrmInv, ReadInv, FarInv, FarPageIsEmpty, ReadAt
<1> QED  BY <1>1, OrmInductive, PTL

\* The relations that the loaders attach are those a query per row would find
\* (relations.go:31-146), for lists of any length and keys.
THEOREM RelationsAreExact == OrmSpec => RelationsExact
<1>1. OrmInv /\ [OrmNext]_ormVars =>
        [\A r \in Readers :
          /\ ReadAt(r, "listed") /\ ReadAt(r, "authors")' =>
                \A i \in DOMAIN read[r].data :
                   LET a == read[r].data[i].author IN
                   read'[r].loaded[i] = IF a \in authors THEN a ELSE None
          /\ ReadAt(r, "authors") /\ ReadAt(r, "done")' =>
                \A i \in DOMAIN read[r].loaded :
                   read'[r].others[i] = IF read[r].loaded[i] = None THEN {}
                                        ELSE {j \in Here : posts[j].author = read[r].loaded[i]}
        ]_ormVars
  BY StepOrm DEF Attached
<1> QED  BY <1>1, OrmInductive, PTL DEF OrmSpec, RelationsExact
===============================================================================
