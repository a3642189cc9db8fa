---------------------------- MODULE Accounts_proofs ----------------------------
(***************************************************************************)
(* Proofs about Accounts, for any numbers of goroutines, emails,           *)
(* connections, slots and Configures: the type invariant, that nothing is  *)
(* kept, that a transaction is all or nothing, and that a user's hash is   *)
(* of that user's password.                                                *)
(*                                                                         *)
(* A row that a login carries from its SELECT to its UPDATE may be of a    *)
(* user that is gone, and its email another's.  The invariant says of      *)
(* every row, in the table or in a call, that its hash is of the password  *)
(* of the call that registered it (GoodRow); an UPDATE that matches by id  *)
(* then stores nothing else.                                               *)
(***************************************************************************)
EXTENDS Accounts, FiniteSetTheorems, TLAPS

GoodRow(row) ==
    /\ row \in Users
    /\ row.id = Earlier => row.hash.password = EarlierPassword
    /\ row.id # Earlier => /\ call[row.id].place # "idle"
                           /\ row.hash.password = call[row.id].password

WithRow == {"verify", "rehash", "update", "create", "issue"}

CallOK(c) ==
    /\ c \in Calls
    /\ c.place \in Computing \cup Statements =>
          /\ c.kind \in {"register", "login"}
          /\ c.email \in Emails
          /\ c.password \in Passwords
    /\ c.place \in {"begin"} \cup InTransaction => c.kind = "tx"
    /\ c.slot => c.place \in Computing /\ c.sem \in Gens
    /\ c.maybe => c.place = "error"
    /\ c.place = "idle" => ~c.ended
    /\ c.place = "rehash" => c.row.hash.password = c.password

CallsOK == \A g \in Goroutines :
    /\ CallOK(call[g])
    /\ call[g].place \in WithRow => GoodRow(call[g].row)
UsersOK == \A e \in Emails : users[e] # None => GoodRow(users[e])

InSlot(n) == {g \in Goroutines : call[g].slot /\ call[g].sem = n}
SlotsOK == \A n \in Gens : slots[n] = Cardinality(InSlot(n))
HeldOK == \A g \in held : call[g].place \in InTransaction \/ call[g].ended
PoolsOK == pools = (IF db \in {"running", "up"} THEN 1 ELSE 0)

IInv ==
    /\ TypeOK
    /\ CallsOK
    /\ UsersOK
    /\ SlotsOK
    /\ HeldOK
    /\ PoolsOK
    /\ AllOrNothing

-----------------------------------------------------------------------------
(* What one call may do to the rows and to the count of the slots. *)

\* A call goes on from where it was, with the password it came with.
Moves(g, c) ==
    /\ CallOK(c)
    /\ c.place # "idle"
    /\ call[g].place # "idle" => c.password = call[g].password
    /\ c.place \in WithRow => GoodRow(c.row)

SameSlot(g, c) == (c.slot <=> call[g].slot) /\ (c.slot => c.sem = call[g].sem)

\* Rows stay as good as they were.
LEMMA RowsStay ==
    ASSUME TypeOK, NEW g \in Goroutines, NEW c, Set(g, c), Moves(g, c),
           NEW row, GoodRow(row)
    PROVE  GoodRow(row)'
<1>1. row \in Users /\ (row.id # Earlier => row.id \in Goroutines)
  BY DEF GoodRow, Users
<1>2. \A h \in Goroutines : call'[h] = IF h = g THEN c ELSE call[h]
  BY DEF Set, TypeOK
<1>3. ASSUME row.id # Earlier
      PROVE  call'[row.id].place # "idle" /\ row.hash.password = call'[row.id].password
  <2>1. call[row.id].place # "idle" /\ row.hash.password = call[row.id].password
    BY <1>3 DEF GoodRow
  <2>2. CASE row.id = g
    BY <1>1, <1>2, <1>3, <2>1, <2>2 DEF Moves
  <2>3. CASE row.id # g
    BY <1>1, <1>2, <1>3, <2>1, <2>3
  <2> QED  BY <2>2, <2>3
<1> QED  BY <1>1, <1>3 DEF GoodRow

\* Calls stay as they should be.
LEMMA CallsStay ==
    ASSUME TypeOK, CallsOK, NEW g \in Goroutines, NEW c, Set(g, c), Moves(g, c)
    PROVE  CallsOK' /\ call' \in [Goroutines -> Calls]
<1>1. \A h \in Goroutines : call'[h] = IF h = g THEN c ELSE call[h]
  BY DEF Set, TypeOK
<1>2. \A row : GoodRow(row) => GoodRow(row)'
  BY RowsStay
<1>3. c.place \in WithRow => GoodRow(c.row)'
  BY <1>2 DEF Moves
<1>4. CallsOK'
  <2> SUFFICES ASSUME NEW h \in Goroutines, NEW d, d = call'[h]
               PROVE  CallOK(d) /\ (d.place \in WithRow => GoodRow(d.row)')
    BY DEF CallsOK, CallOK
  <2>1. CASE h = g
    BY <1>1, <1>3, <2>1 DEF Moves
  <2>2. CASE h # g
    <3>1. d = call[h]
      BY <1>1, <2>2
    <3>2. CallOK(d) /\ (d.place \in WithRow => GoodRow(d.row))
      BY <3>1 DEF CallsOK
    <3> QED  BY <1>2, <3>2
  <2> QED  BY <2>1, <2>2
<1>5. call' \in [Goroutines -> Calls]
  BY DEF Set, TypeOK, Moves, CallOK
<1> QED  BY <1>4, <1>5

\* The slots are counted as they were.
LEMMA SlotsStay ==
    ASSUME TypeOK, SlotsOK, NEW g \in Goroutines, NEW c, Set(g, c), SameSlot(g, c),
           UNCHANGED slots
    PROVE  SlotsOK'
<1>1. \A h \in Goroutines : call'[h] = IF h = g THEN c ELSE call[h]
  BY DEF Set, TypeOK
<1>2. ASSUME NEW n \in Gens PROVE InSlot(n)' = InSlot(n)
  <2>1. ASSUME NEW h \in Goroutines
        PROVE  (call'[h].slot /\ call'[h].sem = n) <=> (call[h].slot /\ call[h].sem = n)
    BY <1>1 DEF SameSlot
  <2> QED  BY <2>1 DEF InSlot
<1> QED  BY <1>2 DEF SlotsOK

\* A step of a call, with the shared state it leaves behind.
LEMMA OneCall ==
    ASSUME IInv, NEW g \in Goroutines, NEW c, Set(g, c), Moves(g, c),
           UNCHANGED <<db, exec, pools, gen>>,
           slots' \in [Gens -> 0..MaxConcurrent], SlotsOK',
           users' \in [Emails -> Users \cup {None}],
           \A e \in Emails : \A row : row = users'[e] /\ row # None => GoodRow(row),
           held' \subseteq held \cup {g},
           g \in held' => c.place \in InTransaction \/ c.ended,
           done \subseteq done', done' \subseteq done \cup {g},
           c.kind = "tx" /\ c.place = "ok" => g \in done',
           g \in done' => c.place = "ok" \/ c.maybe
    PROVE  IInv'
<1>1. TypeOK /\ CallsOK
  BY DEF IInv
<1>2. \A h \in Goroutines : call'[h] = IF h = g THEN c ELSE call[h]
  BY <1>1 DEF Set, TypeOK
<1>3. CallsOK' /\ call' \in [Goroutines -> Calls]
  BY <1>1, CallsStay
<1>4. TypeOK'
  BY <1>1, <1>3 DEF TypeOK
<1>5. UsersOK'
  <2>1. \A row : GoodRow(row) => GoodRow(row)'
    BY <1>1, RowsStay
  <2> SUFFICES ASSUME NEW e \in Emails, NEW row, row = users'[e], row # None
               PROVE  GoodRow(row)'
    BY DEF UsersOK
  <2> QED  BY <2>1
<1>6. HeldOK'
  <2> SUFFICES ASSUME NEW h \in held' PROVE call'[h].place \in InTransaction \/ call'[h].ended
    BY DEF HeldOK
  <2>1. CASE h = g
    BY <1>2, <2>1
  <2>2. CASE h # g
    <3>1. h \in Goroutines /\ (call[h].place \in InTransaction \/ call[h].ended)
      BY <1>1, <2>2 DEF IInv, HeldOK, TypeOK
    <3> QED  BY <1>2, <2>2, <3>1
  <2> QED  BY <2>1, <2>2
<1>7. PoolsOK'
  BY DEF IInv, PoolsOK
<1>8. AllOrNothing'
  <2> SUFFICES ASSUME NEW h \in Goroutines
               PROVE  /\ call'[h].kind = "tx" /\ call'[h].place = "ok" => h \in done'
                      /\ h \in done' => call'[h].place = "ok" \/ call'[h].maybe
    BY DEF AllOrNothing, At
  <2>1. CASE h = g
    BY <1>2, <2>1
  <2>2. CASE h # g
    <3>1. /\ call[h].kind = "tx" /\ call[h].place = "ok" => h \in done
          /\ h \in done => call[h].place = "ok" \/ call[h].maybe
      BY DEF IInv, AllOrNothing, At
    <3>2. h \in done' <=> h \in done
      BY <2>2
    <3> QED  BY <1>2, <2>2, <3>1, <3>2
  <2> QED  BY <2>1, <2>2
<1> QED  BY <1>3, <1>4, <1>5, <1>6, <1>7, <1>8 DEF IInv

\* What holds of a call that is not over: it has not committed.
LEMMA NotOver ==
    ASSUME IInv, NEW g \in Goroutines, call[g].place \notin Answers
    PROVE  g \notin done /\ call[g].maybe = FALSE
<1>1. CallOK(call[g]) /\ call[g] \in Calls
  BY DEF IInv, CallsOK, CallOK
<1>2. call[g].maybe = FALSE
  BY <1>1 DEF CallOK, Calls, Answers
<1> QED  BY <1>2 DEF IInv, AllOrNothing, At, Answers

\* A call that changes nothing else, and is not the answer of a transaction.
LEMMA PlainCall ==
    ASSUME IInv, NEW g \in Goroutines, NEW c, Set(g, c), Moves(g, c), SameSlot(g, c),
           call[g].place \notin Answers,
           c.kind = "tx" => c.place # "ok",
           g \in held => c.place \in InTransaction \/ c.ended,
           UNCHANGED <<db, exec, resources, users, done>>
    PROVE  IInv'
<1>1. SlotsOK'
  BY SlotsStay DEF IInv, resources
<1>2. UNCHANGED <<db, exec, pools, held, gen, slots, users, done>>
  BY DEF resources
<1>3. \A e \in Emails : \A row : row = users'[e] /\ row # None => GoodRow(row)
  BY <1>2 DEF IInv, UsersOK
<1>4. slots' \in [Gens -> 0..MaxConcurrent] /\ users' \in [Emails -> Users \cup {None}]
  BY <1>2 DEF IInv, TypeOK
<1>5. g \notin done'
  BY <1>2, NotOver
<1> QED  BY <1>1, <1>2, <1>3, <1>4, <1>5, OneCall

-----------------------------------------------------------------------------
(* Steps that leave the calls alone. *)

LEMMA NoCall ==
    ASSUME IInv, UNCHANGED <<slots, call, done>>, held' \subseteq held,
           \A e \in Emails : users'[e] # None => users'[e] = users[e],
           TypeOK', PoolsOK'
    PROVE  IInv'
<1>1. CallsOK'
  BY DEF IInv, CallsOK, GoodRow
<1>2. UsersOK'
  <2> SUFFICES ASSUME NEW e \in Emails, NEW row, row = users'[e], row # None
               PROVE  GoodRow(row)'
    BY DEF UsersOK
  <2>1. GoodRow(row)
    BY DEF IInv, UsersOK
  <2> QED  BY <2>1 DEF GoodRow
<1>3. SlotsOK'
  BY DEF IInv, SlotsOK, InSlot
<1>4. HeldOK'
  BY DEF IInv, HeldOK
<1>5. AllOrNothing'
  BY DEF IInv, AllOrNothing, At
<1> QED  BY <1>1, <1>2, <1>3, <1>4, <1>5 DEF IInv

LEMMA ConnectingStep == ASSUME IInv, Connecting PROVE IInv'
<1>1. TypeOK /\ PoolsOK
  BY DEF IInv
<1>2. UNCHANGED <<slots, call, done, users, held, gen>>
  BY DEF Connecting, ExecOnce, DbOnce, Ping, ExecDone, resources
<1>3. /\ db' \in Onces /\ exec' \in Onces
      /\ pools' \in 0..1
      /\ pools' = (IF db' \in {"running", "up"} THEN 1 ELSE 0)
  <2>1. CASE ExecOnce
    BY <1>1, <2>1 DEF ExecOnce, TypeOK, PoolsOK, Onces, resources
  <2>2. CASE DbOnce
    BY <1>1, <2>2 DEF DbOnce, TypeOK, PoolsOK, Onces
  <2>3. CASE Ping
    <3>1. pools = 1
      BY <1>1, <2>3 DEF Ping, PoolsOK
    <3> QED  BY <1>1, <2>3, <3>1 DEF Ping, TypeOK, Onces
  <2>4. CASE ExecDone
    BY <1>1, <2>4 DEF ExecDone, TypeOK, PoolsOK, Onces, resources
  <2> QED  BY <2>1, <2>2, <2>3, <2>4 DEF Connecting
<1>4. TypeOK'
  BY <1>1, <1>2, <1>3 DEF TypeOK
<1> QED  BY <1>2, <1>3, <1>4, NoCall DEF PoolsOK

LEMMA ConfigureStep == ASSUME IInv, Configure PROVE IInv'
<1>1. TypeOK /\ PoolsOK
  BY DEF IInv
<1>2. gen' \in Gens /\ UNCHANGED <<db, exec, pools, held, slots, users, done, call>>
  BY <1>1, AccountsAssumption DEF Configure, TypeOK, Gens
<1>3. TypeOK' /\ PoolsOK'
  BY <1>1, <1>2 DEF TypeOK, PoolsOK
<1> QED  BY <1>2, <1>3, NoCall

LEMMA DeleteUserStep ==
    ASSUME IInv, NEW e \in Emails, DeleteUser(e)
    PROVE  IInv'
<1>1. TypeOK /\ PoolsOK
  BY DEF IInv
<1>2. /\ users' = [users EXCEPT ![e] = None]
      /\ UNCHANGED <<db, exec, pools, held, gen, slots, done, call>>
  BY DEF DeleteUser, resources
<1>3. \A f \in Emails : users'[f] # None => users'[f] = users[f]
  BY <1>1, <1>2 DEF TypeOK
<1>4. TypeOK' /\ PoolsOK'
  BY <1>1, <1>2 DEF TypeOK, PoolsOK
<1> QED  BY <1>2, <1>3, <1>4, NoCall

LEMMA AutoRollbackStep ==
    ASSUME IInv, NEW g \in Goroutines, AutoRollback(g)
    PROVE  IInv'
<1>1. TypeOK /\ PoolsOK
  BY DEF IInv
<1>2. /\ held' = held \ {g}
      /\ UNCHANGED <<db, exec, pools, gen, slots, users, done, call>>
  BY DEF AutoRollback
<1>3. TypeOK' /\ PoolsOK'
  BY <1>1, <1>2 DEF TypeOK, PoolsOK
<1> QED  BY <1>2, <1>3, NoCall

LEMMA StutterStep == ASSUME IInv, UNCHANGED vars PROVE IInv'
<1>1. UNCHANGED <<db, exec, pools, held, gen, slots, users, done, call>>
  BY DEF vars, resources
<1>2. TypeOK' /\ PoolsOK'
  BY <1>1 DEF IInv, TypeOK, PoolsOK
<1> QED  BY <1>1, <1>2, NoCall

-----------------------------------------------------------------------------
(* The computations. *)

\* What a call is at a place where it computes.
LEMMA AtComputing ==
    ASSUME IInv, NEW g \in Goroutines, call[g].place \in Computing
    PROVE  /\ call[g] \in Calls
           /\ call[g].kind \in {"register", "login"}
           /\ call[g].email \in Emails /\ call[g].password \in Passwords
           /\ call[g].maybe = FALSE
           /\ g \in held => call[g].ended
BY DEF IInv, CallsOK, CallOK, Calls, Computing, HeldOK, InTransaction

LEMMA CurrentParamsStep ==
    ASSUME IInv, NEW g \in Goroutines, CurrentParams(g)
    PROVE  IInv'
<1>1. call[g].place \in Computing /\ gen \in Gens
  BY DEF CurrentParams, IInv, TypeOK
<1>2. PICK c : c = [call[g] EXCEPT !.sem = gen]
  OBVIOUS
<1>3. call[g] \in Calls /\ CallOK(call[g])
      /\ (call[g].place \in WithRow => GoodRow(call[g].row))
  BY DEF IInv, CallsOK, CallOK
<1>4. c \in Calls /\ c.sem = gen
  BY <1>1, <1>2, <1>3 DEF Calls
<1>5. /\ c.kind = call[g].kind /\ c.place = call[g].place /\ c.email = call[g].email
      /\ c.password = call[g].password /\ c.row = call[g].row /\ c.slot = call[g].slot
      /\ c.ended = call[g].ended /\ c.maybe = call[g].maybe
  BY <1>2, <1>3 DEF Calls
<1>6. ~call[g].slot
  BY <1>3, AccountsAssumption DEF CurrentParams, CallOK
<1>7. Moves(g, c)
  BY <1>1, <1>3, <1>4, <1>5, <1>6 DEF Moves, CallOK, Computing
<1>8. SameSlot(g, c)
  BY <1>5, <1>6 DEF SameSlot
<1>9. Set(g, c)
  BY <1>2 DEF CurrentParams
<1> QED
  BY <1>1, <1>5, <1>7, <1>8, <1>9, AtComputing, PlainCall DEF CurrentParams, Computing, Answers

LEMMA TakeStep ==
    ASSUME IInv, NEW g \in Goroutines, Take(g)
    PROVE  IInv'
<1>1. /\ call[g].place \in Computing /\ call[g].sem # None /\ ~call[g].slot
      /\ slots[call[g].sem] < MaxConcurrent
      /\ UNCHANGED <<db, exec, pools, held, gen, users, done>>
  BY DEF Take
<1>2. PICK n : n = call[g].sem
  OBVIOUS
<1>3. PICK c : c = [call[g] EXCEPT !.slot = TRUE]
  OBVIOUS
<1>4. call[g] \in Calls /\ CallOK(call[g]) /\ TypeOK
      /\ (call[g].place \in WithRow => GoodRow(call[g].row))
  BY DEF IInv, CallsOK, CallOK
<1>5. n \in Gens /\ slots[n] \in 0..MaxConcurrent /\ slots[n] < MaxConcurrent
      /\ MaxConcurrent \in Nat
  BY <1>1, <1>2, <1>4, AccountsAssumption DEF Calls, TypeOK
<1>6. c \in Calls /\ c.slot = TRUE /\ c.sem = n
  BY <1>1, <1>2, <1>3, <1>4 DEF Calls
<1>7. /\ c.kind = call[g].kind /\ c.place = call[g].place /\ c.email = call[g].email
      /\ c.password = call[g].password /\ c.row = call[g].row
      /\ c.ended = call[g].ended /\ c.maybe = call[g].maybe
  BY <1>3, <1>4 DEF Calls
<1>8. Moves(g, c)
  BY <1>1, <1>4, <1>5, <1>6, <1>7 DEF Moves, CallOK, Computing
<1>9. Set(g, c) /\ slots' = [slots EXCEPT ![n] = @ + 1]
  BY <1>2, <1>3 DEF Take
<1>10. slots' \in [Gens -> 0..MaxConcurrent]
  BY <1>4, <1>5, <1>9 DEF TypeOK
<1>11. SlotsOK'
  <2>1. \A h \in Goroutines : call'[h] = IF h = g THEN c ELSE call[h]
    BY <1>4, <1>9 DEF Set, TypeOK
  <2>2. InSlot(n)' = InSlot(n) \cup {g} /\ g \notin InSlot(n)
    BY <1>1, <1>6, <2>1 DEF InSlot
  <2>3. IsFiniteSet(InSlot(n))
    BY AccountsAssumption, FS_Subset DEF InSlot
  <2>4. Cardinality(InSlot(n)') = Cardinality(InSlot(n)) + 1
    BY <2>2, <2>3, FS_AddElement
  <2>5. \A m \in Gens : m # n => InSlot(m)' = InSlot(m)
    BY <1>1, <1>6, <2>1 DEF InSlot
  <2>6. slots'[n] = slots[n] + 1 /\ \A m \in Gens : m # n => slots'[m] = slots[m]
    BY <1>4, <1>5, <1>9 DEF TypeOK
  <2> QED  BY <1>5, <2>4, <2>5, <2>6 DEF IInv, SlotsOK
<1>12. \A e \in Emails : \A row : row = users'[e] /\ row # None => GoodRow(row)
  BY <1>1 DEF IInv, UsersOK
<1>13. g \notin done /\ c.place \notin Answers /\ (g \in held => c.ended)
  BY <1>1, <1>7, NotOver, AtComputing DEF Computing, Answers
<1>14. users' \in [Emails -> Users \cup {None}]
  BY <1>1, <1>4 DEF TypeOK
<1> QED
  BY <1>1, <1>8, <1>9, <1>10, <1>11, <1>12, <1>13, <1>14, OneCall DEF Answers

\* What a computation leads to: a row of the call's own password, or a row as it
\* was read.
LEMMA FreedMoves ==
    ASSUME IInv, NEW g \in Goroutines, call[g].slot, NEW c, c = Freed(g)
    PROVE  /\ Moves(g, c) /\ c.slot = FALSE /\ c.kind = call[g].kind
           /\ c.ended = call[g].ended /\ c.place \notin {"ok"}
<1> DEFINE b == call[g]
<1>1. /\ CallOK(b) /\ b.place \in Computing /\ b.sem \in Gens /\ b \in Calls
      /\ (b.place \in WithRow => GoodRow(b.row))
  BY DEF IInv, CallsOK, CallOK
<1>2. /\ b.kind \in {"register", "login"} /\ b.email \in Emails /\ b.password \in Passwords
      /\ b.maybe = FALSE
  BY <1>1, AtComputing
<1> DEFINE fresh == [password |-> b.password, gen |-> b.sem]
<1>3. fresh \in Hashes /\ fresh.password = b.password
  BY <1>1, <1>2 DEF Hashes
<1> HIDE DEF fresh
<1>4. CASE b.place = "hash"
  <2> DEFINE row == [id |-> g, hash |-> fresh]
  <2>1. row \in Users /\ row.id = g /\ row.hash = fresh
    BY <1>3 DEF Users
  <2>2. GoodRow(row)
    BY <1>3, <1>4, <2>1, AccountsAssumption DEF GoodRow
  <2> HIDE DEF row
  <2>3. c = [[b EXCEPT !.place = "create", !.row = row] EXCEPT !.sem = None, !.slot = FALSE]
    BY <1>4 DEF Freed, After, fresh, row
  <2>4. c \in Calls /\ c.place = "create" /\ c.row = row /\ c.slot = FALSE /\ c.kind = b.kind
        /\ c.ended = b.ended /\ c.password = b.password /\ c.email = b.email /\ c.maybe = FALSE
    BY <1>1, <1>2, <2>1, <2>3 DEF Calls, Statements
  <2> QED  BY <1>2, <1>4, <2>2, <2>4 DEF Moves, CallOK, Computing, Statements, InTransaction
<1>5. CASE b.place = "dummy"
  <2>1. c = [[b EXCEPT !.place = "error"] EXCEPT !.sem = None, !.slot = FALSE]
    BY <1>5 DEF Freed, After
  <2>2. c \in Calls /\ c.place = "error" /\ c.slot = FALSE /\ c.kind = b.kind
        /\ c.ended = b.ended /\ c.password = b.password /\ c.maybe = FALSE
    BY <1>1, <1>2, <2>1 DEF Calls, Answers
  <2> QED  BY <2>2 DEF Moves, CallOK, Computing, Statements, InTransaction, WithRow
<1>6. CASE b.place = "verify"
  <2>1. GoodRow(b.row) /\ b.row \in Users
    BY <1>1, <1>6 DEF WithRow, GoodRow
  <2>2. PICK p \in {"error", "rehash", "issue"} :
          /\ c = [[b EXCEPT !.place = p] EXCEPT !.sem = None, !.slot = FALSE]
          /\ p = "rehash" => b.row.hash.password = b.password
    BY <1>6 DEF Freed, After
  <2>3. c \in Calls /\ c.place = p /\ c.row = b.row /\ c.slot = FALSE /\ c.kind = b.kind
        /\ c.ended = b.ended /\ c.password = b.password /\ c.email = b.email /\ c.maybe = FALSE
    BY <1>1, <1>2, <2>2 DEF Calls, Statements, Computing, Answers
  <2> QED  BY <1>2, <2>1, <2>2, <2>3 DEF Moves, CallOK, Computing, Statements, InTransaction
<1>7. CASE b.place = "rehash"
  <2>1. GoodRow(b.row) /\ b.row \in Users /\ b.row.hash.password = b.password
    BY <1>1, <1>7 DEF WithRow, GoodRow, CallOK
  <2> DEFINE row == [b.row EXCEPT !.hash = fresh]
  <2>2. row \in Users /\ row.id = b.row.id /\ row.hash.password = b.row.hash.password
    BY <1>3, <2>1 DEF Users
  <2>3. GoodRow(row)
    BY <2>1, <2>2 DEF GoodRow
  <2>4. c = [[b EXCEPT !.place = "update", !.row = row] EXCEPT !.sem = None, !.slot = FALSE]
    BY <1>1, <1>7 DEF Freed, After, fresh, row, Calls
  <2> HIDE DEF row
  <2>5. c \in Calls /\ c.place = "update" /\ c.row = row /\ c.slot = FALSE /\ c.kind = b.kind
        /\ c.ended = b.ended /\ c.password = b.password /\ c.email = b.email /\ c.maybe = FALSE
    BY <1>1, <1>2, <2>2, <2>4 DEF Calls, Statements
  <2> QED  BY <1>2, <2>3, <2>5 DEF Moves, CallOK, Computing, Statements, InTransaction
<1> QED  BY <1>1, <1>4, <1>5, <1>6, <1>7 DEF Computing

LEMMA ReleaseStep ==
    ASSUME IInv, NEW g \in Goroutines, Release(g)
    PROVE  IInv'
<1>1. call[g].slot /\ UNCHANGED <<db, exec, pools, held, gen, users, done>>
  BY DEF Release
<1>2. PICK n, c : n = call[g].sem /\ c = Freed(g)
  OBVIOUS
<1>3. /\ Moves(g, c) /\ c.slot = FALSE /\ c.kind = call[g].kind
      /\ c.ended = call[g].ended /\ c.place # "ok"
  BY <1>1, <1>2, FreedMoves
<1>4. TypeOK /\ call[g].place \in Computing /\ n \in Gens /\ call[g].sem = n
  BY <1>1, <1>2 DEF IInv, CallsOK, CallOK
<1>5. Set(g, c) /\ slots' = [slots EXCEPT ![n] = @ - 1]
  BY <1>2 DEF Release
<1>6. \A h \in Goroutines : call'[h] = IF h = g THEN c ELSE call[h]
  BY <1>4, <1>5 DEF Set, TypeOK
<1>7. /\ IsFiniteSet(InSlot(n)) /\ g \in InSlot(n)
      /\ slots[n] = Cardinality(InSlot(n)) /\ slots[n] \in 0..MaxConcurrent
      /\ MaxConcurrent \in Nat
  BY <1>1, <1>4, AccountsAssumption, FS_Subset DEF InSlot, IInv, SlotsOK, TypeOK
<1>8. InSlot(n)' = InSlot(n) \ {g}
  BY <1>3, <1>4, <1>6 DEF InSlot
<1>9. Cardinality(InSlot(n)') = Cardinality(InSlot(n)) - 1
  BY <1>7, <1>8, FS_RemoveElement
<1>10. Cardinality(InSlot(n)') \in Nat
  BY <1>7, <1>8, FS_RemoveElement, FS_CardinalityType
<1>11. slots' \in [Gens -> 0..MaxConcurrent]
  BY <1>4, <1>5, <1>7, <1>9, <1>10 DEF TypeOK
<1>12. SlotsOK'
  <2>1. \A m \in Gens : m # n => InSlot(m)' = InSlot(m)
    BY <1>3, <1>4, <1>6 DEF InSlot
  <2>2. slots'[n] = slots[n] - 1 /\ \A m \in Gens : m # n => slots'[m] = slots[m]
    BY <1>4, <1>5 DEF TypeOK
  <2> QED  BY <1>7, <1>9, <2>1, <2>2 DEF IInv, SlotsOK
<1>13. \A e \in Emails : \A row : row = users'[e] /\ row # None => GoodRow(row)
  BY <1>1 DEF IInv, UsersOK
<1>14. g \notin done /\ (g \in held => c.ended)
  BY <1>3, <1>4, NotOver, AtComputing DEF Computing, Answers
<1>15. users' \in [Emails -> Users \cup {None}]
  BY <1>1, <1>4 DEF TypeOK
<1> QED
  BY <1>1, <1>3, <1>5, <1>11, <1>12, <1>13, <1>14, <1>15, OneCall

-----------------------------------------------------------------------------
(* The statements and the steps of a transaction. *)

Unfinished == Statements \cup {"begin"} \cup InTransaction

\* A call that goes on to another place, or is answered.
LEMMA GotoMoves ==
    ASSUME IInv, NEW g \in Goroutines, call[g].place \in Unfinished,
           NEW p \in Statements \cup InTransaction \cup Answers,
           p \in Statements => call[g].place \in Statements /\ call[g].place \in WithRow,
           p \in InTransaction => call[g].kind = "tx",
           NEW c, c = [call[g] EXCEPT !.place = p]
    PROVE  /\ Moves(g, c) /\ SameSlot(g, c)
           /\ c.place = p /\ c.kind = call[g].kind /\ c.ended = call[g].ended
           /\ c.maybe = call[g].maybe
<1>1. CallOK(call[g]) /\ call[g] \in Calls
      /\ (call[g].place \in WithRow => GoodRow(call[g].row))
  BY DEF IInv, CallsOK, CallOK
<1>2. /\ c \in Calls /\ c.place = p
      /\ c.kind = call[g].kind /\ c.email = call[g].email /\ c.password = call[g].password
      /\ c.row = call[g].row /\ c.sem = call[g].sem /\ c.slot = call[g].slot
      /\ c.ended = call[g].ended /\ c.maybe = call[g].maybe
  BY <1>1 DEF Calls
<1>3. p # "idle" /\ p \notin Computing /\ p # "begin"
  BY DEF Statements, InTransaction, Answers, Computing
<1>4. call[g].place \notin Computing /\ call[g].place # "idle" /\ call[g].place # "error"
  BY DEF Unfinished, Statements, InTransaction, Computing
<1>5. p \in WithRow => p \in Statements
  BY <1>3 DEF Statements, InTransaction, Answers, WithRow, Computing
<1>6. CallOK(c)
  <2>1. ~call[g].slot /\ ~call[g].maybe
    BY <1>1, <1>4 DEF CallOK
  <2>2. p \in Statements => /\ c.kind \in {"register", "login"}
                            /\ c.email \in Emails /\ c.password \in Passwords
    BY <1>1, <1>2 DEF CallOK
  <2>3. p # "rehash"
    BY <1>3 DEF Computing
  <2> QED  BY <1>2, <1>3, <2>1, <2>2, <2>3 DEF CallOK
<1> QED  BY <1>1, <1>2, <1>3, <1>4, <1>5, <1>6 DEF Moves, SameSlot

\* What a call is at a statement.
LEMMA AtStatement ==
    ASSUME IInv, NEW g \in Goroutines, call[g].place \in Statements
    PROVE  /\ call[g].place \in Unfinished /\ call[g].place \notin Answers
           /\ call[g] \in Calls /\ CallOK(call[g])
           /\ call[g].kind # "tx" /\ call[g].email \in Emails
           /\ (call[g].place \in WithRow => GoodRow(call[g].row))
           /\ ~call[g].slot /\ call[g].maybe = FALSE /\ g \notin done
           /\ g \in held => call[g].ended
<1>1. CallOK(call[g]) /\ call[g] \in Calls
      /\ (call[g].place \in WithRow => GoodRow(call[g].row))
  BY DEF IInv, CallsOK, CallOK
<1>2. call[g].place \in Unfinished /\ call[g].place \notin Answers
      /\ call[g].place \notin InTransaction /\ call[g].place \notin Computing
  BY DEF Unfinished, Statements, Answers, InTransaction, Computing
<1>3. call[g].kind # "tx" /\ call[g].email \in Emails /\ ~call[g].slot
  BY <1>1, <1>2 DEF CallOK
<1>4. g \in held => call[g].ended
  BY <1>2 DEF IInv, HeldOK
<1> QED  BY <1>1, <1>2, <1>3, <1>4, NotOver

\* A statement that stores nothing.
LEMMA StatementEnds ==
    ASSUME IInv, NEW g \in Goroutines, call[g].place \in Statements,
           NEW p \in {"issue", "ok", "error"}, p = "issue" => call[g].place \in WithRow,
           Goto(g, p),
           UNCHANGED <<db, exec, resources, users, done>>
    PROVE  IInv'
<1>1. PICK c : c = [call[g] EXCEPT !.place = p]
  OBVIOUS
<1>2. /\ p \in Statements \cup InTransaction \cup Answers /\ p \notin InTransaction
      /\ p \in Statements => p = "issue"
  BY DEF Statements, Answers, InTransaction
<1>5. call[g].place \in Unfinished
  BY AtStatement
<1>3. /\ Moves(g, c) /\ SameSlot(g, c)
      /\ c.place = p /\ c.kind = call[g].kind /\ c.ended = call[g].ended
      /\ c.maybe = call[g].maybe
  BY <1>1, <1>2, <1>5, GotoMoves
<1>4. Set(g, c)
  BY <1>1 DEF Goto
<1> QED  BY <1>3, <1>4, AtStatement, PlainCall

LEMMA FindStep ==
    ASSUME IInv, NEW g \in Goroutines, Find(g)
    PROVE  IInv'
<1>1. call[g].place = "find" /\ call[g].place \in Statements
  BY DEF Find, CanRun, At, Statements
<1>2. PICK row : row = users[call[g].email]
  OBVIOUS
<1>3. PICK c : c = [call[g] EXCEPT !.place = IF row = None THEN "dummy" ELSE "verify",
                                   !.row = row]
  OBVIOUS
<1>4. Set(g, c) /\ UNCHANGED <<db, exec, resources, users, done>>
  BY <1>2, <1>3 DEF Find
<1>5. /\ call[g] \in Calls /\ CallOK(call[g]) /\ call[g].email \in Emails /\ call[g].kind # "tx"
      /\ ~call[g].slot /\ call[g].maybe = FALSE /\ (g \in held => call[g].ended)
      /\ call[g].place \notin Answers
  BY <1>1, AtStatement
<1>6. row \in Users \cup {None} /\ (row # None => GoodRow(row))
  BY <1>2, <1>5 DEF IInv, UsersOK, TypeOK
<1>7. /\ c \in Calls /\ c.place = (IF row = None THEN "dummy" ELSE "verify") /\ c.row = row
      /\ c.kind = call[g].kind /\ c.email = call[g].email /\ c.password = call[g].password
      /\ c.slot = call[g].slot /\ c.ended = call[g].ended /\ c.maybe = call[g].maybe
  BY <1>3, <1>5, <1>6 DEF Calls, Computing
<1>8. CallOK(c)
  BY <1>1, <1>5, <1>7 DEF CallOK, Computing, InTransaction, Statements
<1>9. Moves(g, c) /\ SameSlot(g, c)
  BY <1>1, <1>5, <1>6, <1>7, <1>8 DEF Moves, SameSlot, WithRow
<1> QED  BY <1>4, <1>5, <1>7, <1>9, PlainCall

\* Create and Update store a good row.
LEMMA StoreStep ==
    ASSUME IInv, NEW g \in Goroutines, Create(g) \/ Update(g)
    PROVE  IInv'
<1>1. call[g].place \in Statements /\ call[g].place \in WithRow
      /\ UNCHANGED <<db, exec, pools, held, gen, slots, done>>
  BY DEF Create, Update, CanRun, At, Statements, WithRow, resources
<1>2. /\ call[g].email \in Emails /\ GoodRow(call[g].row) /\ call[g].kind # "tx"
      /\ call[g].maybe = FALSE /\ g \notin done /\ (g \in held => call[g].ended)
      /\ call[g].place \in Unfinished
  BY <1>1, AtStatement
<1>3. PICK c : c = [call[g] EXCEPT !.place = "issue"]
  OBVIOUS
<1>4. Set(g, c)
  BY <1>3 DEF Create, Update, Goto
<1>5. /\ Moves(g, c) /\ SameSlot(g, c)
      /\ c.place = "issue" /\ c.kind = call[g].kind /\ c.ended = call[g].ended
      /\ c.maybe = call[g].maybe
  BY <1>1, <1>2, <1>3, GotoMoves DEF Statements, InTransaction
<1>6. PICK e, row : e = call[g].email /\ row = call[g].row
  OBVIOUS
<1>7. users' = [users EXCEPT ![e] = row] \/ users' = users
  BY <1>6 DEF Create, Update
<1>8. row \in Users /\ users \in [Emails -> Users \cup {None}]
  BY <1>2, <1>6 DEF GoodRow, IInv, TypeOK
<1>9. users' \in [Emails -> Users \cup {None}]
  BY <1>2, <1>6, <1>7, <1>8
<1>10. ASSUME NEW f \in Emails, NEW r, r = users'[f], r # None PROVE GoodRow(r)
  <2>1. r = row \/ r = users[f]
    BY <1>7, <1>8, <1>10
  <2> QED  BY <1>2, <1>6, <1>10, <2>1 DEF IInv, UsersOK
<1>11. SlotsOK' /\ slots' \in [Gens -> 0..MaxConcurrent]
  BY <1>1, <1>4, <1>5, SlotsStay DEF IInv, TypeOK
<1> QED  BY <1>1, <1>2, <1>4, <1>5, <1>9, <1>10, <1>11, OneCall

LEMMA StatementStep ==
    ASSUME IInv, NEW g \in Goroutines, Statement(g)
    PROVE  IInv'
<1>1. CASE Find(g)
  BY <1>1, FindStep
<1>2. CASE Create(g) \/ Update(g)
  BY <1>2, StoreStep
<1>3. CASE Issue(g)
  <2>1. call[g].place \in Statements /\ UNCHANGED <<db, exec, resources, users, done>>
    BY <1>3 DEF Issue, CanRun, At, Statements
  <2>2. PICK p \in {"ok", "error"} : Goto(g, p)
    BY <1>3 DEF Issue
  <2> QED  BY <2>1, <2>2, StatementEnds
<1>4. CASE StatementFails(g)
  <2>1. UNCHANGED <<db, exec, resources, users, done>>
    BY <1>4 DEF StatementFails
  <2>2. PICK p \in {"issue", "error"} :
           /\ Goto(g, p) /\ call[g].place \in Statements
           /\ p = "issue" => call[g].place \in WithRow
    BY <1>4 DEF StatementFails, Fails, At, Statements, WithRow
  <2> QED  BY <2>1, <2>2, StatementEnds
<1> QED  BY <1>1, <1>2, <1>3, <1>4 DEF Statement

\* What a call is in a transaction, or before it.
LEMMA AtTransaction ==
    ASSUME IInv, NEW g \in Goroutines, call[g].place \in {"begin"} \cup InTransaction
    PROVE  /\ call[g].place \in Unfinished /\ call[g].place \notin Answers
           /\ call[g] \in Calls /\ CallOK(call[g])
           /\ call[g].kind = "tx" /\ ~call[g].slot /\ call[g].maybe = FALSE /\ g \notin done
           /\ g \in held /\ call[g].place = "begin" => call[g].ended
<1>1. CallOK(call[g]) /\ call[g] \in Calls
  BY DEF IInv, CallsOK, CallOK
<1>2. call[g].place \in Unfinished /\ call[g].place \notin Answers
      /\ call[g].place \notin Computing
  BY DEF Unfinished, InTransaction, Answers, Computing
<1>3. call[g].kind = "tx" /\ ~call[g].slot
  BY <1>1, <1>2 DEF CallOK
<1>4. g \in held /\ call[g].place = "begin" => call[g].ended
  BY DEF IInv, HeldOK, InTransaction
<1> QED  BY <1>1, <1>2, <1>3, <1>4, NotOver

\* A step of a transaction to another place, with what it holds and has committed.
LEMMA TransactionGoes ==
    ASSUME IInv, NEW g \in Goroutines, call[g].place \in {"begin"} \cup InTransaction,
           NEW p \in InTransaction \cup Answers, Goto(g, p),
           UNCHANGED <<db, exec, pools, gen, slots, users>>,
           held' \subseteq held \cup {g},
           g \in held' => p \in InTransaction \/ call[g].ended,
           done' = (IF p = "ok" THEN done \cup {g} ELSE done)
    PROVE  IInv'
<1>1. PICK c : c = [call[g] EXCEPT !.place = p]
  OBVIOUS
<1>2. /\ call[g].place \in Unfinished /\ call[g].kind = "tx" /\ call[g].maybe = FALSE
      /\ g \notin done
  BY AtTransaction
<1>3. p \notin Statements
  BY DEF InTransaction, Answers, Statements
<1>4. /\ Moves(g, c) /\ SameSlot(g, c)
      /\ c.place = p /\ c.kind = call[g].kind /\ c.ended = call[g].ended
  BY <1>1, <1>2, <1>3, GotoMoves
<1>5. Set(g, c)
  BY <1>1 DEF Goto
<1>6. SlotsOK' /\ slots' \in [Gens -> 0..MaxConcurrent]
      /\ users' \in [Emails -> Users \cup {None}]
  BY <1>4, <1>5, SlotsStay DEF IInv, TypeOK
<1>7. \A e \in Emails : \A row : row = users'[e] /\ row # None => GoodRow(row)
  BY DEF IInv, UsersOK
<1> QED  BY <1>2, <1>4, <1>5, <1>6, <1>7, OneCall

LEMMA CommitStep ==
    ASSUME IInv, NEW g \in Goroutines, Commit(g)
    PROVE  IInv'
<1>1. call[g].place = "commit" /\ call[g].place \in InTransaction
      /\ UNCHANGED <<db, exec, pools, gen, slots, users>> /\ held' = held \ {g}
  BY DEF Commit, At, InTransaction, Leave
<1>2. CASE done' = done \cup {g} /\ Goto(g, "ok")
  BY <1>1, <1>2, TransactionGoes DEF Answers
<1>3. CASE /\ done' \in {done, done \cup {g}}
           /\ Set(g, [call[g] EXCEPT !.place = "error", !.maybe = TRUE])
  <2>1. PICK c : c = [call[g] EXCEPT !.place = "error", !.maybe = TRUE]
    OBVIOUS
  <2>2. call[g] \in Calls /\ CallOK(call[g]) /\ ~call[g].slot
    BY <1>1, AtTransaction
  <2>3. /\ c \in Calls /\ c.place = "error" /\ c.maybe = TRUE
        /\ c.password = call[g].password /\ c.slot = call[g].slot /\ c.sem = call[g].sem
    BY <2>1, <2>2 DEF Calls, Answers
  <2>4. CallOK(c)
    BY <2>2, <2>3 DEF CallOK, Computing, Statements, InTransaction
  <2>5. Moves(g, c) /\ SameSlot(g, c)
    BY <1>1, <2>3, <2>4 DEF Moves, SameSlot, WithRow
  <2>6. Set(g, c)
    BY <1>3, <2>1
  <2>7. SlotsOK' /\ slots' \in [Gens -> 0..MaxConcurrent]
        /\ users' \in [Emails -> Users \cup {None}]
    BY <1>1, <2>5, <2>6, SlotsStay DEF IInv, TypeOK
  <2>8. \A e \in Emails : \A row : row = users'[e] /\ row # None => GoodRow(row)
    BY <1>1 DEF IInv, UsersOK
  <2> QED  BY <1>1, <1>3, <2>3, <2>5, <2>6, <2>7, <2>8, OneCall
<1> QED  BY <1>2, <1>3 DEF Commit, Leave

LEMMA BodyStep ==
    ASSUME IInv, NEW g \in Goroutines, Body(g)
    PROVE  IInv'
<1>1. call[g].place = "body" /\ call[g].place \in InTransaction
      /\ UNCHANGED <<db, exec, pools, held, gen, slots, users, done>>
  BY DEF Body, At, InTransaction, resources
<1>2. CASE \E p \in {"commit", "rollback", "unwind"} : Goto(g, p)
  BY <1>1, <1>2, TransactionGoes DEF InTransaction
<1>3. CASE Set(g, [call[g] EXCEPT !.place = "nested", !.nested = TRUE])
  <2>1. PICK c : c = [call[g] EXCEPT !.place = "nested", !.nested = TRUE]
    OBVIOUS
  <2>2. /\ call[g] \in Calls /\ CallOK(call[g]) /\ ~call[g].slot /\ call[g].kind = "tx"
        /\ call[g].maybe = FALSE /\ call[g].place \notin Answers
    BY <1>1, AtTransaction
  <2>3. /\ c \in Calls /\ c.place = "nested" /\ c.maybe = FALSE /\ c.kind = "tx"
        /\ c.password = call[g].password /\ c.slot = call[g].slot /\ c.sem = call[g].sem
    BY <2>1, <2>2 DEF Calls, InTransaction
  <2>4. CallOK(c) /\ c.place \in InTransaction
    BY <2>2, <2>3 DEF CallOK, Computing, Statements, InTransaction
  <2>5. Moves(g, c) /\ SameSlot(g, c)
    BY <1>1, <2>3, <2>4 DEF Moves, SameSlot, WithRow
  <2>6. Set(g, c)
    BY <1>3, <2>1
  <2> QED  BY <1>1, <2>2, <2>3, <2>4, <2>5, <2>6, PlainCall DEF resources
<1> QED  BY <1>2, <1>3 DEF Body

LEMMA TransactionStep ==
    ASSUME IInv, NEW g \in Goroutines, Transaction(g)
    PROVE  IInv'
<1>1. CASE Begin(g)
  BY <1>1, TransactionGoes DEF Begin, At, InTransaction
<1>2. CASE BeginFails(g)
  <2>1. /\ call[g].place = "begin" /\ Goto(g, "error")
        /\ UNCHANGED <<db, exec, pools, held, gen, slots, users, done>>
    BY <1>2 DEF BeginFails, At, resources
  <2>2. g \in held => call[g].ended
    BY <2>1, AtTransaction
  <2> QED  BY <2>1, <2>2, TransactionGoes DEF Answers
<1>3. CASE Body(g)
  BY <1>3, BodyStep
<1>4. CASE Nested(g)
  <2>1. /\ call[g].place = "nested" /\ Goto(g, "body")
        /\ UNCHANGED <<db, exec, pools, held, gen, slots, users, done>>
    BY <1>4 DEF Nested, CanRun, Fails, At, resources
  <2> QED  BY <2>1, TransactionGoes DEF InTransaction
<1>5. CASE Commit(g)
  BY <1>5, CommitStep
<1>6. CASE CommitTooLate(g)
  <2>1. /\ call[g].place = "commit" /\ call[g].ended /\ Goto(g, "error")
        /\ UNCHANGED <<db, exec, pools, held, gen, slots, users, done>>
    BY <1>6 DEF CommitTooLate, At, resources
  <2> QED  BY <2>1, TransactionGoes DEF InTransaction, Answers
<1>7. CASE Rollback(g)
  BY <1>7, TransactionGoes DEF Rollback, Leave, At, InTransaction, Answers
<1>8. CASE Unwind(g)
  BY <1>8, TransactionGoes DEF Unwind, Leave, At, InTransaction, Answers
<1> QED  BY <1>1, <1>2, <1>3, <1>4, <1>5, <1>6, <1>7, <1>8 DEF Transaction

LEMMA StartStep ==
    ASSUME IInv, NEW g \in Goroutines, Start(g)
    PROVE  IInv'
<1>1. call[g].place = "idle" /\ UNCHANGED <<db, exec, resources, users, done>>
  BY DEF Start, At
<1>2. PICK c : /\ Set(g, c)
               /\ \/ \E e \in Emails, p \in Passwords :
                        \/ c = [Idle EXCEPT !.kind = "register", !.place = "hash",
                                           !.email = e, !.password = p]
                        \/ c = [Idle EXCEPT !.kind = "login", !.place = "find",
                                           !.email = e, !.password = p]
                  \/ \E b \in BOOLEAN :
                        c = [Idle EXCEPT !.kind = "tx", !.place = "begin", !.background = b]
  BY DEF Start
<1>3. /\ c \in Calls /\ c.slot = FALSE /\ c.maybe = FALSE
      /\ \/ /\ c.place \in {"hash", "find"} /\ c.kind \in {"register", "login"}
            /\ c.email \in Emails /\ c.password \in Passwords
         \/ c.place = "begin" /\ c.kind = "tx"
  BY <1>2 DEF Idle, Calls, Computing, Statements
<1>4. CallOK(c) /\ c.place \notin {"idle", "ok"} /\ c.place \notin WithRow
  BY <1>3 DEF CallOK, Computing, Statements, InTransaction, WithRow
<1>5. CallOK(call[g]) /\ call[g] \in Calls
  BY DEF IInv, CallsOK, CallOK
<1>6. ~call[g].slot /\ ~call[g].ended
  BY <1>1, <1>5 DEF CallOK, Computing
<1>7. g \notin held
  BY <1>1, <1>6 DEF IInv, HeldOK, InTransaction
<1>8. Moves(g, c) /\ SameSlot(g, c)
  BY <1>1, <1>3, <1>4, <1>6 DEF Moves, SameSlot
<1> QED  BY <1>1, <1>2, <1>4, <1>7, <1>8, PlainCall DEF Answers

LEMMA ContextEndsStep ==
    ASSUME IInv, NEW g \in Goroutines, ContextEnds(g)
    PROVE  IInv'
<1>1. /\ call[g].place # "idle" /\ call[g].place \notin Answers
      /\ UNCHANGED <<db, exec, resources, users, done>>
  BY DEF ContextEnds, Busy
<1>2. PICK c : c = [call[g] EXCEPT !.ended = TRUE]
  OBVIOUS
<1>3. Set(g, c)
  BY <1>2 DEF ContextEnds
<1>4. CallOK(call[g]) /\ call[g] \in Calls
      /\ (call[g].place \in WithRow => GoodRow(call[g].row))
  BY DEF IInv, CallsOK, CallOK
<1>5. /\ c \in Calls /\ c.ended = TRUE /\ c.place = call[g].place
      /\ c.kind = call[g].kind /\ c.email = call[g].email /\ c.password = call[g].password
      /\ c.row = call[g].row /\ c.sem = call[g].sem /\ c.slot = call[g].slot
      /\ c.maybe = call[g].maybe
  BY <1>2, <1>4 DEF Calls
<1>6. CallOK(c)
  BY <1>1, <1>4, <1>5 DEF CallOK
<1>7. Moves(g, c) /\ SameSlot(g, c) /\ c.place # "ok"
  BY <1>1, <1>4, <1>5, <1>6 DEF Moves, SameSlot, Answers
<1> QED  BY <1>1, <1>3, <1>5, <1>7, PlainCall

-----------------------------------------------------------------------------
(* The theorems. *)

LEMMA InitIInv == Init => IInv
<1> SUFFICES ASSUME Init PROVE IInv
  OBVIOUS
<1>1. 0 \in Gens /\ MaxConcurrent \in Nat /\ EarlierPassword \in Passwords
  BY AccountsAssumption DEF Gens
<1> DEFINE early == [id |-> Earlier, hash |-> [password |-> EarlierPassword, gen |-> 0]]
<1>2. early \in Users /\ early.id = Earlier /\ early.hash.password = EarlierPassword
  BY <1>1 DEF Users, Hashes
<1>3. users \in [Emails -> {None, early}]
  BY DEF Init
<1>4. GoodRow(early)
  BY <1>2 DEF GoodRow
<1> HIDE DEF early
<1>5. users \in [Emails -> Users \cup {None}] /\ UsersOK
  BY <1>2, <1>3, <1>4 DEF UsersOK
<1>6. Idle \in Calls /\ Idle.place = "idle" /\ ~Idle.slot /\ ~Idle.ended /\ ~Idle.maybe
      /\ Idle.kind = "none"
  BY DEF Idle, Calls
<1>7. \A g \in Goroutines : call[g] = Idle
  BY DEF Init
<1>8. call \in [Goroutines -> Calls]
  BY <1>6 DEF Init
<1>9. slots \in [Gens -> 0..MaxConcurrent]
  BY <1>1 DEF Init
<1>10. TypeOK
  BY <1>1, <1>5, <1>8, <1>9 DEF Init, TypeOK, Onces
<1>11. CallsOK
  BY <1>6, <1>7
     DEF CallsOK, CallOK, Computing, Statements, InTransaction, WithRow
<1>12. SlotsOK
  <2> SUFFICES ASSUME NEW n \in Gens PROVE slots[n] = Cardinality(InSlot(n))
    BY DEF SlotsOK
  <2>1. InSlot(n) = {}
    BY <1>6, <1>7 DEF InSlot
  <2> QED  BY <2>1, FS_EmptySet DEF Init
<1>13. HeldOK /\ PoolsOK
  BY DEF Init, HeldOK, PoolsOK
<1>14. AllOrNothing
  BY <1>6, <1>7 DEF Init, AllOrNothing, At
<1> QED  BY <1>5, <1>10, <1>11, <1>12, <1>13, <1>14 DEF IInv

\* The invariant the others follow from.
THEOREM Inductive == Spec => []IInv
<1>1. Init => IInv
  BY InitIInv
<1>2. IInv /\ [Next]_vars => IInv'
  <2> SUFFICES ASSUME IInv, [Next]_vars PROVE IInv'
    OBVIOUS
  <2>1. CASE Connecting
    BY <2>1, ConnectingStep
  <2>2. CASE Configure
    BY <2>2, ConfigureStep
  <2>3. ASSUME NEW e \in Emails, DeleteUser(e) PROVE IInv'
    BY <2>3, DeleteUserStep
  <2>4. ASSUME NEW g \in Goroutines,
               \/ Start(g)
               \/ Hashing(g) \/ Statement(g) \/ Transaction(g)
               \/ AutoRollback(g) \/ ContextEnds(g)
        PROVE  IInv'
    BY <2>4, StartStep, CurrentParamsStep, TakeStep, ReleaseStep, StatementStep,
       TransactionStep, AutoRollbackStep, ContextEndsStep DEF Hashing
  <2>5. CASE UNCHANGED vars
    BY <2>5, StutterStep
  <2> QED  BY <2>1, <2>2, <2>3, <2>4, <2>5 DEF Next
<1> QED  BY <1>1, <1>2, PTL DEF Spec

\* The variables have their types; in particular no semaphore counts more than its
\* slots, or less than none.
THEOREM TypeCorrectness == Spec => []TypeOK
<1>1. IInv => TypeOK
  BY DEF IInv
<1> QED  BY <1>1, Inductive, PTL

\* Connections, slots and the pool are held by those who will give them back
\* (tx.go:84-112, password.go:52-80).
THEOREM AllIsGivenBack == Spec => []NothingKept
<1>1. IInv => NothingKept
  <2> SUFFICES ASSUME IInv PROVE NothingKept
    OBVIOUS
  <2>1. \A n \in Gens : slots[n] = Cardinality({g \in Goroutines :
                                       call[g].slot /\ call[g].sem = n})
    BY DEF IInv, SlotsOK, InSlot
  <2> QED  BY <2>1 DEF IInv, HeldOK, PoolsOK, NothingKept
<1> QED  BY <1>1, Inductive, PTL

\* A transaction that was answered nil is committed, and one answered otherwise is
\* not unless Commit failed (tx.go:84-112).
THEOREM TransactionsAtomic == Spec => []AllOrNothing
<1>1. IInv => AllOrNothing
  BY DEF IInv
<1> QED  BY <1>1, Inductive, PTL

\* The hash of a user is one of the password that the user registered with, however
\* logins, deletions and registrations of the email interleave.
THEOREM PasswordsKept == Spec => []PasswordKept
<1>1. IInv => PasswordKept
  BY DEF IInv, UsersOK, PasswordKept, GoodRow
<1> QED  BY <1>1, Inductive, PTL
==============================================================================
