---------------------------- MODULE Requests_proofs ----------------------------
(***************************************************************************)
(* Theorems about what a request meets: Router decides which entry answers *)
(* it, Pipeline what becomes of it on the way in and out, for any number   *)
(* of routes, groups, requests and Contexts.                               *)
(*                                                                         *)
(* The first part proves Pipeline's safety from IInv, the second Router's  *)
(* from RouterInv.                                                         *)
(***************************************************************************)
EXTENDS Pipeline, Router, FiniteSetTheorems, TLAPS

-----------------------------------------------------------------------------
(* Pipeline: the fields of a Context, and what is left of a request. *)

ContextFields == [status : Statuses, wrote : BOOLEAN,
                  id : Requests \cup {None}, values : Requests \cup {None}]
Silent(r) == logged[r] = None /\ handed[r] = None
Idle(r) == err[r] = "nil" /\ ~ended[r] /\ heads[r] = <<>> /\ Silent(r)

\* What is on the connection is what the Context says, and a pooled Context
\* remembers no values.
HeadInv(r) ==
    of[r] # None =>
        heads[r] = IF fields[of[r]].wrote THEN <<fields[of[r]].status>> ELSE <<>>
OwnInv(r) ==
    of[r] # None =>
        /\ of[r] \notin pool
        /\ fields[of[r]].id \in {None, r}
        /\ fields[of[r]].values \in {None, r}
        /\ \A s \in Requests : of[s] = of[r] => s = r
PoolInv == \A c \in pool : fields[c].values = None

\* What the handler left on the connection, and what leaves Timeout and Recover.
Left(h) == IF h.wrote THEN <<201>> ELSE <<>>
Returned(r, h) ==
    IF h.result = "deadline" THEN {"timeout"}
    ELSE IF h.result = "nil" /\ ~h.wrote /\ ended[r]
    THEN IF h.late THEN {"timeout"} ELSE {"nil", "timeout"}
    ELSE {h.result}
Recovered(r, h) == IF h.result = "panic" THEN {"panicked"} ELSE Returned(r, h)
Shown(r) == IF err[r] # "nil" THEN Rendered(err[r]) ELSE 200
Line(r, h) ==
    logged[r] = IF err[r] # "nil" THEN StatusOf(err[r]) ELSE IF h.wrote THEN 201 ELSE 0

\* What holds of a request whose handler ended as h.
HandedInv(r, h) ==
    /\ h.late => ended[r]
    /\ pc[r] \in {"leave", "recover", "log", "render"} => heads[r] = Left(h)
    /\ pc[r] = "leave" => err[r] = h.result /\ h.result \notin Panics
    /\ pc[r] = "recover" => err[r] \in Returned(r, h)
    /\ pc[r] \in {"log", "render"} => err[r] \in Recovered(r, h) /\ h.result # "abort"
    /\ pc[r] = "render" => Line(r, h)
    /\ pc[r] = "release" /\ err[r] # "abort" =>
          /\ err[r] \in Recovered(r, h)
          /\ heads[r] = IF h.wrote THEN Left(h) ELSE <<Shown(r)>>
          /\ Line(r, h)
PlaceInv(r) ==
    /\ pc[r] \in {"new", "done"} => Idle(r)
    /\ pc[r] = "enter" => err[r] = "nil" /\ heads[r] = <<>> /\ Silent(r)
    /\ pc[r] = "handler" =>
          err[r] = "nil" /\ heads[r] \in {<<>>, <<201>>} /\ Silent(r)
    /\ pc[r] = "release" /\ err[r] # "abort" => heads[r] # <<>>
    /\ handed[r] # None => HandedInv(r, handed[r])

IInv ==
    /\ TypeOK
    /\ PoolInv
    /\ \A r \in Requests : HeadInv(r) /\ OwnInv(r) /\ PlaceInv(r)
    /\ PoolOutlivesRequests

-----------------------------------------------------------------------------
\* A request that is left alone, with its Context, keeps what holds of it.
LEMMA OthersKept ==
    ASSUME IInv, TypeOK', NEW r \in Requests, NEW q \in Requests, q # r,
           \A s \in Requests \ {r} : of'[s] = of[s],
           pc'[q] = pc[q], err'[q] = err[q], ended'[q] = ended[q],
           heads'[q] = heads[q], logged'[q] = logged[q], handed'[q] = handed[q],
           \A c \in Contexts \ {of[r], of'[r]} : fields'[c] = fields[c],
           of[q] # None => of'[r] # of[q],
           pool' \subseteq pool \cup {of[r]}
    PROVE  HeadInv(q)' /\ OwnInv(q)' /\ PlaceInv(q)'
<1>1. of'[q] = of[q] /\ HeadInv(q) /\ OwnInv(q) /\ PlaceInv(q)
  BY DEF IInv
<1>2. of[q] # None => /\ of[q] \in Contexts /\ of[q] # of[r]
                      /\ fields'[of[q]] = fields[of[q]]
  BY <1>1 DEF IInv, TypeOK, OwnInv
<1>3. HeadInv(q)'
  BY <1>1, <1>2 DEF HeadInv
<1>4. OwnInv(q)'
  BY <1>1, <1>2 DEF OwnInv
<1>5. PlaceInv(q)'
  BY <1>1 DEF PlaceInv, HandedInv, Idle, Silent, Returned, Recovered, Shown, Line
<1> QED  BY <1>3, <1>4, <1>5

\* So a step of r that keeps its Context, writes nothing elsewhere, and leaves the
\* pool and the server alone has to be looked at for r only.
LEMMA StepKept ==
    ASSUME IInv, TypeOK', NEW r \in Requests,
           UNCHANGED <<server, of, pool>>, Running,
           \A q \in Requests \ {r} :
               /\ pc'[q] = pc[q] /\ err'[q] = err[q] /\ ended'[q] = ended[q]
               /\ heads'[q] = heads[q] /\ logged'[q] = logged[q]
               /\ handed'[q] = handed[q],
           \A c \in Contexts \ {of[r]} : fields'[c] = fields[c],
           pc[r] \notin {"new", "done"},
           HeadInv(r)', fields'[of[r]].id \in {None, r}, fields'[of[r]].values \in {None, r},
           PlaceInv(r)'
    PROVE  IInv'
<1>1. of[r] \in Contexts /\ of[r] # None /\ OwnInv(r)
  BY DEF IInv, TypeOK
<1>2. OwnInv(r)'
  BY <1>1 DEF OwnInv
<1>3. PoolInv'
  <2>1. PoolInv /\ pool \subseteq Contexts /\ of[r] \notin pool
    BY <1>1 DEF IInv, TypeOK, OwnInv
  <2> QED  BY <2>1 DEF PoolInv
<1>4. PoolOutlivesRequests'
  BY DEF IInv, PoolOutlivesRequests, InFlight
<1>5. \A q \in Requests : q # r => HeadInv(q)' /\ OwnInv(q)' /\ PlaceInv(q)'
  <2> SUFFICES ASSUME NEW q \in Requests, q # r
               PROVE  HeadInv(q)' /\ OwnInv(q)' /\ PlaceInv(q)'
    OBVIOUS
  <2>1. of[q] # None => of[r] # of[q]
    BY <1>1 DEF OwnInv
  <2> QED  BY <2>1, OthersKept
<1> QED  BY <1>2, <1>3, <1>4, <1>5 DEF IInv

\* What WriteHeader does, whether or not it comes first.
Wrote(r, s) ==
    /\ fields' \in [Contexts -> ContextFields]
    /\ \A c \in Contexts : fields'[c].wrote <=> fields'[c].status # 0
    /\ \A c \in Contexts \ {of[r]} : fields'[c] = fields[c]
    /\ heads' \in [Requests -> Seq(Statuses)]
    /\ \A q \in Requests \ {r} : heads'[q] = heads[q]
    /\ fields'[of[r]].wrote
    /\ heads'[r] = <<fields'[of[r]].status>>
    /\ heads'[r] = IF heads[r] = <<>> THEN <<s>> ELSE heads[r]
    /\ fields'[of[r]].id = fields[of[r]].id
    /\ fields'[of[r]].values = fields[of[r]].values

\* WriteHeader keeps the connection and the Context together.
LEMMA WriteKept ==
    ASSUME IInv, NEW r \in Requests, of[r] # None, NEW s \in Statuses \ {0}, WriteHeader(r, s)
    PROVE  Wrote(r, s)
<1> DEFINE c == of[r]
<1>1. /\ c \in Contexts /\ HeadInv(r)
      /\ fields \in [Contexts -> ContextFields]
      /\ \A d \in Contexts : fields[d].wrote <=> fields[d].status # 0
      /\ heads \in [Requests -> Seq(Statuses)]
  BY DEF IInv, TypeOK, ContextFields
<1>2. CASE fields[c].wrote /\ UNCHANGED <<fields, heads>>
  <2>1. heads[r] = <<fields[c].status>>
    BY <1>1, <1>2 DEF HeadInv
  <2>2. heads[r] # <<>>
    BY <2>1
  <2> QED  BY <1>1, <1>2, <2>1, <2>2 DEF Wrote
<1>3. CASE /\ ~fields[c].wrote
           /\ fields' = [fields EXCEPT ![c].wrote = TRUE, ![c].status = s]
           /\ heads' = [heads EXCEPT ![r] = Append(@, s)]
  <2>1. fields'[c] = [fields[c] EXCEPT !.wrote = TRUE, !.status = s]
    BY <1>1, <1>3 DEF IInv, TypeOK
  <2>2. /\ fields'[c] \in ContextFields
        /\ fields'[c].wrote /\ fields'[c].status = s
        /\ fields'[c].id = fields[c].id /\ fields'[c].values = fields[c].values
    BY <1>1, <2>1 DEF ContextFields
  <2>3. \A d \in Contexts \ {c} : fields'[d] = fields[d]
    BY <1>3 DEF IInv, TypeOK
  <2>4. fields' \in [Contexts -> ContextFields]
    <3>1. fields' = [d \in Contexts |-> fields'[d]]
      BY <1>3 DEF IInv, TypeOK
    <3>2. \A d \in Contexts : fields'[d] \in ContextFields
      BY <1>1, <2>2, <2>3
    <3> QED  BY <3>1, <3>2
  <2>5. heads[r] = <<>>
    BY <1>1, <1>3 DEF HeadInv
  <2>6. heads'[r] = <<s>>
    BY <1>1, <1>3, <2>5
  <2>7. heads' \in [Requests -> Seq(Statuses)]
    BY <1>1, <1>3
  <2>8. \A q \in Requests \ {r} : heads'[q] = heads[q]
    BY <1>1, <1>3
  <2>9. \A d \in Contexts : fields'[d].wrote <=> fields'[d].status # 0
    BY <1>1, <2>2, <2>3, PipelineAssumption
  <2> QED  BY <2>2, <2>3, <2>4, <2>5, <2>6, <2>7, <2>8, <2>9 DEF Wrote
<1> QED  BY <1>2, <1>3 DEF WriteHeader

\* What a request in flight has.
LEMMA HasContext ==
    ASSUME IInv, NEW r \in Requests, InFlight(r)
    PROVE  /\ of[r] # None /\ of[r] \in Contexts
           /\ HeadInv(r) /\ OwnInv(r) /\ PlaceInv(r)
           /\ fields[of[r]] \in ContextFields
           /\ err[r] \in Errors
BY DEF IInv, TypeOK, InFlight, ContextFields

\* A step of r from here to there.
LEMMA GotoTyped ==
    ASSUME IInv, NEW r \in Requests, NEW here, here \notin {"new", "done"},
           NEW there \in Places \ {"new", "done"}, Goto(r, here, there)
    PROVE  /\ Running /\ pc[r] = here /\ pc'[r] = there /\ InFlight(r)
           /\ pc' \in [Requests -> Places]
           /\ \A q \in Requests \ {r} : pc'[q] = pc[q]
           /\ \A q \in Requests : pc'[q] \notin {"new", "done"} <=> pc[q] \notin {"new", "done"}
BY DEF Goto, IInv, TypeOK, InFlight

\* A Context that is given to a request, named, or that sent a 204.
LEMMA FieldsType ==
    ASSUME NEW f \in ContextFields, NEW r \in Requests
    PROVE  /\ [f EXCEPT !.status = 0, !.wrote = FALSE, !.id = None] \in ContextFields
           /\ [f EXCEPT !.id = r] \in ContextFields
           /\ [f EXCEPT !.id = r, !.wrote = TRUE, !.status = 204] \in ContextFields
           /\ [f EXCEPT !.values = r] \in ContextFields
           /\ [f EXCEPT !.values = None] \in ContextFields
<1>1. 0 \in Statuses /\ 204 \in Statuses
  BY DEF Statuses
<1> QED  BY <1>1 DEF ContextFields

-----------------------------------------------------------------------------
(* adapt and the middleware, on the way in. *)

LEMMA AcquireKept ==
    ASSUME IInv, NEW r \in Requests, NEW c \in Contexts, Acquire(r, c)
    PROVE  IInv'
<1>1. /\ pc[r] = "new" /\ pc' = [pc EXCEPT ![r] = "enter"] /\ of' = [of EXCEPT ![r] = c]
      /\ server \in {"serving", "draining"}
      /\ c \notin Held /\ pool' = pool \ {c}
      /\ UNCHANGED <<server, err, ended, heads, logged, handed>>
  <2>1. c \in pool => c \notin Held
    BY DEF IInv, OwnInv, Held
  <2> QED  BY <2>1 DEF Acquire, Goto
<1>2. of[r] = None /\ Idle(r) /\ c # None
  BY <1>1, PipelineAssumption DEF IInv, TypeOK, PlaceInv
<1>3. /\ fields' = [fields EXCEPT ![c] = fields'[c]]
      /\ fields'[c] \in ContextFields
      /\ fields'[c].status = 0 /\ ~fields'[c].wrote
      /\ fields'[c].id = None /\ fields'[c].values = None
  <2>1. CASE c \in pool
    <3>1. fields' = [fields EXCEPT ![c] = [fields[c] EXCEPT !.status = 0, !.wrote = FALSE,
                                                           !.id = None]]
      BY <2>1 DEF Acquire, IInv, TypeOK
    <3>2. fields[c] \in ContextFields /\ fields \in [Contexts -> ContextFields]
      BY DEF IInv, TypeOK, ContextFields
    <3>3. fields[c].values = None
      BY <2>1 DEF IInv, PoolInv
    <3>4. fields'[c] = [fields[c] EXCEPT !.status = 0, !.wrote = FALSE, !.id = None]
      BY <3>1 DEF IInv, TypeOK
    <3>5. /\ fields'[c] \in ContextFields
          /\ fields'[c].status = 0 /\ ~fields'[c].wrote
          /\ fields'[c].id = None /\ fields'[c].values = None
      <4>1. fields'[c] \in ContextFields
        BY <3>2, <3>4, FieldsType
      <4> QED  BY <3>2, <3>3, <3>4, <4>1 DEF ContextFields
    <3>6. fields' = [fields EXCEPT ![c] = fields'[c]]
      BY <3>1, <3>2
    <3> QED  BY <3>5, <3>6
  <2>2. CASE c \notin pool
    <3>1. fields' = [fields EXCEPT ![c] = Blank]
      BY <2>2 DEF Acquire
    <3> QED  BY <3>1 DEF Blank, Statuses, IInv, TypeOK, ContextFields
  <2> QED  BY <2>1, <2>2
<1>4. TypeOK'
  <2>1. kind' \in [Requests -> Kinds]
    BY DEF Acquire, IInv, TypeOK
  <2>2. /\ pc' \in [Requests -> Places] /\ of' \in [Requests -> Contexts \cup {None}]
        /\ pool' \subseteq Contexts
    BY <1>1 DEF IInv, TypeOK, Places
  <2>3. fields' \in [Contexts -> ContextFields]
    BY <1>3 DEF IInv, TypeOK, ContextFields
  <2>4. \A d \in Contexts : fields'[d].wrote <=> fields'[d].status # 0
    <3>1. \A d \in Contexts : fields[d].wrote <=> fields[d].status # 0
      BY DEF IInv, TypeOK
    <3>2. \A d \in Contexts \ {c} : fields'[d] = fields[d]
      BY <1>3 DEF IInv, TypeOK
    <3>3. ~fields'[c].wrote /\ fields'[c].status = 0
      BY <1>3
    <3> QED  BY <3>1, <3>2, <3>3
  <2>5. \A q \in Requests : (of'[q] # None) <=> pc'[q] \notin {"new", "done"}
    BY <1>1, <1>2 DEF IInv, TypeOK
  <2> QED  BY <1>1, <2>1, <2>2, <2>3, <2>4, <2>5 DEF IInv, TypeOK, ContextFields
<1>5. \A q \in Requests \ {r} : pc'[q] = pc[q] /\ of'[q] = of[q] /\ of[q] # c
  BY <1>1, <1>2 DEF IInv, TypeOK, Held
<1>6. \A q \in Requests : q # r => HeadInv(q)' /\ OwnInv(q)' /\ PlaceInv(q)'
  <2> SUFFICES ASSUME NEW q \in Requests, q # r
               PROVE  HeadInv(q)' /\ OwnInv(q)' /\ PlaceInv(q)'
    OBVIOUS
  <2>1. of'[r] = c /\ pool' \subseteq pool \cup {of[r]}
    BY <1>1 DEF IInv, TypeOK
  <2>2. \A d \in Contexts \ {of[r], of'[r]} : fields'[d] = fields[d]
    BY <1>3, <2>1 DEF IInv, TypeOK
  <2>3. /\ err'[q] = err[q] /\ ended'[q] = ended[q] /\ heads'[q] = heads[q]
        /\ logged'[q] = logged[q] /\ handed'[q] = handed[q]
    BY <1>1
  <2> QED  BY <1>4, <1>5, <2>1, <2>2, <2>3, OthersKept
<1>7. HeadInv(r)' /\ OwnInv(r)' /\ PlaceInv(r)'
  <2>1. of'[r] = c /\ pc'[r] = "enter"
    BY <1>1 DEF IInv, TypeOK
  <2>2. HeadInv(r)'
    BY <1>1, <1>2, <1>3, <2>1 DEF HeadInv, Idle
  <2>3. OwnInv(r)'
    BY <1>1, <1>3, <1>5, <2>1 DEF OwnInv
  <2>4. PlaceInv(r)'
    BY <1>1, <1>2, <2>1 DEF PlaceInv, Idle, Silent
  <2> QED  BY <2>2, <2>3, <2>4
<1>8. PoolInv'
  BY <1>1, <1>3 DEF IInv, TypeOK, PoolInv
<1>9. PoolOutlivesRequests'
  BY <1>1 DEF PoolOutlivesRequests
<1> QED  BY <1>4, <1>6, <1>7, <1>8, <1>9 DEF IInv

LEMMA FallbackKept ==
    ASSUME IInv, NEW r \in Requests, Fallback(r)
    PROVE  IInv'
<1>1. /\ Running /\ pc[r] = "enter" /\ pc'[r] = "render" /\ InFlight(r)
      /\ pc' \in [Requests -> Places]
      /\ \A q \in Requests \ {r} : pc'[q] = pc[q]
      /\ \A q \in Requests : pc'[q] \notin {"new", "done"} <=> pc[q] \notin {"new", "done"}
  BY GotoTyped DEF Fallback, Places
<1>2. /\ of[r] # None /\ of[r] \in Contexts /\ HeadInv(r) /\ OwnInv(r) /\ PlaceInv(r)
  BY <1>1, HasContext
<1>3. UNCHANGED <<server, kind, of, ended, logged, handed, pool>>
  BY DEF Fallback
<1>4. CASE err' = [err EXCEPT ![r] = "fallback"] /\ UNCHANGED <<fields, heads>>
  <2>1. TypeOK'
    BY <1>1, <1>3, <1>4 DEF IInv, TypeOK, Errors, HTTPErrors
  <2>2. \A q \in Requests \ {r} : err'[q] = err[q]
    BY <1>4 DEF IInv, TypeOK
  <2>3. HeadInv(r)' /\ PlaceInv(r)'
    BY <1>1, <1>2, <1>3, <1>4 DEF HeadInv, PlaceInv, Silent
  <2> QED  BY <1>1, <1>2, <1>3, <1>4, <2>1, <2>2, <2>3, StepKept DEF OwnInv
<1>5. CASE WriteHeader(r, 204) /\ UNCHANGED err
  <2>1. Wrote(r, 204)
    BY <1>2, <1>5, WriteKept DEF Statuses
  <2>2. TypeOK'
    BY <1>1, <1>3, <1>5, <2>1 DEF IInv, TypeOK, Wrote, ContextFields
  <2>3. HeadInv(r)'
    BY <1>2, <1>3, <2>1 DEF HeadInv, Wrote
  <2>4. heads'[r] # <<>>
    BY <2>1 DEF Wrote
  <2>5. PlaceInv(r)'
    BY <1>1, <1>2, <1>3, <1>5 DEF PlaceInv, Silent
  <2>6. /\ \A q \in Requests \ {r} : heads'[q] = heads[q]
        /\ \A c \in Contexts \ {of[r]} : fields'[c] = fields[c]
        /\ fields'[of[r]].id \in {None, r} /\ fields'[of[r]].values \in {None, r}
    BY <1>2, <2>1 DEF Wrote, OwnInv
  <2> QED  BY <1>1, <1>2, <1>3, <1>5, <2>2, <2>3, <2>5, <2>6, StepKept
<1> QED  BY <1>4, <1>5 DEF Fallback

\* Steps between two places in which nothing is written.  A Context may get the
\* id of its request, or a value of it.
LEMMA QuietStep ==
    ASSUME IInv, NEW r \in Requests, NEW here, here \notin {"new", "done"},
           NEW there \in Places \ {"new", "done"}, Goto(r, here, there),
           UNCHANGED <<server, kind, of, pool, ended, heads>>,
           NEW e \in Errors, err' = [err EXCEPT ![r] = e],
           NEW l \in Statuses \cup {None}, logged' = [logged EXCEPT ![r] = l],
           NEW h \in Handed, handed' = [handed EXCEPT ![r] = h],
           NEW f \in ContextFields, fields' = [fields EXCEPT ![of[r]] = f],
           f.status = fields[of[r]].status, f.wrote = fields[of[r]].wrote,
           f.id \in {None, r}, f.values \in {None, r},
           PlaceInv(r)'
    PROVE  IInv'
<1>1. /\ Running /\ pc[r] = here /\ InFlight(r)
      /\ pc' \in [Requests -> Places]
      /\ \A q \in Requests \ {r} : pc'[q] = pc[q]
      /\ \A q \in Requests : pc'[q] \notin {"new", "done"} <=> pc[q] \notin {"new", "done"}
  BY GotoTyped
<1>2. /\ of[r] # None /\ of[r] \in Contexts /\ HeadInv(r) /\ OwnInv(r)
  BY <1>1, HasContext
<1>3. /\ fields \in [Contexts -> ContextFields]
      /\ fields' \in [Contexts -> ContextFields] /\ fields'[of[r]] = f
      /\ \A c \in Contexts \ {of[r]} : fields'[c] = fields[c]
  BY <1>2 DEF IInv, TypeOK, ContextFields
<1>4. \A c \in Contexts : fields'[c].wrote <=> fields'[c].status # 0
  BY <1>2, <1>3 DEF IInv, TypeOK
<1>5. TypeOK'
  BY <1>1, <1>3, <1>4 DEF IInv, TypeOK, ContextFields
<1>6. HeadInv(r)'
  BY <1>2, <1>3 DEF HeadInv
<1>7. \A q \in Requests \ {r} :
         /\ err'[q] = err[q] /\ ended'[q] = ended[q] /\ heads'[q] = heads[q]
         /\ logged'[q] = logged[q] /\ handed'[q] = handed[q]
  BY DEF IInv, TypeOK
<1> QED  BY <1>1, <1>2, <1>3, <1>5, <1>6, <1>7, StepKept DEF InFlight

LEMMA EnterKept ==
    ASSUME IInv, NEW r \in Requests, Enter(r)
    PROVE  IInv'
<1>1. /\ Running /\ pc[r] = "enter" /\ InFlight(r)
      /\ pc' \in [Requests -> Places]
      /\ pc'[r] \in {"handler", "recover"}
      /\ \A q \in Requests \ {r} : pc'[q] = pc[q]
      /\ \A q \in Requests : pc'[q] \notin {"new", "done"} <=> pc[q] \notin {"new", "done"}
  BY DEF Enter, Goto, IInv, TypeOK, InFlight, Places
<1>2. /\ of[r] # None /\ of[r] \in Contexts /\ HeadInv(r) /\ OwnInv(r) /\ PlaceInv(r)
      /\ fields[of[r]] \in ContextFields
      /\ fields \in [Contexts -> ContextFields]
  BY <1>1, HasContext DEF IInv, TypeOK, ContextFields
<1>3. UNCHANGED <<server, kind, of, ended, logged, handed, pool>>
  BY DEF Enter
<1>4. err[r] = "nil" /\ heads[r] = <<>> /\ Silent(r) /\ ~fields[of[r]].wrote
  <2>1. <<fields[of[r]].status>> # <<>>
    OBVIOUS
  <2> QED  BY <1>1, <1>2, <2>1 DEF PlaceInv, HeadInv
<1> DEFINE named == [fields[of[r]] EXCEPT !.id = r]
<1> DEFINE sent == [fields[of[r]] EXCEPT !.id = r, !.wrote = TRUE, !.status = 204]
<1>5. named \in ContextFields /\ sent \in ContextFields
  BY <1>2, FieldsType
<1>6. CASE /\ Goto(r, "enter", "handler")
           /\ fields' = [fields EXCEPT ![of[r]].id = r]
           /\ UNCHANGED <<err, heads>>
  <2>1. /\ fields' = [fields EXCEPT ![of[r]] = named]
        /\ named.status = fields[of[r]].status /\ named.wrote = fields[of[r]].wrote
        /\ named.id = r /\ named.values \in {None, r}
    BY <1>2, <1>6 DEF ContextFields, OwnInv
  <2>2. /\ err' = [err EXCEPT ![r] = err[r]] /\ err[r] \in Errors
        /\ logged' = [logged EXCEPT ![r] = logged[r]] /\ logged[r] \in Statuses \cup {None}
        /\ handed' = [handed EXCEPT ![r] = handed[r]] /\ handed[r] \in Handed
    BY <1>3, <1>6 DEF IInv, TypeOK
  <2>3. pc'[r] = "handler"
    BY <1>6 DEF Goto, IInv, TypeOK
  <2>4. PlaceInv(r)'
    BY <1>3, <1>4, <1>6, <2>3 DEF PlaceInv, Silent
  <2> HIDE DEF named
  <2> QED  BY <1>3, <1>5, <1>6, <2>1, <2>2, <2>4, QuietStep DEF Places
<1>7. CASE /\ Goto(r, "enter", "recover")
           /\ fields' = [fields EXCEPT ![of[r]].id = r, ![of[r]].wrote = TRUE,
                                       ![of[r]].status = 204]
           /\ heads' = [heads EXCEPT ![r] = Append(@, 204)]
           /\ UNCHANGED err
  <2>1. fields' = [fields EXCEPT ![of[r]] = sent]
    BY <1>2, <1>7
  <2>2. /\ sent.status = 204 /\ sent.wrote /\ sent.id = r /\ sent.values \in {None, r}
    BY <1>2 DEF ContextFields, OwnInv
  <2> HIDE DEF sent
  <2>3. heads'[r] = <<204>> /\ heads' \in [Requests -> Seq(Statuses)]
        /\ \A q \in Requests \ {r} : heads'[q] = heads[q]
    BY <1>4, <1>7 DEF IInv, TypeOK, Statuses
  <2>4. /\ fields' \in [Contexts -> ContextFields] /\ fields'[of[r]] = sent
        /\ \A c \in Contexts \ {of[r]} : fields'[c] = fields[c]
    BY <1>2, <1>5, <2>1
  <2>5. \A c \in Contexts : fields'[c].wrote <=> fields'[c].status # 0
    <3>1. \A c \in Contexts : fields[c].wrote <=> fields[c].status # 0
      BY DEF IInv, TypeOK
    <3> QED  BY <2>2, <2>4, <3>1
  <2>6. TypeOK'
    BY <1>1, <1>3, <1>7, <2>3, <2>4, <2>5 DEF IInv, TypeOK, ContextFields
  <2>7. HeadInv(r)'
    BY <1>3, <2>2, <2>3, <2>4 DEF HeadInv
  <2>8. PlaceInv(r)'
    BY <1>1, <1>3, <1>4, <1>7 DEF PlaceInv, Silent, Goto, IInv, TypeOK
  <2>9. fields'[of[r]].id \in {None, r} /\ fields'[of[r]].values \in {None, r}
    BY <2>2, <2>4
  <2>10. UNCHANGED err
    BY <1>7
  <2> QED
    BY <1>1, <1>3, <2>3, <2>4, <2>6, <2>7, <2>8, <2>9, <2>10, StepKept DEF InFlight
<1>8. CASE /\ Goto(r, "enter", "recover")
           /\ fields' = [fields EXCEPT ![of[r]].id = r]
           /\ err' = [err EXCEPT ![r] = "limited"]
           /\ UNCHANGED heads
  <2>1. /\ fields' = [fields EXCEPT ![of[r]] = named]
        /\ named.status = fields[of[r]].status /\ named.wrote = fields[of[r]].wrote
        /\ named.id = r /\ named.values \in {None, r}
    BY <1>2, <1>8 DEF ContextFields, OwnInv
  <2>2. /\ "limited" \in Errors
        /\ logged' = [logged EXCEPT ![r] = logged[r]] /\ logged[r] \in Statuses \cup {None}
        /\ handed' = [handed EXCEPT ![r] = handed[r]] /\ handed[r] \in Handed
    BY <1>3, <1>8 DEF IInv, TypeOK, Errors, HTTPErrors
  <2>3. pc'[r] = "recover"
    BY <1>8 DEF Goto, IInv, TypeOK
  <2>4. PlaceInv(r)'
    BY <1>3, <1>4, <1>8, <2>3 DEF PlaceInv, Silent
  <2> HIDE DEF named
  <2> QED  BY <1>3, <1>5, <1>8, <2>1, <2>2, <2>4, QuietStep DEF Places
<1> QED  BY <1>6, <1>7, <1>8 DEF Enter

-----------------------------------------------------------------------------
(* The handler. *)

\* A step that leaves the Context, the error, the line and the handler's result
\* as they are.
LEMMA SameFields ==
    ASSUME IInv, NEW r \in Requests, InFlight(r)
    PROVE  /\ fields[of[r]] \in ContextFields
           /\ fields = [fields EXCEPT ![of[r]] = fields[of[r]]]
           /\ fields[of[r]].id \in {None, r} /\ fields[of[r]].values \in {None, r}
           /\ err = [err EXCEPT ![r] = err[r]] /\ err[r] \in Errors
           /\ logged = [logged EXCEPT ![r] = logged[r]] /\ logged[r] \in Statuses \cup {None}
           /\ handed = [handed EXCEPT ![r] = handed[r]] /\ handed[r] \in Handed
<1>1. of[r] # None /\ of[r] \in Contexts /\ OwnInv(r) /\ fields[of[r]] \in ContextFields
  BY HasContext
<1> QED  BY <1>1 DEF IInv, TypeOK, OwnInv

LEMMA SetValueKept ==
    ASSUME IInv, NEW r \in Requests, SetValue(r)
    PROVE  IInv'
<1>1. pc[r] = "handler" /\ InFlight(r) /\ Goto(r, "handler", "handler") /\ pc'[r] = "handler"
  BY DEF SetValue, Goto, InFlight, IInv, TypeOK
<1>2. /\ of[r] # None /\ of[r] \in Contexts /\ OwnInv(r) /\ PlaceInv(r)
      /\ fields[of[r]] \in ContextFields
  BY <1>1, HasContext
<1> DEFINE f == [fields[of[r]] EXCEPT !.values = r]
<1>3. /\ f \in ContextFields /\ f.status = fields[of[r]].status
      /\ f.wrote = fields[of[r]].wrote /\ f.id \in {None, r} /\ f.values = r
  <2>1. f \in ContextFields
    BY <1>2, FieldsType
  <2> QED  BY <1>2, <2>1 DEF ContextFields, OwnInv
<1>4. fields' = [fields EXCEPT ![of[r]] = f]
  BY <1>2 DEF SetValue
<1> HIDE DEF f
<1>5. UNCHANGED <<server, kind, of, pool, err, ended, heads, logged, handed>>
  BY DEF SetValue
<1>6. PlaceInv(r)'
  BY <1>1, <1>2, <1>5 DEF PlaceInv, Silent, HandedInv
<1>7. /\ err' = [err EXCEPT ![r] = err[r]] /\ err[r] \in Errors
      /\ logged' = [logged EXCEPT ![r] = logged[r]] /\ logged[r] \in Statuses \cup {None}
      /\ handed' = [handed EXCEPT ![r] = handed[r]] /\ handed[r] \in Handed
  BY <1>1, <1>5, SameFields
<1> QED  BY <1>1, <1>3, <1>4, <1>5, <1>6, <1>7, QuietStep DEF Places

LEMMA RespondKept ==
    ASSUME IInv, NEW r \in Requests, Respond(r)
    PROVE  IInv'
<1>1. /\ Running /\ pc[r] = "handler" /\ pc'[r] = "handler" /\ InFlight(r)
      /\ pc' \in [Requests -> Places]
      /\ \A q \in Requests \ {r} : pc'[q] = pc[q]
      /\ \A q \in Requests : pc'[q] \notin {"new", "done"} <=> pc[q] \notin {"new", "done"}
  BY GotoTyped DEF Respond, Places
<1>2. /\ of[r] # None /\ of[r] \in Contexts /\ OwnInv(r) /\ PlaceInv(r)
  BY <1>1, HasContext
<1>3. UNCHANGED <<server, kind, of, pool, err, ended, logged, handed>> /\ WriteHeader(r, 201)
  BY DEF Respond
<1>4. Wrote(r, 201)
  BY <1>2, <1>3, WriteKept DEF Statuses
<1>5. TypeOK'
  BY <1>1, <1>3, <1>4 DEF IInv, TypeOK, Wrote, ContextFields
<1>6. HeadInv(r)'
  BY <1>2, <1>3, <1>4 DEF HeadInv, Wrote
<1>7. heads'[r] = <<201>>
  BY <1>1, <1>2, <1>4 DEF PlaceInv, Wrote
<1>8. PlaceInv(r)'
  BY <1>1, <1>2, <1>3, <1>7 DEF PlaceInv, Silent
<1>9. /\ \A q \in Requests \ {r} : heads'[q] = heads[q]
      /\ \A c \in Contexts \ {of[r]} : fields'[c] = fields[c]
      /\ fields'[of[r]].id \in {None, r} /\ fields'[of[r]].values \in {None, r}
  BY <1>2, <1>4 DEF Wrote, OwnInv
<1> QED  BY <1>1, <1>3, <1>5, <1>6, <1>8, <1>9, StepKept DEF InFlight

LEMMA FinishKept ==
    ASSUME IInv, NEW r \in Requests, NEW e \in HandlerErrors, Finish(r, e)
    PROVE  IInv'
<1> DEFINE there == IF e \in Panics THEN "recover" ELSE "leave"
<1>1. /\ pc[r] = "handler" /\ InFlight(r) /\ Goto(r, "handler", there)
      /\ pc'[r] = there
  BY DEF Finish, Goto, InFlight, IInv, TypeOK
<1>2. /\ HeadInv(r) /\ PlaceInv(r) /\ of[r] # None /\ fields[of[r]] \in ContextFields
  BY <1>1, HasContext
<1>3. e \in Errors /\ (e \in Panics => e \notin {"nil", "deadline"})
  BY PipelineAssumption DEF Errors, HTTPErrors, Mapped, Panics
<1>9. [result |-> e, wrote |-> fields[of[r]].wrote, late |-> ended[r]] \in Handed
  BY <1>2, <1>3 DEF Handed, ContextFields, IInv, TypeOK
<1>10. PICK h \in Handed :
           h = [result |-> e, wrote |-> fields[of[r]].wrote, late |-> ended[r]]
  BY <1>9
<1>4. h.result = e /\ h.late = ended[r] /\ h.wrote = fields[of[r]].wrote
  BY <1>10
<1>5. heads[r] = Left(h)
  <2>1. heads[r] \in {<<>>, <<201>>}
    BY <1>1, <1>2 DEF PlaceInv
  <2>2. <<fields[of[r]].status>> # <<>>
    OBVIOUS
  <2> QED  BY <1>2, <1>4, <2>1, <2>2 DEF HeadInv, Left
<1>6. /\ UNCHANGED <<server, kind, of, pool, ended, heads, logged, fields>>
      /\ err' = [err EXCEPT ![r] = e] /\ handed' = [handed EXCEPT ![r] = h]
  BY <1>10 DEF Finish, contextVars
<1>7. PlaceInv(r)'
  <2>1. err'[r] = e /\ handed'[r] = h /\ logged'[r] = logged[r] /\ ended'[r] = ended[r]
    BY <1>6 DEF IInv, TypeOK
  <2>2. heads'[r] = Left(h)
    BY <1>5, <1>6
  <2>3. CASE e \in Panics
    <3>1. pc'[r] = "recover" /\ err'[r] \in Returned(r, h)'
      BY <1>1, <1>3, <1>4, <2>1, <2>3 DEF Returned
    <3>2. HandedInv(r, h)'
      BY <1>4, <2>1, <2>2, <3>1 DEF HandedInv
    <3> QED  BY <2>1, <3>1, <3>2 DEF PlaceInv
  <2>4. CASE e \notin Panics
    <3>1. pc'[r] = "leave"
      BY <1>1, <2>4
    <3>2. HandedInv(r, h)'
      BY <1>4, <2>1, <2>2, <2>4, <3>1 DEF HandedInv
    <3> QED  BY <2>1, <3>1, <3>2 DEF PlaceInv
  <2> QED  BY <2>3, <2>4
<1>8. there \in Places \ {"new", "done"}
  BY DEF Places
<1> HIDE DEF there
<1> QED  BY <1>1, <1>3, <1>4, <1>6, <1>7, <1>8, SameFields, QuietStep

-----------------------------------------------------------------------------
(* The middleware, on the way out. *)

\* What holds of the handler's result h is said of the state before the step and
\* of the state after it: h is fixed, the state changes.
LEMMA TimeoutKept ==
    ASSUME IInv, NEW r \in Requests, TimeoutReturns(r)
    PROVE  IInv'
<1> DEFINE expired == err[r] = "nil" /\ ended[r] /\ ~fields[of[r]].wrote
<1> DEFINE e == IF expired \/ err[r] = "deadline" THEN "timeout" ELSE err[r]
<1>1. pc[r] = "leave" /\ InFlight(r) /\ Goto(r, "leave", "recover") /\ pc'[r] = "recover"
  BY DEF TimeoutReturns, Goto, InFlight, IInv, TypeOK
<1>2. HeadInv(r) /\ PlaceInv(r) /\ of[r] # None /\ err[r] \in Errors
  BY <1>1, HasContext
<1>3. e \in Errors
  BY <1>2 DEF Errors, HTTPErrors
<1>4. /\ UNCHANGED <<server, kind, of, pool, ended, heads, logged, handed, fields>>
      /\ err' = [err EXCEPT ![r] = e]
  BY DEF TimeoutReturns, contextVars
<1>5. err'[r] = e
  BY <1>4 DEF IInv, TypeOK
<1>6. ASSUME NEW h \in Handed, h = handed[r], handed[r] # None
      PROVE  HandedInv(r, h)'
  <2>1. HandedInv(r, h)
    BY <1>2, <1>6 DEF PlaceInv
  <2>2. heads[r] = Left(h) /\ err[r] = h.result /\ (h.late => ended[r])
    BY <1>1, <2>1 DEF HandedInv
  <2>3. fields[of[r]].wrote <=> h.wrote
    <3>1. <<fields[of[r]].status>> # <<>> /\ <<201>> # <<>>
      OBVIOUS
    <3>2. CASE fields[of[r]].wrote
      BY <1>2, <2>2, <3>1, <3>2 DEF HeadInv, Left
    <3>3. CASE ~fields[of[r]].wrote
      BY <1>2, <2>2, <3>1, <3>3 DEF HeadInv, Left
    <3> QED  BY <3>2, <3>3
  <2>4. e \in Returned(r, h)
    BY <2>2, <2>3 DEF Returned
  <2>5. err'[r] \in Returned(r, h)'
    BY <1>4, <1>5, <2>4 DEF Returned
  <2>6. heads'[r] = Left(h) /\ (h.late => ended'[r])
    BY <1>4, <2>2
  <2> QED  BY <1>1, <2>5, <2>6 DEF HandedInv
<1>7. PlaceInv(r)'
  <2>1. handed'[r] = handed[r] /\ handed[r] \in Handed
    BY <1>4 DEF IInv, TypeOK
  <2>2. PICK h \in Handed : h = handed[r]
    BY <2>1
  <2>3. handed[r] # None => HandedInv(r, h)'
    BY <1>6, <2>2
  <2>4. handed'[r] = h
    BY <2>1, <2>2
  <2> QED  BY <1>1, <2>1, <2>3, <2>4 DEF PlaceInv
<1> HIDE DEF e
<1> QED  BY <1>1, <1>3, <1>4, <1>7, SameFields, QuietStep DEF Places

LEMMA RecoverKept ==
    ASSUME IInv, NEW r \in Requests, RecoverReturns(r)
    PROVE  IInv'
<1> DEFINE there == IF err[r] = "abort" THEN "release" ELSE "log"
<1> DEFINE e == IF err[r] = "panic" THEN "panicked" ELSE err[r]
<1>1. /\ pc[r] = "recover" /\ InFlight(r)
  BY DEF RecoverReturns, Goto, InFlight
<1>2. PlaceInv(r) /\ of[r] # None /\ err[r] \in Errors
  BY <1>1, HasContext
<1>3. e \in Errors /\ there \in Places \ {"new", "done"}
  BY <1>2 DEF Errors, HTTPErrors, Places
<1>4. /\ UNCHANGED <<server, kind, of, pool, ended, heads, logged, handed, fields>>
      /\ Goto(r, "recover", there) /\ err' = [err EXCEPT ![r] = e]
  <2>1. err = [err EXCEPT ![r] = err[r]]
    BY DEF IInv, TypeOK
  <2> QED  BY <2>1 DEF RecoverReturns, contextVars, Panics
<1>5. err'[r] = e /\ pc'[r] = there
  BY <1>4 DEF Goto, IInv, TypeOK
<1>6. ASSUME NEW h \in Handed, h = handed[r], handed[r] # None
      PROVE  HandedInv(r, h)'
  <2>1. HandedInv(r, h)
    BY <1>2, <1>6 DEF PlaceInv
  <2>2. heads[r] = Left(h) /\ err[r] \in Returned(r, h) /\ (h.late => ended[r])
    BY <1>1, <2>1 DEF HandedInv
  <2>3. err[r] # "abort" => e \in Recovered(r, h) /\ h.result # "abort"
    BY <2>2 DEF Returned, Recovered
  <2>4. err[r] # "abort" => err'[r] \in Recovered(r, h)' /\ h.result # "abort"
    BY <1>4, <1>5, <2>3 DEF Returned, Recovered
  <2>5. heads'[r] = Left(h) /\ (h.late => ended'[r])
    BY <1>4, <2>2
  <2> QED  BY <1>5, <2>4, <2>5 DEF HandedInv
<1>7. PlaceInv(r)'
  <2>1. handed'[r] = handed[r] /\ handed[r] \in Handed
    BY <1>4 DEF IInv, TypeOK
  <2>2. PICK h \in Handed : h = handed[r]
    BY <2>1
  <2>3. handed[r] # None => HandedInv(r, h)'
    BY <1>6, <2>2
  <2>4. handed'[r] = h
    BY <2>1, <2>2
  <2> QED  BY <1>5, <2>1, <2>3, <2>4 DEF PlaceInv
<1> HIDE DEF e, there
<1> QED  BY <1>1, <1>3, <1>4, <1>7, SameFields, QuietStep

LEMMA LoggerKept ==
    ASSUME IInv, NEW r \in Requests, LoggerReturns(r)
    PROVE  IInv'
<1> DEFINE l == IF err[r] # "nil" THEN StatusOf(err[r]) ELSE fields[of[r]].status
<1>1. pc[r] = "log" /\ InFlight(r) /\ Goto(r, "log", "render") /\ pc'[r] = "render"
  BY DEF LoggerReturns, Goto, InFlight, IInv, TypeOK
<1>2. /\ HeadInv(r) /\ PlaceInv(r) /\ of[r] # None /\ of[r] \in Contexts
      /\ err[r] \in Errors /\ fields[of[r]] \in ContextFields
  BY <1>1, HasContext
<1>3. l \in Statuses
  BY <1>2 DEF StatusOf, Rendered, Statuses, ContextFields
<1>4. /\ UNCHANGED <<server, kind, of, pool, ended, heads, err, handed, fields>>
      /\ logged' = [logged EXCEPT ![r] = l]
  BY DEF LoggerReturns, contextVars
<1>5. logged'[r] = l
  BY <1>4 DEF IInv, TypeOK
<1>6. ASSUME NEW h \in Handed, h = handed[r], handed[r] # None
      PROVE  HandedInv(r, h)'
  <2>1. HandedInv(r, h)
    BY <1>2, <1>6 DEF PlaceInv
  <2>2. /\ heads[r] = Left(h) /\ err[r] \in Recovered(r, h) /\ h.result # "abort"
        /\ (h.late => ended[r])
    BY <1>1, <2>1 DEF HandedInv
  <2>3. fields[of[r]].status = IF h.wrote THEN 201 ELSE 0
    <3>1. <<fields[of[r]].status>> # <<>> /\ <<201>> # <<>>
      OBVIOUS
    <3>2. fields[of[r]].wrote <=> fields[of[r]].status # 0
      BY <1>2 DEF IInv, TypeOK
    <3>3. CASE fields[of[r]].wrote
      <4>1. heads[r] = <<fields[of[r]].status>>
        BY <1>2, <3>3 DEF HeadInv
      <4>2. h.wrote /\ <<fields[of[r]].status>> = <<201>>
        BY <2>2, <3>1, <4>1 DEF Left
      <4> QED  BY <4>2
    <3>4. CASE ~fields[of[r]].wrote
      BY <1>2, <2>2, <3>1, <3>2, <3>4 DEF HeadInv, Left
    <3> QED  BY <3>3, <3>4
  <2>4. Line(r, h)'
    BY <1>4, <1>5, <2>3 DEF Line
  <2>5. err'[r] \in Recovered(r, h)'
    BY <1>4, <2>2 DEF Returned, Recovered
  <2>6. heads'[r] = Left(h) /\ (h.late => ended'[r])
    BY <1>4, <2>2
  <2> QED  BY <1>1, <2>2, <2>4, <2>5, <2>6 DEF HandedInv
<1>7. PlaceInv(r)'
  <2>1. handed'[r] = handed[r] /\ handed[r] \in Handed
    BY <1>4 DEF IInv, TypeOK
  <2>2. PICK h \in Handed : h = handed[r]
    BY <2>1
  <2>3. handed[r] # None => HandedInv(r, h)'
    BY <1>6, <2>2
  <2>4. handed'[r] = h
    BY <2>1, <2>2
  <2> QED  BY <1>1, <2>1, <2>3, <2>4 DEF PlaceInv
<1>8. /\ fields' = [fields EXCEPT ![of[r]] = fields[of[r]]]
      /\ err' = [err EXCEPT ![r] = err[r]] /\ handed' = [handed EXCEPT ![r] = handed[r]]
      /\ fields[of[r]].id \in {None, r} /\ fields[of[r]].values \in {None, r}
      /\ handed[r] \in Handed
  BY <1>1, <1>4, SameFields
<1> HIDE DEF l
<1> QED  BY <1>1, <1>2, <1>3, <1>4, <1>7, <1>8, QuietStep DEF Places

-----------------------------------------------------------------------------
(* adapt, on the way out. *)

LEMMA RenderKept ==
    ASSUME IInv, NEW r \in Requests, Render(r)
    PROVE  IInv'
<1>1. /\ Running /\ pc[r] = "render" /\ pc'[r] = "release" /\ InFlight(r)
      /\ pc' \in [Requests -> Places]
      /\ \A q \in Requests \ {r} : pc'[q] = pc[q]
      /\ \A q \in Requests : pc'[q] \notin {"new", "done"} <=> pc[q] \notin {"new", "done"}
  BY GotoTyped DEF Render, Places
<1>2. /\ of[r] # None /\ of[r] \in Contexts /\ OwnInv(r) /\ PlaceInv(r) /\ err[r] \in Errors
  BY <1>1, HasContext
<1>3. UNCHANGED <<server, kind, of, pool, err, ended, logged, handed>>
      /\ WriteHeader(r, Shown(r))
  BY DEF Render, Shown
<1>4. Shown(r) \in Statuses \ {0}
  BY <1>2 DEF Shown, Rendered, Statuses
<1>5. Wrote(r, Shown(r))
  BY <1>2, <1>3, <1>4, WriteKept
<1>6. TypeOK'
  BY <1>1, <1>3, <1>5 DEF IInv, TypeOK, Wrote, ContextFields
<1>7. HeadInv(r)'
  BY <1>2, <1>3, <1>5 DEF HeadInv, Wrote
<1>8. heads'[r] # <<>> /\ heads'[r] = IF heads[r] = <<>> THEN <<Shown(r)>> ELSE heads[r]
  BY <1>5 DEF Wrote
<1>9. ASSUME NEW h \in Handed, h = handed[r], handed[r] # None
      PROVE  HandedInv(r, h)'
  <2>1. HandedInv(r, h)
    BY <1>2, <1>9 DEF PlaceInv
  <2>2. /\ heads[r] = Left(h) /\ err[r] \in Recovered(r, h) /\ h.result # "abort"
        /\ Line(r, h) /\ (h.late => ended[r])
    BY <1>1, <2>1 DEF HandedInv
  <2>3. Line(r, h)' /\ err'[r] \in Recovered(r, h)' /\ (h.late => ended'[r])
    BY <1>3, <2>2 DEF Line, Recovered, Returned
  <2>4. heads'[r] = IF h.wrote THEN Left(h) ELSE <<Shown(r)>>
    <3>1. <<201>> # <<>>
      OBVIOUS
    <3> QED  BY <1>8, <2>2, <3>1 DEF Left
  <2>5. Shown(r)' = Shown(r)
    BY <1>3 DEF Shown
  <2> QED  BY <1>1, <2>3, <2>4, <2>5 DEF HandedInv
<1>10. PlaceInv(r)'
  <2>1. handed'[r] = handed[r] /\ handed[r] \in Handed
    BY <1>3 DEF IInv, TypeOK
  <2>2. PICK h \in Handed : h = handed[r]
    BY <2>1
  <2>3. handed[r] # None => HandedInv(r, h)'
    BY <1>9, <2>2
  <2>4. handed'[r] = h
    BY <2>1, <2>2
  <2> QED  BY <1>1, <1>8, <2>1, <2>3, <2>4 DEF PlaceInv
<1>11. /\ \A q \in Requests \ {r} : heads'[q] = heads[q]
       /\ \A c \in Contexts \ {of[r]} : fields'[c] = fields[c]
       /\ fields'[of[r]].id \in {None, r} /\ fields'[of[r]].values \in {None, r}
  BY <1>2, <1>5 DEF Wrote, OwnInv
<1> QED  BY <1>1, <1>3, <1>6, <1>7, <1>10, <1>11, StepKept DEF InFlight

LEMMA ReleaseKept ==
    ASSUME IInv, NEW r \in Requests, Release(r)
    PROVE  IInv'
<1> DEFINE c == of[r]
<1> DEFINE f == [fields[c] EXCEPT !.values = None]
<1>1. /\ Running /\ pc[r] = "release" /\ InFlight(r)
      /\ pc' = [pc EXCEPT ![r] = "done"] /\ pc'[r] = "done"
  BY DEF Release, Goto, InFlight, IInv, TypeOK
<1>2. /\ c # None /\ c \in Contexts /\ OwnInv(r)
      /\ fields[c] \in ContextFields /\ fields \in [Contexts -> ContextFields]
  BY <1>1, HasContext DEF IInv, TypeOK, ContextFields
<1>3. f \in ContextFields
  BY <1>2, FieldsType
<1>4. f.status = fields[c].status /\ f.wrote = fields[c].wrote /\ f.values = None
  BY <1>2 DEF ContextFields
<1>5. fields' = [fields EXCEPT ![c] = f]
  BY <1>2 DEF Release
<1> HIDE DEF f
<1>6. /\ fields' \in [Contexts -> ContextFields] /\ fields'[c] = f
      /\ \A d \in Contexts \ {c} : fields'[d] = fields[d]
  BY <1>2, <1>3, <1>5
<1>7. /\ of'[r] = None /\ err'[r] = "nil" /\ ended'[r] = FALSE /\ heads'[r] = <<>>
      /\ logged'[r] = None /\ handed'[r] = None
      /\ pool' = pool \cup {c} /\ server' = server
  BY DEF Release, IInv, TypeOK
<1>8. \A q \in Requests \ {r} :
         /\ pc'[q] = pc[q] /\ of'[q] = of[q] /\ err'[q] = err[q] /\ ended'[q] = ended[q]
         /\ heads'[q] = heads[q] /\ logged'[q] = logged[q] /\ handed'[q] = handed[q]
  BY <1>1 DEF Release, IInv, TypeOK
<1>9. TypeOK'
  <2>1. \A d \in Contexts : fields'[d].wrote <=> fields'[d].status # 0
    <3>1. \A d \in Contexts : fields[d].wrote <=> fields[d].status # 0
      BY DEF IInv, TypeOK
    <3> QED  BY <1>2, <1>4, <1>6, <3>1
  <2>2. \A q \in Requests : (of'[q] # None) <=> pc'[q] \notin {"new", "done"}
    BY <1>1, <1>7, <1>8 DEF IInv, TypeOK
  <2>3. /\ kind' \in [Requests -> Kinds] /\ pc' \in [Requests -> Places]
        /\ of' \in [Requests -> Contexts \cup {None}]
    BY <1>1 DEF Release, IInv, TypeOK, Kinds, Places
  <2>4. /\ err' \in [Requests -> Errors] /\ ended' \in [Requests -> BOOLEAN]
        /\ logged' \in [Requests -> Statuses \cup {None}]
    BY DEF Release, IInv, TypeOK, Errors
  <2>5. heads' \in [Requests -> Seq(Statuses)]
    <3>1. <<>> \in Seq(Statuses)
      OBVIOUS
    <3> QED  BY <3>1 DEF Release, IInv, TypeOK
  <2>6. handed' \in [Requests -> Handed]
    BY DEF Release, IInv, TypeOK, Handed
  <2>7. server' \in Phases /\ pool' \subseteq Contexts
    BY <1>2, <1>7 DEF IInv, TypeOK
  <2> QED  BY <1>6, <2>1, <2>2, <2>3, <2>4, <2>5, <2>6, <2>7 DEF TypeOK, ContextFields
<1>10. \A q \in Requests : q # r => HeadInv(q)' /\ OwnInv(q)' /\ PlaceInv(q)'
  <2> SUFFICES ASSUME NEW q \in Requests, q # r
               PROVE  HeadInv(q)' /\ OwnInv(q)' /\ PlaceInv(q)'
    OBVIOUS
  <2>1. \A d \in Contexts \ {of[r], of'[r]} : fields'[d] = fields[d]
    BY <1>6
  <2>2. of[q] # None => of'[r] # of[q]
    BY <1>7
  <2>3. pool' \subseteq pool \cup {of[r]}
    BY <1>7
  <2> QED  BY <1>8, <1>9, <2>1, <2>2, <2>3, OthersKept
<1>11. HeadInv(r)' /\ OwnInv(r)' /\ PlaceInv(r)'
  BY <1>1, <1>7 DEF HeadInv, OwnInv, PlaceInv, Idle, Silent
<1>12. PoolInv'
  BY <1>2, <1>4, <1>6, <1>7 DEF IInv, TypeOK, PoolInv
<1>13. PoolOutlivesRequests'
  BY <1>1, <1>7, <1>8 DEF IInv, PoolOutlivesRequests, InFlight
<1> QED  BY <1>9, <1>10, <1>11, <1>12, <1>13 DEF IInv

-----------------------------------------------------------------------------
(* The request's context, and the server. *)

\* A context that ends adds to what Timeout may return, and changes nothing else.
LEMMA EndedKept ==
    ASSUME IInv, UNCHANGED <<kind, pc, of, err, heads, logged, handed, pool, fields>>,
           server' \in Phases, ended' \in [Requests -> BOOLEAN],
           \A r \in Requests : ended[r] => ended'[r],
           \A r \in Requests : ~InFlight(r) => ended'[r] = ended[r],
           PoolOutlivesRequests'
    PROVE  IInv'
<1>1. TypeOK'
  BY DEF IInv, TypeOK
<1>2. PoolInv' /\ \A r \in Requests : HeadInv(r)' /\ OwnInv(r)'
  BY DEF IInv, PoolInv, HeadInv, OwnInv
<1>3. ASSUME NEW r \in Requests
      PROVE  PlaceInv(r)'
  <2>1. PlaceInv(r) /\ (ended[r] => ended'[r]) /\ handed[r] \in Handed
    BY DEF IInv, TypeOK
  <2>2. pc[r] \in {"new", "done"} => Idle(r)'
    BY <2>1 DEF PlaceInv, Idle, Silent, InFlight
  <2>3. ASSUME NEW h \in Handed, h = handed[r], handed[r] # None
        PROVE  HandedInv(r, h)'
    <3>1. HandedInv(r, h)
      BY <2>1, <2>3 DEF PlaceInv
    <3>2. Returned(r, h) \subseteq Returned(r, h)'
      BY <2>1, <3>1 DEF HandedInv, Returned
    <3>3. Recovered(r, h) \subseteq Recovered(r, h)'
      BY <3>2 DEF Recovered
    <3>4. Line(r, h)' = Line(r, h) /\ Shown(r)' = Shown(r)
      BY DEF Line, Shown
    <3> QED  BY <2>1, <3>1, <3>2, <3>3, <3>4 DEF HandedInv
  <2>4. PICK h \in Handed : h = handed[r]
    BY <2>1
  <2>5. handed[r] # None => HandedInv(r, h)'
    BY <2>3, <2>4
  <2> QED  BY <2>1, <2>2, <2>4, <2>5 DEF PlaceInv, Silent
<1> QED  BY <1>1, <1>2, <1>3 DEF IInv

LEMMA ContextEndsKept ==
    ASSUME IInv, NEW r \in Requests, ContextEnds(r)
    PROVE  IInv'
<1>1. /\ UNCHANGED <<server, kind, pc, of, err, heads, logged, handed, pool, fields>>
      /\ ended' = [ended EXCEPT ![r] = TRUE] /\ InFlight(r)
  BY DEF ContextEnds, contextVars, InFlight
<1>2. PoolOutlivesRequests'
  BY <1>1 DEF IInv, PoolOutlivesRequests, InFlight
<1> QED  BY <1>1, <1>2, EndedKept DEF IInv, TypeOK

\* A context that has ended is that of a request in flight, which cancelBase ends
\* again.
LEMMA DrainTimesOutKept ==
    ASSUME IInv, DrainTimesOut
    PROVE  IInv'
<1>1. /\ UNCHANGED <<kind, pc, of, err, heads, logged, handed, pool, fields>>
      /\ server' = "forced" /\ ended' = [r \in Requests |-> InFlight(r)]
  BY DEF DrainTimesOut, contextVars
<1>2. \A r \in Requests : ~InFlight(r) => ~ended[r]
  BY DEF IInv, PlaceInv, Idle, InFlight
<1>3. \A r \in Requests : /\ ended[r] => ended'[r]
                          /\ ~InFlight(r) => ended'[r] = ended[r]
  <2> SUFFICES ASSUME NEW r \in Requests
               PROVE  /\ ended[r] => ended'[r]
                      /\ ~InFlight(r) => ended'[r] = ended[r]
    OBVIOUS
  <2>1. ended[r] \in BOOLEAN /\ InFlight(r) \in BOOLEAN
    BY DEF IInv, TypeOK, InFlight
  <2>2. ended'[r] = InFlight(r)
    BY <1>1
  <2>3. ~InFlight(r) => ~ended[r]
    BY <1>2
  <2> QED  BY <2>1, <2>2, <2>3
<1>4. ended' \in [Requests -> BOOLEAN]
  BY <1>1 DEF InFlight
<1> QED  BY <1>1, <1>3, <1>4, EndedKept DEF Phases, PoolOutlivesRequests

\* The server's other steps change its phase only, and one that finds requests in
\* flight leads to no phase that excludes them.
LEMMA ServerKept ==
    ASSUME IInv, UNCHANGED <<requestVars, contextVars>>, server' \in Phases,
           PoolOutlivesRequests'
    PROVE  IInv'
BY EndedKept DEF requestVars, contextVars, IInv, TypeOK

LEMMA StopKept ==
    ASSUME IInv, ListenFails \/ Signal \/ Drained \/ StopStep
    PROVE  IInv'
<1>1. UNCHANGED <<requestVars, contextVars>> /\ server' \in Phases
  BY DEF ListenFails, Signal, Drained, StopStep, Phases
<1>2. pc' = pc
  BY <1>1 DEF requestVars
<1>3. PoolOutlivesRequests'
  BY <1>2 DEF ListenFails, Signal, Drained, StopStep, IInv, PoolOutlivesRequests, InFlight
<1> QED  BY <1>1, <1>3, ServerKept

-----------------------------------------------------------------------------
LEMMA InitIInv == Init => IInv
<1> SUFFICES ASSUME Init PROVE IInv
  OBVIOUS
<1>1. /\ Blank.status = 0 /\ ~Blank.wrote /\ Blank.values = None
      /\ Blank \in ContextFields
  BY DEF Blank, ContextFields, Statuses
<1>2. \A r \in Requests : /\ of[r] = None /\ pc[r] = "new" /\ handed[r] = None
                          /\ Idle(r)
  BY DEF Init, Idle, Silent
<1>3. TypeOK
  <2>1. <<>> \in Seq(Statuses)
    OBVIOUS
  <2>2. \A c \in Contexts : fields[c].wrote <=> fields[c].status # 0
    BY <1>1 DEF Init
  <2>3. fields \in [Contexts -> ContextFields]
    BY <1>1 DEF Init
  <2> QED
    BY <1>2, <2>1, <2>2, <2>3
    DEF Init, TypeOK, Phases, Kinds, Places, Errors, Handed, ContextFields
<1>4. PoolInv /\ PoolOutlivesRequests
  BY DEF Init, PoolInv, PoolOutlivesRequests
<1>5. \A r \in Requests : HeadInv(r) /\ OwnInv(r) /\ PlaceInv(r)
  BY <1>2 DEF HeadInv, OwnInv, PlaceInv
<1> QED  BY <1>3, <1>4, <1>5 DEF IInv

LEMMA StepIInv == IInv /\ [Next]_vars => IInv'
<1> SUFFICES ASSUME IInv, [Next]_vars PROVE IInv'
  OBVIOUS
<1>1. CASE UNCHANGED vars
  <2>1. UNCHANGED <<requestVars, contextVars, server>>
    BY <1>1 DEF vars
  <2>2. PoolOutlivesRequests'
    BY <2>1 DEF requestVars, IInv, PoolOutlivesRequests, InFlight
  <2> QED  BY <2>1, <2>2, ServerKept DEF IInv, TypeOK
<1>2. ASSUME NEW r \in Requests, NEW c \in Contexts, Acquire(r, c) PROVE IInv'
  BY <1>2, AcquireKept
<1>3. ASSUME NEW r \in Requests, SetValue(r) \/ Respond(r) \/ ContextEnds(r) PROVE IInv'
  BY <1>3, SetValueKept, RespondKept, ContextEndsKept
<1>4. ASSUME NEW r \in Requests, NEW e \in HandlerErrors, Finish(r, e) PROVE IInv'
  BY <1>4, FinishKept
<1>5. ASSUME NEW r \in Requests, Step(r) PROVE IInv'
  BY <1>5, FallbackKept, EnterKept, TimeoutKept, RecoverKept, LoggerKept, RenderKept,
     ReleaseKept DEF Step
<1>6. CASE ListenFails \/ Signal \/ Stop
  BY <1>6, StopKept, DrainTimesOutKept DEF Stop
<1> QED  BY <1>1, <1>2, <1>3, <1>4, <1>5, <1>6 DEF Next

LEMMA Inductive == Spec => []IInv
BY InitIInv, StepIInv, PTL DEF Spec

-----------------------------------------------------------------------------
\* The types, and that a request has a Context exactly while it is in flight.
THEOREM RequestsTyped == Spec => []TypeOK
<1>1. IInv => TypeOK
  BY DEF IInv
<1> QED  BY <1>1, Inductive, PTL

\* Every request gets exactly one response, for any number of requests and
\* Contexts.
THEOREM RespondsOnce == Spec => []OneResponse
<1>1. IInv => OneResponse
  <2> SUFFICES ASSUME IInv, NEW r \in Requests
               PROVE  /\ Len(heads[r]) <= 1
                      /\ pc[r] = "release" /\ err[r] # "abort" => Len(heads[r]) = 1
    BY DEF OneResponse
  <2>1. \A s : Len(<<s>>) = 1
    OBVIOUS
  <2>2. Len(<<>>) = 0
    OBVIOUS
  <2>3. CASE of[r] = None
    BY <2>2, <2>3 DEF IInv, TypeOK, PlaceInv, Idle
  <2>4. CASE of[r] # None
    <3>1. HeadInv(r) /\ PlaceInv(r)
      BY DEF IInv
    <3>2. heads[r] = <<>> \/ heads[r] = <<fields[of[r]].status>>
      BY <2>4, <3>1 DEF HeadInv
    <3>4. pc[r] = "release" /\ err[r] # "abort" => heads[r] # <<>>
      BY <3>1 DEF PlaceInv
    <3>5. CASE heads[r] = <<>>
      <4>1. Len(heads[r]) = 0
        BY <2>2, <3>5
      <4> QED  BY <3>4, <3>5, <4>1
    <3>6. CASE heads[r] = <<fields[of[r]].status>>
      <4>1. Len(heads[r]) = 1
        BY <2>1, <3>6
      <4> QED  BY <4>1
    <3> QED  BY <3>2, <3>5, <3>6
  <2> QED  BY <2>3, <2>4
<1> QED  BY <1>1, Inductive, PTL

\* No request ever sees another's Context, its id or its values.
THEOREM ContextsAreOwn == Spec => []ContextIsOwn
<1>1. IInv => ContextIsOwn
  <2> SUFFICES ASSUME IInv PROVE ContextIsOwn
    OBVIOUS
  <2>1. \A r, s \in Requests : of[r] = of[s] /\ of[r] # None => r = s
    BY DEF IInv, OwnInv
  <2>2. Held \cap pool = {}
    BY DEF IInv, OwnInv, Held
  <2>3. ASSUME NEW r \in Requests, of[r] # None
        PROVE  fields[of[r]].wrote <=> heads[r] # <<>>
    <3>1. <<fields[of[r]].status>> # <<>>
      OBVIOUS
    <3> QED  BY <2>3, <3>1 DEF IInv, HeadInv
  <2> QED  BY <2>1, <2>2, <2>3 DEF IInv, OwnInv, ContextIsOwn
<1> QED  BY <1>1, Inductive, PTL

\* The client sees what the handler did, and the log says what the client sees.
THEOREM OutcomeIsSeen == Spec => []ClientSeesOutcome
<1>1. IInv => ClientSeesOutcome
  <2> SUFFICES ASSUME IInv, NEW r \in Requests, pc[r] = "release", err[r] # "abort",
                      handed[r] # None
               PROVE  /\ \E s \in Outcomes(r) : heads[r] = <<s>>
                      /\ /\ logged[r] # None
                         /\ handed[r].wrote <=> err[r] = "nil"
                         /\ err[r] \notin Mapped
                         => heads[r] = <<logged[r]>>
    BY DEF ClientSeesOutcome
  <2>1. handed[r] \in Handed /\ HandedInv(r, handed[r]) /\ err[r] \in Errors
        /\ ended[r] \in BOOLEAN
    BY DEF IInv, TypeOK, PlaceInv
  <2>2. PICK h \in Handed : h = handed[r]
    BY <2>1
  <2>3. /\ err[r] \in Recovered(r, h)
        /\ heads[r] = IF h.wrote THEN Left(h) ELSE <<Shown(r)>>
        /\ Line(r, h) /\ (h.late => ended[r])
    BY <2>1, <2>2 DEF HandedInv
  <2>4. \E s \in Outcomes(r) : heads[r] = <<s>>
    <3>1. CASE h.wrote
      BY <2>2, <2>3, <3>1 DEF Left, Outcomes
    <3>2. CASE ~h.wrote
      <4>1. heads[r] = <<Shown(r)>>
        BY <2>3, <3>2
      <4>2. Shown(r) \in Outcomes(r)
        BY <2>2, <2>3, <3>2
        DEF Recovered, Returned, Shown, Outcomes, Rendered
      <4> QED  BY <4>1, <4>2
    <3> QED  BY <3>1, <3>2
  <2>5. ASSUME h.wrote <=> err[r] = "nil", err[r] \notin Mapped
        PROVE  heads[r] = <<logged[r]>>
    <3>1. CASE h.wrote
      BY <2>3, <2>5, <3>1 DEF Left, Line
    <3>2. CASE ~h.wrote
      <4>1. Rendered(err[r]) = StatusOf(err[r])
        BY <2>1, <2>5 DEF StatusOf, Rendered, Mapped, HTTPErrors
      <4> QED  BY <2>3, <2>5, <3>2, <4>1 DEF Line, Shown
    <3> QED  BY <3>1, <3>2
  <2> QED  BY <2>2, <2>4, <2>5
<1> QED  BY <1>1, Inductive, PTL

\* Whatever requests do, the database pool is closed behind the last of them.
THEOREM PoolClosesLast == Spec => []PoolOutlivesRequests
<1>1. IInv => PoolOutlivesRequests
  BY DEF IInv
<1> QED  BY <1>1, Inductive, PTL

-----------------------------------------------------------------------------
(* Router: where what is registered comes from. *)

\* What Build adds to the routes.
Added == SynthesizedForAll \cup {CatchAll}
Standing(r) == \E e \in mux : e.answer = "handler" /\ e.method = r.method /\ e.path = r.path

\* Where what is registered with ServeMux comes from.
FromRoutes ==
    \A e \in mux :
        \/ e.answer = "handler" /\ \E r \in routes : r.method = e.method /\ r.path = e.path
        \/ status # "open" /\ e \in Added
OnePerRoute ==
    \A e, f \in mux :
        /\ e.answer = "handler" /\ f.answer = "handler"
        /\ e.method = f.method /\ e.path = f.path
        => e = f
AllStand == status \in {"open", "built", "build"} => \A r \in routes : Standing(r)

\* What Build leaves behind, and what it panics on.
Complete ==
    status = "built" => Added \subseteq mux /\ \A e, f \in mux : e # f => ~Conflict(e, f)
Overlap ==
    status = "build" => \E e, f \in mux \cup Added : e # f /\ Conflict(e, f)

\* A group that owns a route cannot get more middleware.
Owned ==
    \A r \in routes :
        r.owner # Nobody => groups[r.owner] # Nobody /\ groups[r.owner].hasRoutes

RouterInv ==
    /\ RouterTypeOK
    /\ IsFiniteSet(mux) /\ IsFiniteSet(routes)
    /\ FromRoutes
    /\ OnePerRoute
    /\ AllStand
    /\ Complete
    /\ Overlap
    /\ Owned
    /\ NothingSkipsMiddleware

-----------------------------------------------------------------------------
(* Patterns. *)

LEMMA BasesAre == Bases \subseteq Seq(Segments)
<1>1. Prefix \in Seq(Segments) /\ GroupPrefixes \subseteq Seq(Segments)
  <2>1. Routes \cup Subtrees \cup GroupPrefixes \cup {Prefix} \subseteq Seq(Segments)
    BY RouterAssumption
  <2> QED  BY <2>1, Zenon
<1>2. <<>> \in Seq(Segments) /\ \A p, q \in Seq(Segments) : p \o q \in Seq(Segments)
  OBVIOUS
<1>3. \A g, h \in GroupPrefixes :
         Prefix \o g \in Seq(Segments) /\ Prefix \o g \o h \in Seq(Segments)
  BY <1>1, <1>2
<1> SUFFICES ASSUME NEW b \in Bases PROVE b \in Seq(Segments)
  OBVIOUS
<1>4. \/ b \in {Prefix, <<>>} \cup GroupPrefixes
      \/ \E g \in GroupPrefixes : b = Prefix \o g
      \/ \E g, h \in GroupPrefixes : b = Prefix \o g \o h
  BY SMTT(30) DEF Bases
<1> QED  BY <1>1, <1>2, <1>3, <1>4

\* Only the home page's pattern ends in a slash.
LEMMA OneSubtree == ASSUME NEW p \in Patterns, IsSubtree(p) PROVE p = <<Trailing>>
<1>1. \A s \in Seq(Segments) : s # <<>> => Last(s) \in Segments
  BY DEF Last
<1>2. \A s, t \in Seq(Segments) : s \o t \in Seq(Segments)
  OBVIOUS
<1>3. Routes \subseteq Seq(Segments) /\ Subtrees \subseteq Seq(Segments) /\ Rests \subseteq Segments
  BY RouterAssumption DEF Segments
<1>4. CASE \E b \in Bases, q \in Routes : p = JoinPath(b, q)
  BY <1>1, <1>2, <1>3, <1>4, BasesAre, RouterAssumption DEF JoinPath, IsSubtree
<1>5. CASE \E s \in Subtrees, r \in Rests : p = s \o <<r>>
  <2>1. PICK s \in Subtrees, r \in Rests : p = s \o <<r>>
    BY <1>5
  <2>2. p \in Seq(Segments) /\ p # <<>>
    BY <1>3, <2>1
  <2> QED  BY <1>1, <2>2, RouterAssumption DEF IsSubtree
<1>6. \/ p = <<Trailing>>
      \/ \E b \in Bases, q \in Routes : p = JoinPath(b, q)
      \/ \E s \in Subtrees, r \in Rests : p = s \o <<r>>
  BY SMTT(30) DEF Patterns
<1> QED  BY <1>4, <1>5, <1>6

\* It matches everything.
LEMMA RootReach ==
    /\ <<Trailing>> \in Patterns
    /\ Reach[<<Trailing>>] = Paths
    /\ \A p \in Patterns : Reach[p] \subseteq Paths
<1>1. <<Trailing>> \in Patterns
  BY DEF Patterns
<1>2. \A x \in Paths : Len(x) >= 1
  <2>1. ASSUME NEW w \in Words PROVE w \in Seq(Literals \cup Others)
    <3>1. PICK n \in 0..MaxSegments : w \in [1..n -> Literals \cup Others]
      BY DEF Words
    <3>2. n \in Nat
      <4>1. MaxSegments \in Nat
        BY RouterAssumption
      <4> QED  BY <4>1
    <3> QED  BY <3>1, <3>2
  <2>2. \A w \in Seq(Literals \cup Others) :
            Len(w) \in Nat /\ (Len(w) = 0 => w = <<>>) /\ Len(Append(w, Trailing)) = Len(w) + 1
    OBVIOUS
  <2> QED  BY <2>1, <2>2 DEF Paths
<1>3. /\ Len(<<Trailing>>) = 1 /\ DOMAIN <<Trailing>> = {1}
      /\ Last(<<Trailing>>) = Trailing
  BY DEF Last
<1>4. \A x \in Paths : Matches(<<Trailing>>, x)
  BY <1>2, <1>3 DEF Matches, Multi
<1>5. Reach[<<Trailing>>] = Paths
  BY <1>1, <1>4 DEF Reach
<1> QED  BY <1>1, <1>5 DEF Reach

\* Two patterns that serve a method have the same method, except GET and HEAD.
LEMMA ServesWhat ==
    /\ \A m, n \in Methods : m \in Serves(n) => n = m \/ (n = "GET" /\ m = "HEAD")
    /\ \A m \in Methods : m \in Serves(m) /\ m \in Serves("")
    /\ \A n \in Methods : n # "" /\ ~(Methods \subseteq Serves(n))
    /\ "HEAD" \in Serves("GET") /\ ~(Serves("GET") \subseteq Serves("HEAD"))
    /\ "GET" \in Methods /\ "HEAD" \in Methods /\ "OPTIONS" \in Methods
BY RouterAssumption DEF Serves, Methods

\* Within is an order by inclusion.  In a finite set that it orders totally, one
\* element is within all others: it has the fewest within itself.
LEMMA HasLeast ==
    ASSUME NEW S \in SUBSET mux, IsFiniteSet(S), S # {},
           \A e, f \in S : e # f => Within(e, f) \/ Within(f, e)
    PROVE  \E e \in S : \A f \in S : Within(e, f)
<1> DEFINE Below(e) == {f \in S : Within(f, e)}
           T == {Below(e) : e \in S}
<1>1. IsWellFoundedOn(StrictSubsetOrdering(S), FiniteSubsetsOf(S))
  BY FS_StrictSubsetOrderingWellFounded
<1>2. T \subseteq FiniteSubsetsOf(S) /\ T # {}
  <2>1. FiniteSubsetsOf(S) = SUBSET S
    BY FS_FiniteSubsetsOfFinite
  <2>2. \A e \in S : Below(e) \in SUBSET S /\ Below(e) \in T
    OBVIOUS
  <2>3. T \subseteq SUBSET S
    BY <2>2
  <2>4. PICK e \in S : TRUE
    OBVIOUS
  <2>5. Below(e) \in T
    BY <2>2
  <2> HIDE DEF T, Below
  <2> QED  BY <2>1, <2>3, <2>5
<1> HIDE DEF T
<1>3. PICK x \in T : \A y \in T : ~(<<y, x>> \in StrictSubsetOrdering(S))
  BY <1>1, <1>2, WFMin
<1>4. PICK e \in S : x = Below(e)
  BY DEF T
<1>5. ASSUME NEW f \in S, ~Within(e, f) PROVE FALSE
  <2>1. Within(e, e)
    BY DEF Within
  <2>2. Within(f, e)
    BY <1>5, <2>1
  <2>3. e \in Below(e) /\ e \notin Below(f)
    BY <1>5, <2>1
  <2>4. ASSUME NEW d \in Below(f) PROVE d \in Below(e)
    BY <2>2, <2>4 DEF Within
  <2>5. Below(f) \in SUBSET S /\ Below(e) \in SUBSET S /\ Below(f) \in T
    BY DEF T
  <2> HIDE DEF Below
  <2>6. <<Below(f), Below(e)>> \in StrictSubsetOrdering(S)
    BY <2>3, <2>4, <2>5 DEF StrictSubsetOrdering
  <2> QED  BY <1>3, <1>4, <2>5, <2>6
<1> QED  BY <1>5

-----------------------------------------------------------------------------
(* Registration. *)

RouteRecords == [method : Methods, path : Patterns, owner : Groups \cup {Nobody}]

\* A step that registers nothing and installs nothing, and after which every group
\* that owns a route is what it was.
LEMMA NothingRegistered ==
    ASSUME RouterInv, UNCHANGED <<mux, routes>>,
           status' = status \/ (status' \in RouterPanics \ {"build"} /\ status # "build"),
           groups' \in [Groups -> Made \cup {Nobody}], mw' \in Chains,
           mw' = mw \/ routes = {},
           \A r \in routes : r.owner # Nobody =>
               /\ groups'[r.owner] # Nobody /\ groups'[r.owner].hasRoutes
               /\ groups'[r.owner].mw = groups[r.owner].mw
    PROVE  RouterInv'
<1>1. RouterTypeOK'
  BY DEF RouterInv, RouterTypeOK
<1>2. SynthesizedForAll' = SynthesizedForAll /\ Added' = Added
  BY DEF Added, SynthesizedForAll, Synthesized, MethodsOf, RegisteredPaths
<1>3. FromRoutes'
  BY <1>2 DEF RouterInv, FromRoutes, RouterPanics
<1>4. OnePerRoute' /\ Owned'
  BY DEF RouterInv, OnePerRoute, Owned
<1>5. AllStand'
  BY DEF RouterInv, AllStand, Standing, RouterPanics
<1>6. Complete' /\ Overlap'
  <2>1. \A e, f : Conflict(e, f)' = Conflict(e, f)
    BY DEF Conflict, MoreSpecific, Within
  <2> QED  BY <1>2, <2>1 DEF RouterInv, Complete, Overlap, RouterPanics
<1>7. NothingSkipsMiddleware'
  <2> SUFFICES ASSUME NEW r \in routes, NEW e \in mux,
                      e.answer = "handler", e.path = r.path, e.method = r.method
               PROVE  e.chain = mw' \o (IF r.owner = Nobody THEN <<>> ELSE groups'[r.owner].mw)
    BY Zenon DEF NothingSkipsMiddleware
  <2>1. mw' = mw
    OBVIOUS
  <2>2. e.chain = mw \o (IF r.owner = Nobody THEN <<>> ELSE groups[r.owner].mw)
    BY DEF RouterInv, NothingSkipsMiddleware
  <2> QED  BY <2>1, <2>2
<1> QED  BY <1>1, <1>3, <1>4, <1>5, <1>6, <1>7 DEF RouterInv

\* What Handle does, for the router (which has no middleware of a group) or for a
\* group that now knows that it has routes.
LEMMA HandleKept ==
    ASSUME RouterInv, NEW m \in Methods \cup Unknown, NEW p \in Patterns,
           NEW chain \in Chains, NEW o \in Groups \cup {Nobody}, Handle(m, p, chain, o),
           groups' \in [Groups -> Made \cup {Nobody}],
           \A g \in Groups : groups[g] # Nobody =>
               /\ groups'[g] # Nobody /\ groups'[g].mw = groups[g].mw
               /\ groups[g].hasRoutes => groups'[g].hasRoutes,
           o # Nobody => /\ groups'[o] # Nobody /\ groups'[o].hasRoutes
                         /\ groups'[o].mw = chain,
           o = Nobody => chain = <<>>
    PROVE  RouterInv'
<1>1. PICK e0 : e0 = [method |-> m, path |-> p, answer |-> "handler", chain |-> mw \o chain]
  OBVIOUS
<1>2. PICK r0 : r0 = [method |-> m, path |-> p, owner |-> o]
  OBVIOUS
<1>3. /\ e0.method = m /\ e0.path = p /\ e0.answer = "handler" /\ e0.chain = mw \o chain
      /\ r0.method = m /\ r0.path = p /\ r0.owner = o
  BY <1>1, <1>2
<1>4. \A r \in routes : r.owner # Nobody =>
         /\ groups'[r.owner] # Nobody /\ groups'[r.owner].hasRoutes
         /\ groups'[r.owner].mw = groups[r.owner].mw
  BY DEF RouterInv, Owned, RouterTypeOK
<1>5. mw \in Chains /\ (m \notin Unknown => r0 \in RouteRecords /\ e0 \in Entries)
  <2>1. mw \in Chains /\ mw \o chain \in Chains
    BY DEF RouterInv, RouterTypeOK, Chains
  <2> SUFFICES ASSUME m \notin Unknown PROVE r0 \in RouteRecords /\ e0 \in Entries
    BY <2>1
  <2>2. r0 \in RouteRecords
    BY <1>2 DEF RouteRecords
  <2>3. m \in Methods \cup {""} /\ "handler" \in {"handler", "405", "options", "404"}
    OBVIOUS
  <2>4. e0 \in Entries
    BY <1>1, <2>1, <2>3 DEF Entries
  <2> QED  BY <2>1, <2>2, <2>4
<1>6. CASE UNCHANGED <<mux, routes, mw>>
  <2>1. status' \in RouterPanics \ {"build"} /\ status # "build"
    BY <1>2, <1>3, <1>6 DEF Handle, RouterPanics
  <2> QED  BY <1>4, <1>5, <1>6, <2>1, NothingRegistered
<1>7. CASE /\ status = "open" /\ UNCHANGED mw /\ m \notin Unknown
           /\ ~\E r \in routes : r.path = p /\ r.method = m
           /\ routes' = routes \cup {r0}
           /\ \/ status' = "conflict" /\ UNCHANGED mux
              \/ mux' = mux \cup {e0} /\ UNCHANGED status
  <2>1. mux' \subseteq mux \cup {e0} /\ mux \subseteq mux' /\ status' \in {"open", "conflict"}
    BY <1>7
  <2>2. \A e \in mux : e.answer = "handler" /\ \E r \in routes : r.method = e.method /\ r.path = e.path
    BY <1>7 DEF RouterInv, FromRoutes
  <2>3. \A e \in mux : ~(e.path = p /\ e.method = m)
    BY <1>7, <2>2
  <2>4. RouterTypeOK'
    <3>1. mux' \subseteq Entries
      BY <1>5, <1>7, <2>1 DEF RouterInv, RouterTypeOK
    <3>2. routes' \subseteq RouteRecords
      BY <1>5, <1>7 DEF RouterInv, RouterTypeOK, RouteRecords
    <3>3. mw' \in Chains /\ status' \in {"open", "built"} \cup RouterPanics
      BY <1>5, <1>7, <2>1 DEF RouterPanics
    <3> QED  BY <3>1, <3>2, <3>3 DEF RouterTypeOK, RouteRecords
  <2>5. IsFiniteSet(mux') /\ IsFiniteSet(routes')
    <3>1. IsFiniteSet(mux) /\ IsFiniteSet(routes)
      BY DEF RouterInv
    <3>2. IsFiniteSet(mux \cup {e0}) /\ IsFiniteSet(routes \cup {r0})
      BY <3>1, FS_AddElement
    <3> QED  BY <1>7, <3>1, <3>2
  <2>6. FromRoutes'
    BY <1>3, <1>7, <2>1, <2>2 DEF FromRoutes
  <2>7. OnePerRoute'
    BY <1>3, <2>1, <2>3 DEF RouterInv, OnePerRoute
  <2>8. AllStand'
    BY <1>3, <1>7 DEF RouterInv, AllStand, Standing
  <2>9. Complete' /\ Overlap'
    BY <2>1 DEF Complete, Overlap
  <2>10. Owned'
    BY <1>3, <1>4, <1>7 DEF Owned
  <2>11. NothingSkipsMiddleware'
    <3> SUFFICES ASSUME NEW r \in routes', NEW e \in mux',
                        e.answer = "handler", e.path = r.path, e.method = r.method
                 PROVE  e.chain = mw \o (IF r.owner = Nobody THEN <<>> ELSE groups'[r.owner].mw)
      BY <1>7 DEF NothingSkipsMiddleware
    <3>1. CASE r \in routes /\ e \in mux
      BY <1>4, <3>1 DEF RouterInv, NothingSkipsMiddleware
    <3>2. CASE r = r0 /\ e \in mux
      BY <1>3, <2>3, <3>2
    <3>3. CASE r \in routes /\ e = e0
      BY <1>3, <1>7, <3>3
    <3>4. CASE r = r0 /\ e = e0
      BY <1>3, <3>4
    <3> QED  BY <1>7, <2>1, <3>1, <3>2, <3>3, <3>4
  <2> QED
    BY <2>4, <2>5, <2>6, <2>7, <2>8, <2>9, <2>10, <2>11 DEF RouterInv
<1> QED  BY <1>1, <1>2, <1>6, <1>7 DEF Handle

\* What is passed to Handle.
LEMMA PathsRegistered ==
    ASSUME NEW b \in Bases, NEW p \in Routes
    PROVE  JoinPath(b, p) \in Patterns
BY SMTT(30) DEF Patterns

LEMMA RegisterKept ==
    ASSUME RouterInv, Register
    PROVE  RouterInv'
<1>1. groups \in [Groups -> Made \cup {Nobody}]
  BY DEF RouterInv, RouterTypeOK
<1>2. <<>> \in Chains /\ Prefix \in Bases
  BY SMTT(30) DEF Chains, Bases
<1>3. ASSUME NEW m \in Methods \cup Unknown, NEW p \in Routes, RouterHandle(m, p) PROVE RouterInv'
  BY <1>1, <1>2, <1>3, PathsRegistered, HandleKept DEF RouterHandle
<1>4. ASSUME NEW g \in Groups, NEW m \in Methods \cup Unknown, NEW p \in Routes,
             GroupHandle(g, m, p)
      PROVE  RouterInv'
  <2>1. groups[g] \in Made /\ g # Nobody
    BY <1>1, <1>4, RouterAssumption DEF GroupHandle
  <2>2. PICK made \in Made : made = [groups[g] EXCEPT !.hasRoutes = TRUE]
    BY <2>1 DEF Made
  <2>3. /\ groups' = [groups EXCEPT ![g] = made]
        /\ made.hasRoutes /\ made.mw = groups[g].mw /\ made # Nobody
    BY <1>1, <1>4, <2>1, <2>2, RouterAssumption DEF GroupHandle, Made
  <2>4. groups[g].mw \in Chains /\ groups[g].prefix \in Bases
    BY <2>1 DEF Made
  <2>5. JoinPath(groups[g].prefix, p) \in Patterns
    BY <2>4, PathsRegistered
  <2>6. Handle(m, JoinPath(groups[g].prefix, p), groups[g].mw, g)
    BY <1>4 DEF GroupHandle
  <2>7. groups'[g] = made /\ groups' \in [Groups -> Made \cup {Nobody}]
        /\ \A q \in Groups \ {g} : groups'[q] = groups[q]
    BY <1>1, <2>3
  <2> QED  BY <2>1, <2>3, <2>4, <2>5, <2>6, <2>7, HandleKept
<1>5. ASSUME NEW s \in Subtrees, NEW r \in Rests, Static(s, r) PROVE RouterInv'
  <2>1. s \o <<r>> \in Patterns
    BY SMTT(30) DEF Patterns
  <2>2. "GET" \in Methods
    BY ServesWhat
  <2> QED  BY <1>1, <1>2, <1>5, <2>1, <2>2, HandleKept DEF Static
<1> QED  BY <1>3, <1>4, <1>5 DEF Register

\* Middleware and groups.
LEMMA UseKept ==
    ASSUME RouterInv, NEW m \in Middlewares, Use(m)
    PROVE  RouterInv'
<1>1. mw \in Chains /\ groups \in [Groups -> Made \cup {Nobody}]
  BY DEF RouterInv, RouterTypeOK
<1>2. Append(mw, m) \in Chains
  BY <1>1 DEF Chains
<1>3. \A r \in routes : r.owner # Nobody => groups[r.owner] # Nobody /\ groups[r.owner].hasRoutes
  BY DEF RouterInv, Owned
<1> QED  BY <1>1, <1>2, <1>3, NothingRegistered DEF Use, Panic, RouterPanics

LEMMA GroupChanged ==
    ASSUME RouterInv, NEW g \in Groups, NEW made \in Made,
           groups' = [groups EXCEPT ![g] = made], UNCHANGED <<mux, routes, mw, status>>,
           groups[g] = Nobody \/ ~groups[g].hasRoutes
    PROVE  RouterInv'
<1>1. mw \in Chains /\ groups \in [Groups -> Made \cup {Nobody}]
  BY DEF RouterInv, RouterTypeOK
<1>2. \A r \in routes : r.owner # Nobody =>
         r.owner \in Groups /\ groups[r.owner] # Nobody /\ groups[r.owner].hasRoutes
  BY DEF RouterInv, Owned, RouterTypeOK
<1>3. \A r \in routes : r.owner # Nobody => groups'[r.owner] = groups[r.owner]
  BY <1>1, <1>2
<1> QED  BY <1>1, <1>2, <1>3, NothingRegistered

LEMMA MakeGroupKept ==
    ASSUME RouterInv, NEW g \in Groups, NEW b \in Bases, NEW chain \in Chains,
           MakeGroup(g, b, chain)
    PROVE  RouterInv'
<1>1. PICK made \in Made : made = [prefix |-> b, mw |-> chain, hasRoutes |-> FALSE]
  BY DEF Made
<1> QED  BY <1>1, GroupChanged DEF MakeGroup

LEMMA GroupUseKept ==
    ASSUME RouterInv, NEW g \in Groups, NEW m \in Middlewares, GroupUse(g, m)
    PROVE  RouterInv'
<1>1. /\ mw \in Chains /\ groups \in [Groups -> Made \cup {Nobody}]
      /\ \A r \in routes : r.owner # Nobody => groups[r.owner] # Nobody /\ groups[r.owner].hasRoutes
  BY DEF RouterInv, RouterTypeOK, Owned
<1>2. CASE Panic("late group use") /\ status = "open"
  BY <1>1, <1>2, NothingRegistered DEF Panic, RouterPanics
<1>3. CASE /\ ~groups[g].hasRoutes /\ groups[g] # Nobody
           /\ groups' = [groups EXCEPT ![g].mw = Append(@, m)]
           /\ UNCHANGED <<mux, routes, mw, status>>
  <2>1. groups[g] \in Made /\ Append(groups[g].mw, m) \in Chains
    BY <1>1, <1>3 DEF Made, Chains
  <2>2. PICK made \in Made : made = [groups[g] EXCEPT !.mw = Append(groups[g].mw, m)]
    BY <2>1 DEF Made
  <2>3. groups' = [groups EXCEPT ![g] = made]
    BY <1>1, <1>3, <2>2
  <2> QED  BY <1>3, <2>3, GroupChanged
<1> QED  BY <1>2, <1>3 DEF GroupUse

-----------------------------------------------------------------------------
(* Build. *)

LEMMA AddedFinite == ASSUME RouterInv PROVE IsFiniteSet(Added)
<1> DEFINE E(m, p) == [method |-> m, path |-> p, chain |-> <<>>,
                       answer |-> IF m = "OPTIONS" THEN "options" ELSE "405"]
           D == (Standard \cup {"OPTIONS"}) \X RegisteredPaths
           made == [t \in D |-> E(t[1], t[2])]
           I == {made[t] : t \in D}
<1>1. IsFiniteSet(RegisteredPaths)
  <2> DEFINE pathOf == [r \in routes |-> r.path]
  <2>1. pathOf \in Surjection(routes, RegisteredPaths)
    BY DEF Surjection, RegisteredPaths
  <2>2. IsFiniteSet(routes)
    BY DEF RouterInv
  <2> HIDE DEF pathOf
  <2> QED  BY <2>1, <2>2, FS_Surjection
<1>2. IsFiniteSet(D)
  <2>1. IsFiniteSet(Standard \cup {"OPTIONS"})
    BY RouterAssumption, FS_AddElement
  <2> QED  BY <1>1, <2>1, FS_Product
<1>3. IsFiniteSet(I)
  <2>1. made \in Surjection(D, I)
    BY DEF Surjection
  <2> HIDE DEF made, D, I
  <2> QED  BY <1>2, <2>1, FS_Surjection
<1>4. SynthesizedForAll \subseteq I
  <2> SUFFICES ASSUME NEW e \in SynthesizedForAll PROVE e \in I
    OBVIOUS
  <2>1. PICK p \in RegisteredPaths : e \in Synthesized(p)
    BY DEF SynthesizedForAll
  <2>2. PICK m \in Standard \cup {"OPTIONS"} : e = E(m, p)
    BY <2>1, RouterAssumption DEF Synthesized
  <2>3. <<m, p>> \in D /\ made[<<m, p>>] = E(m, p)
    BY <2>1
  <2> HIDE DEF made, D, E
  <2> QED  BY <2>2, <2>3
<1>5. IsFiniteSet(SynthesizedForAll)
  <2> HIDE DEF I
  <2> QED  BY <1>3, <1>4, FS_Subset
<1> QED  BY <1>5, FS_AddElement DEF Added

LEMMA BuildKept ==
    ASSUME RouterInv, Build
    PROVE  RouterInv'
<1>1. status = "open" /\ UNCHANGED <<routes, mw, groups>>
  BY DEF Build, Panic
<1>2. SynthesizedForAll' = SynthesizedForAll /\ Added' = Added
  BY <1>1 DEF Added, SynthesizedForAll, Synthesized, MethodsOf, RegisteredPaths
<1>3. \A e, f : Conflict(e, f)' = Conflict(e, f)
  BY DEF Conflict, MoreSpecific, Within
<1>4. CASE /\ \E e, f \in mux \cup Added : e # f /\ Conflict(e, f)
           /\ status' = "build" /\ UNCHANGED mux
  <2>1. RouterTypeOK' /\ IsFiniteSet(mux') /\ IsFiniteSet(routes')
    BY <1>1, <1>4 DEF RouterInv, RouterTypeOK, RouterPanics
  <2>2. FromRoutes' /\ OnePerRoute' /\ AllStand' /\ Owned'
    BY <1>1, <1>4 DEF RouterInv, FromRoutes, OnePerRoute, AllStand, Standing, Owned
  <2>3. Complete' /\ Overlap'
    BY <1>2, <1>3, <1>4 DEF Complete, Overlap
  <2>4. NothingSkipsMiddleware'
    BY <1>1, <1>4 DEF RouterInv, NothingSkipsMiddleware
  <2> QED  BY <2>1, <2>2, <2>3, <2>4 DEF RouterInv
<1>5. CASE /\ \A e, f \in mux \cup Added : e # f => ~Conflict(e, f)
           /\ mux' = mux \cup Added /\ status' = "built"
  <2>1. \A e \in Added : e.answer # "handler" /\ e \in Entries
    <3> SUFFICES ASSUME NEW e \in Added PROVE e.answer # "handler" /\ e \in Entries
      OBVIOUS
    <3>1. <<>> \in Chains /\ Standard \cup {"OPTIONS"} \subseteq Methods \cup {""}
      <4>1. Standard \cup {"OPTIONS"} \subseteq Methods \cup {""}
        BY DEF Methods
      <4>2. <<>> \in Chains
        BY DEF Chains
      <4> QED  BY <4>1, <4>2
    <3>2. CASE e = CatchAll
      BY <3>1, <3>2, RootReach DEF CatchAll, Entries
    <3>3. CASE e \in SynthesizedForAll
      <4>1. PICK p \in RegisteredPaths : e \in Synthesized(p)
        BY <3>3 DEF SynthesizedForAll
      <4>2. p \in Patterns
        BY DEF RegisteredPaths, RouterInv, RouterTypeOK
      <4>3. PICK m \in Standard \cup {"OPTIONS"}, a \in {"405", "options"} :
               e = [method |-> m, path |-> p, answer |-> a, chain |-> <<>>]
        BY <4>1 DEF Synthesized
      <4> QED  BY <3>1, <4>2, <4>3 DEF Entries
    <3> QED  BY <3>2, <3>3 DEF Added
  <2>2. RouterTypeOK'
    BY <1>1, <1>5, <2>1 DEF RouterInv, RouterTypeOK
  <2>3. IsFiniteSet(mux') /\ IsFiniteSet(routes')
    BY <1>1, <1>5, AddedFinite, FS_Union DEF RouterInv
  <2>4. FromRoutes' /\ OnePerRoute' /\ AllStand' /\ Owned'
    <3>1. FromRoutes'
      BY <1>1, <1>2, <1>5 DEF RouterInv, FromRoutes
    <3>2. OnePerRoute'
      BY <1>5, <2>1 DEF RouterInv, OnePerRoute
    <3>3. AllStand'
      BY <1>1, <1>5 DEF RouterInv, AllStand, Standing
    <3> QED  BY <1>1, <3>1, <3>2, <3>3 DEF RouterInv, Owned
  <2>5. Complete' /\ Overlap'
    BY <1>2, <1>3, <1>5 DEF Complete, Overlap
  <2>6. NothingSkipsMiddleware'
    BY <1>1, <1>5, <2>1 DEF RouterInv, NothingSkipsMiddleware
  <2> QED  BY <2>2, <2>3, <2>4, <2>5, <2>6 DEF RouterInv
<1> QED
  <2>1. mux \cup SynthesizedForAll \cup {CatchAll} = mux \cup Added
    BY DEF Added
  <2> QED  BY <1>4, <1>5, <2>1 DEF Build, Panic

-----------------------------------------------------------------------------
LEMMA InitRouterInv == RouterInit => RouterInv
<1> SUFFICES ASSUME RouterInit PROVE RouterInv
  OBVIOUS
<1>1. RouterTypeOK
  BY DEF RouterInit, RouterTypeOK, Chains
<1> QED
  BY <1>1, FS_EmptySet
  DEF RouterInit, RouterInv, FromRoutes, OnePerRoute, AllStand, Complete, Overlap, Owned,
      NothingSkipsMiddleware

LEMMA StepRouterInv == RouterInv /\ [RouterNext]_routerVars => RouterInv'
<1> SUFFICES ASSUME RouterInv, [RouterNext]_routerVars PROVE RouterInv'
  OBVIOUS
<1>1. CASE UNCHANGED routerVars
  <2>1. UNCHANGED <<mux, routes, mw, groups, status>>
    BY <1>1 DEF routerVars
  <2>2. \A r \in routes : r.owner # Nobody => groups[r.owner] # Nobody /\ groups[r.owner].hasRoutes
    BY DEF RouterInv, Owned
  <2> QED  BY <2>1, <2>2, NothingRegistered DEF RouterInv, RouterTypeOK
<1>2. ASSUME NEW m \in Middlewares, Use(m) PROVE RouterInv'
  BY <1>2, UseKept
<1>3. ASSUME NEW g \in Groups, NEW p \in GroupPrefixes, RouterGroup(g, p) PROVE RouterInv'
  <2>1. Prefix \o p \in Bases /\ <<>> \in Chains
    BY SMTT(30) DEF Bases, Chains
  <2> QED  BY <1>3, <2>1, MakeGroupKept DEF RouterGroup
<1>4. ASSUME NEW g \in Groups, NEW h \in Groups, NEW p \in GroupPrefixes,
             groups[h] # Nobody, groups[h].prefix \o p \in Bases, GroupGroup(g, h, p)
      PROVE  RouterInv'
  <2>1. groups[h].mw \in Chains
    BY <1>4 DEF RouterInv, RouterTypeOK, Made
  <2> QED  BY <1>4, <2>1, MakeGroupKept DEF GroupGroup
<1>5. ASSUME NEW g \in Groups, NEW m \in Middlewares, GroupUse(g, m) PROVE RouterInv'
  BY <1>5, GroupUseKept
<1>6. ASSUME NEW g \in Groups, Root(g) PROVE RouterInv'
  <2>1. <<>> \in Bases /\ <<>> \in Chains
    BY DEF Bases, Chains
  <2> QED  BY <1>6, <2>1, MakeGroupKept DEF Root
<1> QED
  BY <1>1, <1>2, <1>3, <1>4, <1>5, <1>6, RegisterKept, BuildKept DEF RouterNext

LEMMA RouterInductive == RouterSpec => []RouterInv
BY InitRouterInv, StepRouterInv, PTL DEF RouterSpec

-----------------------------------------------------------------------------
(* What Build leaves behind. *)

\* The entries of a path: its routes, and what Build adds unless it is the home
\* page's subtree.
LEMMA EntryIs ==
    ASSUME RouterInv, NEW e \in mux \cup Added
    PROVE  \/ e = CatchAll
           \/ /\ e.path \in RegisteredPaths /\ e.path \in Patterns /\ e.method \in Methods
              /\ \/ e.answer = "handler" /\ e.method \in MethodsOf(e.path) /\ e \in mux
                 \/ /\ e = [method |-> e.method, path |-> e.path, answer |-> e.answer,
                            chain |-> <<>>]
                    /\ e.method \notin MethodsOf(e.path) /\ ~IsSubtree(e.path)
                    /\ \/ e.method \in Standard /\ e.answer = "405"
                       \/ e.method = "OPTIONS" /\ e.answer = "options"
<1>1. CASE e.answer = "handler" /\ e \in mux /\ \E r \in routes : r.method = e.method /\ r.path = e.path
  BY <1>1 DEF RouterInv, RouterTypeOK, RegisteredPaths, MethodsOf
<1>2. CASE e \in SynthesizedForAll
  <2>1. PICK p \in RegisteredPaths : ~IsSubtree(p) /\ e \in Synthesized(p)
    BY <1>2 DEF SynthesizedForAll
  <2>2. p \in Patterns
    BY DEF RegisteredPaths, RouterInv, RouterTypeOK
  <2>3. PICK m \in Standard \cup {"OPTIONS"}, a \in {"405", "options"} :
           /\ e = [method |-> m, path |-> p, answer |-> a, chain |-> <<>>]
           /\ m \notin MethodsOf(p)
           /\ \/ m \in Standard /\ a = "405"
              \/ m = "OPTIONS" /\ a = "options"
    BY <2>1 DEF Synthesized
  <2>4. m \in Methods
    BY DEF Methods
  <2> QED  BY <2>1, <2>2, <2>3, <2>4
<1> QED  BY <1>1, <1>2 DEF RouterInv, FromRoutes, Added

\* A route has its entry, and a path that is no subtree has one for every method
\* that Build knows.
LEMMA RouteEntry ==
    ASSUME RouterInv, status \in {"built", "build"}, NEW p \in RegisteredPaths,
           NEW m \in MethodsOf(p)
    PROVE  \E e \in mux : e.answer = "handler" /\ e.method = m /\ e.path = p
<1>1. PICK r \in routes : r.path = p /\ r.method = m
  BY DEF MethodsOf
<1> QED  BY <1>1 DEF RouterInv, AllStand, Standing

LEMMA PathEntry ==
    ASSUME RouterInv, status = "built", NEW p \in RegisteredPaths, ~IsSubtree(p),
           NEW m \in Standard \cup {"OPTIONS"} \cup MethodsOf(p)
    PROVE  \E e \in mux : e.method = m /\ e.path = p
<1>1. CASE m \in MethodsOf(p)
  BY <1>1, RouteEntry
<1>2. CASE m \notin MethodsOf(p)
  <2>1. PICK a \in {"405", "options"} :
           [method |-> m, path |-> p, answer |-> a, chain |-> <<>>] \in Synthesized(p)
    BY <1>2 DEF Synthesized
  <2>2. [method |-> m, path |-> p, answer |-> a, chain |-> <<>>] \in Added
    BY <2>1 DEF Added, SynthesizedForAll
  <2>3. [method |-> m, path |-> p, answer |-> a, chain |-> <<>>] \in mux
    BY <2>2 DEF RouterInv, Complete
  <2> QED  BY <2>3
<1> QED  BY <1>1, <1>2

\* Two entries with one path and one method are the same.
LEMMA EntriesDiffer ==
    ASSUME RouterInv, NEW e \in mux \cup Added, NEW f \in mux \cup Added,
           e.method = f.method, e.path = f.path, e # CatchAll, f # CatchAll
    PROVE  e = f
<1>1. CASE e.answer = "handler" /\ f.answer = "handler"
  <2>1. e \in mux /\ f \in mux
    BY <1>1, EntryIs
  <2> QED  BY <1>1, <2>1 DEF RouterInv, OnePerRoute
<1>2. CASE e.answer # "handler" /\ f.answer # "handler"
  <2>1. e.answer = f.answer
    BY <1>2, EntryIs, RouterAssumption
  <2> QED  BY <1>2, <2>1, EntryIs
<1>3. CASE e.answer = "handler" <=> f.answer # "handler"
  BY <1>3, EntryIs
<1> QED  BY <1>1, <1>2, <1>3

\* notFoundHandler's pattern gives way to all others.
LEMMA CatchAllLast ==
    ASSUME RouterInv, NEW e \in mux \cup Added, e # CatchAll
    PROVE  /\ Within(e, CatchAll) /\ ~Within(CatchAll, e)
           /\ ~Conflict(e, CatchAll) /\ ~Conflict(CatchAll, e)
<1>1. e.method \in Methods /\ e.path \in Patterns
  BY EntryIs
<1>2. CatchAll.method = "" /\ CatchAll.path = <<Trailing>>
  BY DEF CatchAll
<1>3. Serves("") = Methods /\ Serves(e.method) \subseteq Methods
  BY <1>1, RouterAssumption DEF Serves, Methods
<1>4. Within(e, CatchAll)
  BY <1>1, <1>2, <1>3, RootReach DEF Within
<1>5. ~Within(CatchAll, e)
  BY <1>1, <1>2, <1>3, ServesWhat DEF Within
<1> QED  BY <1>4, <1>5 DEF Conflict, MoreSpecific

-----------------------------------------------------------------------------
\* The types.
THEOREM RoutesTyped == RouterSpec => []RouterTypeOK
<1>1. RouterInv => RouterTypeOK
  BY DEF RouterInv
<1> QED  BY <1>1, RouterInductive, PTL

\* No order of calls lets a route escape the middleware of the router or of its
\* group.
THEOREM MiddlewareApplies == RouterSpec => []NothingSkipsMiddleware
<1>1. RouterInv => NothingSkipsMiddleware
  BY DEF RouterInv
<1> QED  BY <1>1, RouterInductive, PTL

\* Without HEAD routes, entries that share a method have the same one, so only
\* their paths decide which is the more specific.
LEMMA SameMethod ==
    ASSUME NEW m \in Methods \ {"HEAD"}, NEW n \in Methods \ {"HEAD"},
           Serves(m) \cap Serves(n) # {}
    PROVE  m = n
BY RouterAssumption DEF Serves, Methods

LEMMA AmbiguityPanics ==
    ASSUME RouterInv
    PROVE  BuildPanicsOnAmbiguity
<1> SUFFICES ASSUME \A r \in routes : r.method # "HEAD"
             PROVE  LET ambiguous == \E p, q \in RegisteredPaths :
                            p # q /\ ~Disjoint(p, q) /\ ~Nested(p, q) /\ ~Nested(q, p) IN
                    /\ status = "built" => ~ambiguous
                    /\ status = "build" => ambiguous
  BY DEF BuildPanicsOnAmbiguity
<1> DEFINE ambiguous == \E p, q \in RegisteredPaths :
               p # q /\ ~Disjoint(p, q) /\ ~Nested(p, q) /\ ~Nested(q, p)
<1>1. \A p \in RegisteredPaths : MethodsOf(p) \subseteq Methods \ {"HEAD"}
  BY DEF MethodsOf, RouterInv, RouterTypeOK
<1>2. ASSUME status = "built", ambiguous PROVE FALSE
  <2>1. PICK p, q \in RegisteredPaths :
           p # q /\ ~Disjoint(p, q) /\ ~Nested(p, q) /\ ~Nested(q, p)
    BY <1>2
  <2>2. ASSUME NEW a \in RegisteredPaths, NEW b \in RegisteredPaths, a # b,
               ~Disjoint(a, b), ~Nested(a, b), ~Nested(b, a), ~IsSubtree(b)
        PROVE  FALSE
    <3>1. PICK m \in MethodsOf(a) : TRUE
      BY DEF RegisteredPaths, MethodsOf
    <3>2. PICK e \in mux : e.method = m /\ e.path = a
      BY <1>2, RouteEntry
    <3>3. m \in Standard \cup {"OPTIONS"}
      BY <1>1 DEF Methods
    <3>4. PICK f \in mux : f.method = m /\ f.path = b
      BY <1>2, <2>2, <3>3, PathEntry
    <3>5. Serves(m) # {}
      BY <1>1, ServesWhat
    <3>6. Conflict(e, f)
      BY <2>2, <3>2, <3>4, <3>5 DEF Conflict, MoreSpecific, Within, Nested, Disjoint
    <3> QED  BY <1>2, <2>2, <3>2, <3>4, <3>6 DEF RouterInv, Complete
  <2>3. ~IsSubtree(p) \/ ~IsSubtree(q)
    BY <2>1, OneSubtree DEF RegisteredPaths, RouterInv, RouterTypeOK
  <2>4. ~Disjoint(q, p)
    BY <2>1 DEF Disjoint
  <2> QED  BY <2>1, <2>2, <2>3, <2>4
<1>3. ASSUME status = "build" PROVE ambiguous
  <2>1. PICK e, f \in mux \cup Added : e # f /\ Conflict(e, f)
    BY <1>3 DEF RouterInv, Overlap
  <2>2. e # CatchAll /\ f # CatchAll
    BY <2>1, CatchAllLast
  <2>3. /\ e.path \in RegisteredPaths /\ e.method \in Methods \ {"HEAD"}
        /\ f.path \in RegisteredPaths /\ f.method \in Methods \ {"HEAD"}
    BY <1>1, <2>2, EntryIs, RouterAssumption
  <2>4. e.method = f.method
    BY <2>1, <2>3, SameMethod DEF Conflict
  <2>5. e.path # f.path
    BY <2>1, <2>2, <2>4, EntriesDiffer
  <2>6. ~Disjoint(e.path, f.path) /\ ~Nested(e.path, f.path) /\ ~Nested(f.path, e.path)
    BY <2>1, <2>4 DEF Conflict, MoreSpecific, Within, Nested, Disjoint
  <2> QED  BY <2>3, <2>5, <2>6
<1> QED  BY <1>2, <1>3

\* Build panics exactly on the paths that are ambiguous, for any set of routes.
THEOREM OnlyAmbiguityPanics == RouterSpec => []BuildPanicsOnAmbiguity
BY AmbiguityPanics, RouterInductive, PTL

-----------------------------------------------------------------------------
(* Dispatch. *)

\* Once Build has returned, a request is served by one entry, within all others that
\* could serve it: since nothing conflicts, those that could are totally ordered.
LEMMA DispatchIsLeast ==
    ASSUME RouterInv, status = "built", NEW m \in Methods, NEW x \in Paths
    PROVE  /\ Dispatch(m, x) \in Candidates(m, x)
           /\ \A f \in Candidates(m, x) : Within(Dispatch(m, x), f)
<1> DEFINE C == Candidates(m, x)
<1>1. CatchAll \in C
  <2>1. CatchAll \in mux
    BY DEF RouterInv, Complete, Added
  <2> QED  BY <2>1, RootReach, ServesWhat DEF Candidates, CatchAll
<1>2. IsFiniteSet(C) /\ C \in SUBSET mux
  BY FS_Subset DEF Candidates, RouterInv
<1>3. ASSUME NEW e \in C, NEW f \in C, e # f PROVE Within(e, f) \/ Within(f, e)
  <2>1. ~Conflict(e, f)
    BY <1>2, <1>3 DEF RouterInv, Complete
  <2>2. m \in Serves(e.method) \cap Serves(f.method) /\ x \in Reach[e.path] \cap Reach[f.path]
    BY DEF Candidates
  <2> QED  BY <2>1, <2>2 DEF Conflict, MoreSpecific
<1>4. \E e \in C : \A f \in C : Within(e, f)
  BY <1>1, <1>2, <1>3, HasLeast
<1> QED  BY <1>4 DEF Dispatch

\* What is known of the entry d that serves a request for x with method m.
Serving(d, m, x) == d \in Candidates(m, x) /\ \A f \in Candidates(m, x) : Within(d, f)

\* The registered paths that x matches, and the methods that serve m.
LEMMA CandidateAt ==
    ASSUME RouterInv, status = "built", NEW m \in Methods, NEW x \in Paths,
           NEW p \in RegisteredPaths, x \in Reach[p], ~IsSubtree(p)
    PROVE  \E f \in Candidates(m, x) : f.path = p /\ f # CatchAll
<1>1. \E n \in Standard \cup {"OPTIONS"} : m \in Serves(n) /\ n \in Methods
  <2>1. CASE m = "HEAD"
    BY <2>1, ServesWhat, RouterAssumption
  <2>2. CASE m # "HEAD"
    BY <2>2, ServesWhat DEF Methods
  <2> QED  BY <2>1, <2>2
<1>2. PICK n \in Standard \cup {"OPTIONS"} : m \in Serves(n) /\ n \in Methods
  BY <1>1
<1>3. PICK f \in mux : f.method = n /\ f.path = p
  BY PathEntry
<1>4. f # CatchAll
  <2>1. CatchAll.method = ""
    BY DEF CatchAll
  <2> QED  BY <1>2, <1>3, <2>1, ServesWhat
<1> QED  BY <1>2, <1>3, <1>4 DEF Candidates

LEMMA RouteCandidate ==
    ASSUME RouterInv, status = "built", NEW m \in Methods, NEW x \in Paths,
           NEW p \in RegisteredPaths, x \in Reach[p], NEW n \in MethodsOf(p), m \in Serves(n)
    PROVE  \E f \in Candidates(m, x) :
               f.path = p /\ f.method = n /\ f.answer = "handler" /\ f # CatchAll
<1>1. PICK f \in mux : f.answer = "handler" /\ f.method = n /\ f.path = p
  BY RouteEntry
<1>2. f # CatchAll
  <2>1. CatchAll.answer # "handler"
    BY DEF CatchAll
  <2> QED  BY <1>1, <2>1
<1> QED  BY <1>1, <1>2 DEF Candidates

\* It is an entry of the best path.
LEMMA ServesBest ==
    ASSUME RouterInv, status = "built", NEW m \in Methods, NEW x \in Paths,
           NEW d, Serving(d, m, x), d # CatchAll
    PROVE  /\ d \in mux /\ d.path \in Best(x) /\ d.method \in Methods /\ m \in Serves(d.method)
           /\ \A p \in Best(x) : Reach[p] = Reach[d.path]
<1>1. d \in mux /\ m \in Serves(d.method) /\ x \in Reach[d.path]
  BY DEF Serving, Candidates
<1>2. d.path \in RegisteredPaths /\ d.path \in Patterns /\ d.method \in Methods
  BY <1>1, EntryIs
<1>3. ASSUME NEW q \in RegisteredPaths, x \in Reach[q]
      PROVE  Reach[d.path] \subseteq Reach[q]
  <2>1. CASE IsSubtree(q)
    <3>1. q \in Patterns
      BY DEF RegisteredPaths, RouterInv, RouterTypeOK
    <3> QED  BY <1>2, <2>1, <3>1, OneSubtree, RootReach
  <2>2. CASE ~IsSubtree(q)
    BY <1>3, <2>2, CandidateAt DEF Serving, Within
  <2> QED  BY <2>1, <2>2
<1>4. d.path \in Best(x)
  BY <1>1, <1>2, <1>3 DEF Best
<1> QED  BY <1>1, <1>2, <1>4 DEF Best

\* Its method is the one that the routes of that path promise.
LEMMA ServesMethod ==
    ASSUME RouterInv, status = "built", NEW m \in Methods, NEW x \in Paths,
           NEW d, Serving(d, m, x), d # CatchAll
    PROVE  d.method = RouteMethod(m, x)
<1>1. d \in mux /\ d.path \in Best(x) /\ d.method \in Methods /\ m \in Serves(d.method)
  BY ServesBest
<1>2. CASE m # "HEAD"
  BY <1>1, <1>2, ServesWhat DEF RouteMethod
<1>3. CASE m = "HEAD" /\ "HEAD" \in BestMethods(x)
  <2>1. PICK p \in Best(x) : "HEAD" \in MethodsOf(p)
    BY <1>3 DEF BestMethods
  <2>2. PICK f \in Candidates(m, x) : f.method = "HEAD"
    <3>1. p \in RegisteredPaths /\ x \in Reach[p] /\ "HEAD" \in Serves("HEAD")
      BY ServesWhat DEF Best
    <3> QED  BY <1>3, <2>1, <3>1, RouteCandidate
  <2>3. Serves(d.method) \subseteq Serves("HEAD")
    BY <2>2 DEF Serving, Within
  <2> QED  BY <1>1, <1>3, <2>3, ServesWhat DEF RouteMethod
<1>4. CASE m = "HEAD" /\ "HEAD" \notin BestMethods(x)
  <2>1. d.method # "HEAD"
    <3>1. d.method = "HEAD" => d.method \in MethodsOf(d.path)
      BY <1>1, EntryIs, RouterAssumption
    <3> QED  BY <1>1, <1>4, <3>1 DEF BestMethods
  <2> QED  BY <1>1, <1>4, <2>1, ServesWhat DEF RouteMethod
<1> QED  BY <1>2, <1>3, <1>4

\* It is a route exactly if one is promised.
LEMMA ServesRoute ==
    ASSUME RouterInv, status = "built", NEW m \in Methods, NEW x \in Paths,
           NEW d, Serving(d, m, x), d # CatchAll
    PROVE  d.answer = "handler" <=> RouteMethod(m, x) \in BestMethods(x)
<1>1. /\ d \in mux /\ d.path \in Best(x) /\ d.method \in Methods /\ m \in Serves(d.method)
      /\ \A p \in Best(x) : Reach[p] = Reach[d.path]
      /\ d.method = RouteMethod(m, x)
  BY ServesBest, ServesMethod
<1>2. ASSUME d.answer = "handler" PROVE d.method \in BestMethods(x)
  <2>1. d.method \in MethodsOf(d.path)
    BY <1>1, <1>2, EntryIs
  <2> QED  BY <1>1, <2>1 DEF BestMethods
<1>3. ASSUME d.method \in BestMethods(x) PROVE d.answer = "handler"
  <2>1. PICK p \in Best(x) : d.method \in MethodsOf(p)
    BY <1>3 DEF BestMethods
  <2>2. p \in RegisteredPaths /\ x \in Reach[p]
    BY DEF Best
  <2>3. PICK f \in Candidates(m, x) : f.path = p /\ f.method = d.method /\ f.answer = "handler"
    BY <1>1, <2>1, <2>2, RouteCandidate
  <2>4. d # f => Conflict(d, f)
    BY <1>1, <2>2, <2>3 DEF Conflict, MoreSpecific, Within
  <2>5. f \in mux
    BY DEF Candidates
  <2> QED  BY <1>1, <2>3, <2>4, <2>5 DEF RouterInv, Complete
<1> QED  BY <1>1, <1>2, <1>3

\* Only what no route could serve is not found.
LEMMA NotFoundRightly ==
    ASSUME RouterInv, status = "built", NEW m \in Methods, NEW x \in Paths,
           Serving(CatchAll, m, x)
    PROVE  RouteMethod(m, x) \notin BestMethods(x) /\ \A p \in Best(x) : IsSubtree(p)
<1>1. ASSUME NEW f \in Candidates(m, x), f # CatchAll PROVE FALSE
  <2>1. f \in mux /\ Within(CatchAll, f)
    BY DEF Candidates, Serving
  <2> QED  BY <1>1, <2>1, CatchAllLast
<1>2. ASSUME NEW p \in Best(x), ~IsSubtree(p) PROVE FALSE
  BY <1>1, <1>2, CandidateAt DEF Best
<1>3. ASSUME NEW p \in Best(x), RouteMethod(m, x) \in MethodsOf(p) PROVE FALSE
  <2>1. m \in Serves(RouteMethod(m, x))
    BY ServesWhat DEF RouteMethod
  <2>2. p \in RegisteredPaths /\ x \in Reach[p]
    BY DEF Best
  <2> QED  BY <1>1, <1>3, <2>1, <2>2, RouteCandidate
<1> QED  BY <1>2, <1>3 DEF BestMethods

LEMMA Answers ==
    ASSUME RouterInv, status = "built", NEW m \in Methods, NEW x \in Paths, NEW d,
           Serving(d, m, x)
    PROVE  /\ d.answer = Expected(m, x)
           /\ d.answer # "404" => d.path \in Best(x)
           /\ d.answer = "handler" => d.method = RouteMethod(m, x)
<1>1. CASE d = CatchAll
  <2>1. d.answer = "404"
    BY <1>1 DEF CatchAll
  <2> QED  BY <1>1, <2>1, NotFoundRightly DEF Expected
<1>2. CASE d # CatchAll
  <2>1. /\ d \in mux /\ d.path \in Best(x) /\ d.method = RouteMethod(m, x)
        /\ d.answer = "handler" <=> RouteMethod(m, x) \in BestMethods(x)
    BY <1>2, ServesBest, ServesMethod, ServesRoute
  <2>2. CASE d.answer = "handler"
    BY <2>1, <2>2 DEF Expected
  <2>3. CASE d.answer # "handler"
    <3>1. /\ ~IsSubtree(d.path)
          /\ \/ d.method \in Standard /\ d.answer = "405"
             \/ d.method = "OPTIONS" /\ d.answer = "options"
      BY <1>2, <2>1, <2>3, EntryIs
    <3>2. d.method = "OPTIONS" <=> m = "OPTIONS"
      BY <2>1 DEF RouteMethod
    <3> QED  BY <2>1, <2>3, <3>1, <3>2, RouterAssumption DEF Expected
  <2> QED  BY <2>1, <2>2, <2>3
<1> QED  BY <1>1, <1>2

LEMMA PromisesKept == ASSUME RouterInv PROVE MostSpecificAnswers
<1> SUFFICES ASSUME status = "built", NEW m \in Methods, NEW x \in Paths
             PROVE  LET e == Dispatch(m, x) IN
                    /\ e.answer = Expected(m, x)
                    /\ e.answer # "404" => e.path \in Best(x)
                    /\ e.answer = "handler" => e.method = RouteMethod(m, x)
  BY DEF MostSpecificAnswers
<1>1. Serving(Dispatch(m, x), m, x)
  BY DispatchIsLeast DEF Serving
<1> QED  BY <1>1, Answers

\* Every request is answered as the routes promise, whatever routes there are.
THEOREM RequestsAnswered == RouterSpec => []MostSpecificAnswers
BY PromisesKept, RouterInductive, PTL

\* Without HEAD routes, no two best paths differ: Build would have panicked.
LEMMA AllowIsRight == ASSUME RouterInv PROVE AllowAccurate
<1> SUFFICES ASSUME status = "built", \A r \in routes : r.method # "HEAD",
                    NEW n \in Standard, NEW x \in Paths, NEW e, e = Dispatch(n, x),
                    e.answer = "405", NEW m \in Methods
             PROVE  m \in AllowHeader(e.path) <=> Dispatch(m, x).answer # "405"
  BY DEF AllowAccurate
<1>1. n \in Methods
  BY DEF Methods
<1>2. /\ Expected(n, x) = "405" /\ e.path \in Best(x)
      /\ Dispatch(m, x).answer = Expected(m, x)
  BY <1>1, PromisesKept DEF MostSpecificAnswers
<1>3. Best(x) = {e.path}
  <2> SUFFICES ASSUME NEW p \in Best(x), p # e.path PROVE FALSE
    BY <1>2
  <2>1. /\ p \in RegisteredPaths /\ e.path \in RegisteredPaths
        /\ Reach[p] = Reach[e.path] /\ x \in Reach[p]
    BY <1>2 DEF Best
  <2>2. ~Disjoint(p, e.path) /\ ~Nested(p, e.path) /\ ~Nested(e.path, p)
    BY <2>1 DEF Disjoint, Nested
  <2> QED  BY <2>1, <2>2, AmbiguityPanics DEF BuildPanicsOnAmbiguity
<1>4. BestMethods(x) = MethodsOf(e.path)
  BY <1>3 DEF BestMethods
<1>5. ~IsSubtree(e.path)
  BY <1>2, <1>3 DEF Expected
<1>6. "HEAD" \notin MethodsOf(e.path)
  BY DEF MethodsOf
<1>7. Expected(m, x) # "405" <=> RouteMethod(m, x) \in MethodsOf(e.path) \/ m = "OPTIONS"
  BY <1>3, <1>4, <1>5 DEF Expected
<1>8. RouteMethod(m, x) = IF m = "HEAD" THEN "GET" ELSE m
  BY <1>4, <1>6 DEF RouteMethod
<1> QED  BY <1>2, <1>6, <1>7, <1>8 DEF AllowHeader

\* The Allow header of a 405 names exactly what would not be one.
THEOREM AllowTellsTruth == RouterSpec => []AllowAccurate
BY AllowIsRight, RouterInductive, PTL
==============================================================================
