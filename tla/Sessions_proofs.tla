---------------------------- MODULE Sessions_proofs ----------------------------
(***************************************************************************)
(* Proofs about Sessions.  A row only moves one way: once issued it is     *)
(* never unissued, its expiry never changes, a revocation or a deletion is *)
(* never undone, and time goes forward (OneWay).  So what a request was    *)
(* told of its token stays true of it, step by step (CallInv).  How long a *)
(* token was unused is measured within bounds (UseInv).                    *)
(***************************************************************************)
EXTENDS Sessions, TLAPS

\* What holds of a request c in the guard or beyond.
CallInv(c) ==
    /\ c.token # None => tokens[c.token] # None
    /\ c.place # "answered" => c.token # None /\ c.answer = "none"
    /\ c.place = "load" => c.now \in Nat
    /\ c.place = "find" => c.live \/ ~Live(c.token)
    /\ c.place = "judge" => c.live \/ c.row.revoked \/ Expired(c.row, clock)
    /\ c.place \in {"load", "handler"} => c.live
    /\ c.admitted => c.live
    /\ c.place = "judge" /\ Row(c.token) =>
          /\ tokens[c.token].expires = c.row.expires
          /\ c.row.revoked => tokens[c.token].revoked
    /\ c.token # None /\ c.answer = "401" /\ ~c.idle => ~Live(c.token)

IInv ==
    /\ TypeOK
    /\ \A t \in Tokens : Row(t) => Owner[t] \in users
    /\ \A r \in Requests : call[r] # None => CallInv(call[r])

OneWay ==
    /\ clock' \in Nat /\ clock' >= clock
    /\ \A t \in Tokens :
          /\ tokens[t] # None => tokens'[t] # None
          /\ tokens[t] # None /\ Row(t)' =>
                /\ Row(t)
                /\ tokens'[t].expires = tokens[t].expires
                /\ tokens[t].revoked => tokens'[t].revoked

-----------------------------------------------------------------------------
(* Rows and the clock. *)

\* A token that is dead stays dead.
LEMMA DeadStaysDead ==
    ASSUME TypeOK, TypeOK', OneWay, NEW t \in Tokens, tokens[t] # None, ~Live(t)
    PROVE  ~Live(t)'
<1> SUFFICES ASSUME Row(t)'
             PROVE  tokens'[t].revoked \/ Expired(tokens'[t], clock')
  BY DEF Live
<1>1. /\ Row(t)
      /\ tokens'[t].expires = tokens[t].expires
      /\ tokens[t].revoked => tokens'[t].revoked
  BY DEF OneWay
<1>2. CASE tokens[t].revoked
  BY <1>1, <1>2
<1>3. CASE Expired(tokens[t], clock)
  <2>1. tokens[t].expires \in Nat /\ clock > tokens[t].expires
    BY <1>1, <1>3 DEF Expired, Row, Rows, Times
  <2>2. clock' > tokens[t].expires
    BY <2>1 DEF OneWay, TypeOK
  <2> QED  BY <1>1, <2>1, <2>2, SessionsAssumption DEF Expired
<1> QED  BY <1>1, <1>2, <1>3 DEF Live

\* A request that is left alone keeps what it knows.
LEMMA CallKept ==
    ASSUME TypeOK, TypeOK', OneWay, NEW c \in Calls, CallInv(c),
           c.place = "judge" => c.row \in Rows
    PROVE  CallInv(c)'
<1>1. c.token # None => c.token \in Tokens /\ tokens'[c.token] # None
  BY DEF CallInv, OneWay, Calls
<1>2. c.place = "find" => c.live \/ ~Live(c.token)'
  BY <1>1, DeadStaysDead DEF CallInv
<1>3. c.place = "judge" => c.live \/ c.row.revoked \/ Expired(c.row, clock')
  <2>1. SUFFICES ASSUME c.place = "judge", Expired(c.row, clock)
                 PROVE  Expired(c.row, clock')
    BY DEF CallInv
  <2>2. c.row.expires \in Nat /\ clock > c.row.expires
    BY <2>1 DEF Expired, Rows, Times
  <2> QED  BY <2>2, SessionsAssumption DEF Expired, OneWay, TypeOK
<1>4. c.place = "judge" /\ Row(c.token)' =>
         /\ tokens'[c.token].expires = c.row.expires
         /\ c.row.revoked => tokens'[c.token].revoked
  BY <1>1 DEF CallInv, OneWay
<1>5. c.token # None /\ c.answer = "401" /\ ~c.idle => ~Live(c.token)'
  BY <1>1, DeadStaysDead DEF CallInv
<1> QED  BY <1>1, <1>2, <1>3, <1>4, <1>5 DEF CallInv

\* So a step has to be looked at only for the request that takes it.
LEMMA OthersKept ==
    ASSUME IInv, TypeOK', OneWay, NEW r \in Requests,
           \A q \in Requests \ {r} : call'[q] = call[q],
           call'[r] # None => CallInv(call[r])',
           \A t \in Tokens : Row(t)' => Owner[t] \in users'
    PROVE  IInv'
<1> SUFFICES ASSUME NEW q \in Requests, call'[q] # None, q # r
             PROVE  CallInv(call[q])'
  BY DEF IInv
<1>1. call'[q] = call[q]
  OBVIOUS
<1>2. /\ call[q] \in Calls /\ CallInv(call[q])
      /\ call[q].place = "judge" => call[q].row \in Rows
  BY <1>1 DEF IInv, TypeOK
<1>3. \A c \in Calls : CallInv(c) /\ (c.place = "judge" => c.row \in Rows) => CallInv(c)'
  BY CallKept DEF IInv
<1> QED  BY <1>1, <1>2, <1>3 DEF CallInv

-----------------------------------------------------------------------------
(* The guard. *)

LEMMA FreshType ==
    ASSUME NEW t \in Tokens \cup {None}
    PROVE  Fresh(t) \in Calls
BY DEF Fresh, Calls, Answers, Times

\* A step of the guard puts r where c says, and touches nothing else.
LEMMA MoveKept ==
    ASSUME IInv, NEW r \in Requests, NEW c \in Calls \cup {None}, Move(r, c),
           c # None => CallInv(c),
           c # None /\ c.place \in {"judge", "load"} => c.row \in Rows
    PROVE  IInv'
<1>1. /\ call' = [call EXCEPT ![r] = c]
      /\ UNCHANGED <<clock, tokens, users, touches, settled>>
  BY DEF Move
<1>2. TypeOK'
  BY <1>1 DEF IInv, TypeOK, Row
<1>3. OneWay
  BY <1>1 DEF OneWay, IInv, TypeOK, Row
<1>4. call'[r] # None => CallInv(call[r])'
  BY <1>1 DEF CallInv, IInv, TypeOK, Live, Row, Expired
<1>5. \A t \in Tokens : Row(t)' => Owner[t] \in users'
  BY <1>1 DEF IInv, Row
<1>6. \A q \in Requests \ {r} : call'[q] = call[q]
  BY <1>1 DEF IInv, TypeOK
<1> QED  BY <1>2, <1>3, <1>4, <1>5, <1>6, OthersKept

\* An answer without a token, or other than 401, or for a dead token.
LEMMA AnswerKept ==
    ASSUME IInv, NEW r \in Requests, NEW a \in Answers, call[r] # None, Answer(r, a),
           a = "401" /\ call[r].token # None => ~Live(call[r].token)
    PROVE  IInv'
<1> DEFINE c == [Fresh(call[r].token) EXCEPT !.place = "answered", !.answer = a]
<1>1. call[r] \in Calls /\ CallInv(call[r])
  BY DEF IInv, TypeOK
<1>2. c \in Calls
  <2>1. Fresh(call[r].token) \in Calls
    BY <1>1, FreshType DEF Calls
  <2> QED  BY <2>1 DEF Calls
<1>3. CallInv(c) /\ c.place = "answered"
  BY <1>1 DEF CallInv, Fresh
<1>4. Move(r, c)
  BY DEF Answer
<1> HIDE DEF c
<1>5. c # None
  BY <1>2, SessionsAssumption
<1> QED  BY <1>2, <1>3, <1>4, <1>5, MoveKept

LEMMA PresentKept ==
    ASSUME IInv, NEW r \in Requests,
           PresentNone(r) \/ \E t \in Tokens : Present(r, t)
    PROVE  IInv'
<1>1. CASE \E t \in Tokens : Present(r, t)
  <2>1. PICK t \in Tokens : Present(r, t)
    BY <1>1
  <2> DEFINE c == [Fresh(t) EXCEPT !.live = Live(t)]
  <2>2. Fresh(t) \in Calls /\ Live(t) \in BOOLEAN
    BY FreshType DEF Live
  <2>3. c \in Calls
    BY <2>2 DEF Calls
  <2>4. c.live <=> Live(t)
    BY <2>2 DEF Fresh
  <2>5. c.token = t /\ c.place = "find" /\ ~c.admitted /\ c.answer = "none"
    BY DEF Fresh
  <2>6. Move(r, c) /\ tokens[t] # None
    BY <2>1 DEF Present
  <2> HIDE DEF c
  <2>7. c.live \/ ~Live(c.token)
    BY <2>4, <2>5
  <2>8. tokens[c.token] # None /\ c.token # None
    BY <2>5, <2>6, SessionsAssumption
  <2>9. CallInv(c)
    BY <2>5, <2>7, <2>8 DEF CallInv
  <2> QED  BY <2>3, <2>5, <2>6, <2>9, MoveKept
<1>2. CASE PresentNone(r)
  <2>1. PICK a \in {"401", "done"} :
           Move(r, [Fresh(None) EXCEPT !.place = "answered", !.answer = a])
    BY <1>2 DEF PresentNone
  <2> DEFINE c == [Fresh(None) EXCEPT !.place = "answered", !.answer = a]
  <2>2. c \in Calls
    <3>1. Fresh(None) \in Calls /\ a \in Answers
      BY FreshType DEF Answers
    <3> QED  BY <3>1 DEF Calls
  <2>3. CallInv(c) /\ c.place = "answered"
    BY DEF CallInv, Fresh
  <2>4. Move(r, c)
    BY <2>1
  <2> HIDE DEF c
  <2> QED  BY <2>2, <2>3, <2>4, MoveKept
<1> QED  BY <1>1, <1>2

LEMMA FindKept ==
    ASSUME IInv, NEW r \in Requests, FindToken(r) \/ StoreFails(r)
    PROVE  IInv'
<1>1. call[r] \in Calls /\ CallInv(call[r]) /\ call[r].place \in {"find", "load"}
  BY DEF FindToken, StoreFails, At, IInv, TypeOK
<1>2. call[r].token \in Tokens /\ tokens[call[r].token] # None
  BY <1>1 DEF CallInv, Calls
<1> DEFINE t == call[r].token
<1>3. CASE Answer(r, "503")
  BY <1>1, <1>3, AnswerKept, SessionsAssumption DEF Answers
<1>4. CASE ~Row(t) /\ Answer(r, "401")
  BY <1>1, <1>4, AnswerKept, SessionsAssumption DEF Answers, Live
<1>5. CASE /\ call[r].place = "find"
           /\ Row(t)
           /\ Move(r, [call[r] EXCEPT !.place = "judge", !.row = tokens[t],
                                      !.at = clock, !.used = settled[t]])
  <2> DEFINE c == [call[r] EXCEPT !.place = "judge", !.row = tokens[t],
                                  !.at = clock, !.used = settled[t]]
  <2>1. tokens[t] \in Rows /\ clock \in Times /\ settled[t] \in Times
    BY <1>2, <1>5 DEF Row, IInv, TypeOK, Times
  <2>2. c \in Calls
    BY <1>1, <2>1 DEF Calls
  <2>3. /\ c.place = "judge" /\ c.token = t /\ c.row = tokens[t]
        /\ c.live = call[r].live /\ c.admitted = call[r].admitted
        /\ c.answer = call[r].answer /\ c.idle = call[r].idle
    BY <1>1 DEF Calls
  <2>4. Move(r, c)
    BY <1>5
  <2> HIDE DEF c
  <2>5. CallInv(c)
    BY <1>1, <1>2, <1>5, <2>3 DEF CallInv, Live
  <2> QED  BY <2>1, <2>2, <2>3, <2>4, <2>5, MoveKept
<1> QED  BY <1>3, <1>4, <1>5 DEF FindToken, StoreFails, At

LEMMA JudgeKept ==
    ASSUME IInv, NEW r \in Requests, Judge(r)
    PROVE  IInv'
<1> DEFINE row == call[r].row
<1>1. /\ call[r] # None /\ call[r] \in Calls /\ CallInv(call[r])
      /\ call[r].place = "judge" /\ row \in Rows
  BY DEF Judge, At, IInv, TypeOK
<1>2. call[r].token \in Tokens /\ clock \in Nat
  BY <1>1 DEF CallInv, Calls, IInv, TypeOK
<1>3. CASE (row.revoked \/ Expired(row, clock)) /\ Answer(r, "401")
  <2>1. ~Live(call[r].token)
    BY <1>1, <1>3 DEF CallInv, Live, Expired
  <2> QED  BY <1>1, <1>3, <2>1, AnswerKept DEF Answers
<1>4. CASE Move(r, [call[r] EXCEPT !.place = "answered", !.answer = "401",
                                   !.now = clock, !.at = None, !.row = None,
                                   !.idle = TRUE])
  <2> DEFINE c == [call[r] EXCEPT !.place = "answered", !.answer = "401",
                                  !.now = clock, !.at = None, !.row = None,
                                  !.idle = TRUE]
  <2>1. c \in Calls
    BY <1>1, <1>2 DEF Calls, Answers, Times
  <2>2. /\ c.place = "answered" /\ c.token = call[r].token /\ c.idle
        /\ c.live = call[r].live /\ c.admitted = call[r].admitted
    BY <1>1 DEF Calls
  <2>3. Move(r, c)
    BY <1>4
  <2> HIDE DEF c
  <2>4. CallInv(c)
    BY <1>1, <2>2 DEF CallInv
  <2> QED  BY <2>1, <2>2, <2>3, <2>4, MoveKept
<1>5. CASE /\ ~row.revoked /\ ~Expired(row, clock)
           /\ Move(r, [call[r] EXCEPT !.place = "load", !.now = clock, !.at = None,
                                      !.used = None])
  <2> DEFINE c == [call[r] EXCEPT !.place = "load", !.now = clock, !.at = None,
                                  !.used = None]
  <2>1. c \in Calls
    BY <1>1, <1>2 DEF Calls, Times
  <2>2. /\ c.place = "load" /\ c.token = call[r].token /\ c.row = row /\ c.now = clock
        /\ c.live = call[r].live /\ c.admitted = call[r].admitted
        /\ c.answer = call[r].answer /\ c.idle = call[r].idle
    BY <1>1 DEF Calls
  <2>3. Move(r, c)
    BY <1>5
  <2> HIDE DEF c
  <2>4. CallInv(c)
    BY <1>1, <1>2, <1>5, <2>2 DEF CallInv
  <2> QED  BY <1>1, <2>1, <2>2, <2>3, <2>4, MoveKept
<1> QED  BY <1>3, <1>4, <1>5 DEF Judge

-----------------------------------------------------------------------------
(* Steps that write more than the request: the user is loaded and the use  *)
(* of the token recorded, or the handler revokes tokens.                   *)

\* Such a step goes one way, and leaves r in the handler or beyond.
LEMMA HandlerKept ==
    ASSUME IInv, TypeOK', OneWay, NEW r \in Requests, NEW c \in Calls,
           call[r] # None, call' = [call EXCEPT ![r] = c],
           c.place = "handler" \/ c.place = "answered",
           c.token = call[r].token, c.live = call[r].live, c.token # None,
           c.live, c.answer # "401", c.place = "handler" => c.answer = "none",
           \A t \in Tokens : Row(t)' => Owner[t] \in users'
    PROVE  IInv'
<1>1. call'[r] = c /\ \A q \in Requests \ {r} : call'[q] = call[q]
  BY DEF IInv, TypeOK
<1>2. c.token \in Tokens /\ tokens[c.token] # None
  BY DEF Calls, IInv, CallInv
<1>3. CallInv(call[r])'
  BY <1>1, <1>2 DEF CallInv, OneWay
<1> QED  BY <1>1, <1>3, OthersKept

LEMMA LoadKept ==
    ASSUME IInv, NEW r \in Requests, LoadUser(r)
    PROVE  IInv'
<1>1. /\ call[r] # None /\ call[r] \in Calls /\ CallInv(call[r])
      /\ call[r].place = "load"
  BY DEF LoadUser, At, IInv, TypeOK
<1>2. call[r].token \in Tokens /\ call[r].now \in Nat
  BY <1>1 DEF CallInv, Calls
<1> DEFINE t == call[r].token
<1>3. CASE Owner[t] \notin users /\ Answer(r, "401")
  <2>1. ~Live(t)
    BY <1>2, <1>3 DEF Live, IInv
  <2> QED  BY <1>1, <1>3, <2>1, AnswerKept DEF Answers
<1>4. CASE ~(Owner[t] \notin users /\ Answer(r, "401"))
  <2> DEFINE c == [call[r] EXCEPT !.place = "handler", !.admitted = TRUE,
                                  !.row = None, !.now = None]
  <2>1. /\ call' = [call EXCEPT ![r] = c]
        /\ UNCHANGED <<clock, tokens, users>>
        /\ \/ /\ settled' = [settled EXCEPT ![t] = Later(@, call[r].now)]
              /\ UNCHANGED touches
           \/ /\ touches' = touches \cup {[token |-> t, at |-> call[r].now]}
              /\ UNCHANGED settled
    BY <1>1, <1>4 DEF LoadUser, IInv, TypeOK
  <2>2. c \in Calls
    BY <1>1 DEF Calls, Times
  <2>3. /\ c.place = "handler" /\ c.token = t /\ c.live = call[r].live
        /\ c.answer = call[r].answer /\ c.idle = call[r].idle
    BY <1>1 DEF Calls
  <2> HIDE DEF c
  <2>4. TypeOK'
    <3>1. settled' \in [Tokens -> Times] /\ touches' \subseteq [token : Tokens, at : Nat]
      BY <1>2, <2>1 DEF IInv, TypeOK, Later, Times
    <3> QED  BY <2>1, <2>2, <2>3, <3>1 DEF IInv, TypeOK
  <2>5. OneWay
    BY <2>1 DEF OneWay, IInv, TypeOK, Row
  <2>6. \A u \in Tokens : Row(u)' => Owner[u] \in users'
    BY <2>1 DEF IInv, Row
  <2>7. c.live
    BY <1>1, <2>3 DEF CallInv
  <2>8. c.answer = "none" /\ c.token # None
    BY <1>1, <1>2, <2>3, SessionsAssumption DEF CallInv
  <2> QED  BY <1>1, <2>1, <2>2, <2>3, <2>4, <2>5, <2>6, <2>7, <2>8, HandlerKept
<1> QED  BY <1>3, <1>4

\* What Logout and LogoutAll do to the rows.
LEMMA RevokeRows ==
    ASSUME IInv, NEW ts \in SUBSET Tokens, Revoke(ts), UNCHANGED <<clock, users>>
    PROVE  /\ tokens' \in [Tokens -> Rows \cup {None, Gone}]
           /\ OneWay
           /\ \A t \in Tokens : Row(t)' => Owner[t] \in users'
<1>1. tokens \in [Tokens -> Rows \cup {None, Gone}] /\ clock \in Nat
  BY DEF IInv, TypeOK
<1>2. ASSUME NEW t \in Tokens
      PROVE  /\ tokens'[t] \in Rows \cup {None, Gone}
             /\ tokens[t] # None => tokens'[t] # None
             /\ Row(t)' => Row(t)
             /\ Row(t)' => tokens'[t].expires = tokens[t].expires
             /\ Row(t)' => (tokens[t].revoked => tokens'[t].revoked)
  <2>1. CASE t \in ts /\ Row(t)
    <3>1. tokens'[t] = [tokens[t] EXCEPT !.revoked = TRUE]
      BY <2>1 DEF Revoke
    <3>2. tokens'[t] \in Rows /\ tokens'[t].expires = tokens[t].expires /\ tokens'[t].revoked
      BY <2>1, <3>1 DEF Row, Rows
    <3>3. tokens'[t] # None
      BY <3>2, SessionsAssumption
    <3> QED  BY <2>1, <3>2, <3>3 DEF Row
  <2>2. CASE ~(t \in ts /\ Row(t))
    <3>1. tokens'[t] = tokens[t]
      BY <2>2 DEF Revoke
    <3> QED  BY <1>1, <3>1 DEF Row
  <2> QED  BY <2>1, <2>2
<1>3. tokens' \in [Tokens -> Rows \cup {None, Gone}]
  <2>1. tokens' = [t \in Tokens |-> tokens'[t]]
    BY DEF Revoke
  <2> QED  BY <1>2, <2>1
<1>4. OneWay
  BY <1>1, <1>2 DEF OneWay
<1> QED  BY <1>2, <1>3, <1>4 DEF IInv

LEMMA HandlerStepKept ==
    ASSUME IInv, NEW r \in Requests,
           Respond(r) \/ Logout(r) \/ LogoutAll(r) \/ LogoutFails(r)
    PROVE  IInv'
<1>1. /\ call[r] # None /\ call[r] \in Calls /\ CallInv(call[r])
      /\ call[r].place = "handler"
  BY DEF Respond, Logout, LogoutAll, LogoutFails, At, IInv, TypeOK
<1>2. call[r].token \in Tokens /\ call[r].token # None
  BY <1>1 DEF CallInv, Calls
<1>3. PICK a \in {"done", "500"} : Finish(r, a)
  BY DEF Respond, Logout, LogoutAll, LogoutFails
<1> DEFINE c == [call[r] EXCEPT !.place = "answered", !.answer = a]
<1>4. call' = [call EXCEPT ![r] = c]
  BY <1>1, <1>3 DEF Finish, IInv, TypeOK
<1>5. c \in Calls
  BY <1>1 DEF Calls, Answers
<1>6. /\ c.place = "answered" /\ c.token = call[r].token /\ c.live = call[r].live
      /\ c.answer = a
  BY <1>1 DEF Calls
<1> HIDE DEF c
<1>7. c.live /\ c.answer # "401" /\ c.token # None
  BY <1>1, <1>2, <1>6 DEF CallInv
<1>8. /\ tokens' \in [Tokens -> Rows \cup {None, Gone}]
      /\ OneWay
      /\ \A t \in Tokens : Row(t)' => Owner[t] \in users'
  <2>1. UNCHANGED <<clock, users>>
    BY DEF Respond, Logout, LogoutAll, LogoutFails
  <2>2. CASE UNCHANGED tokens
    BY <2>1, <2>2 DEF OneWay, Row, IInv, TypeOK
  <2>3. CASE \E ts \in SUBSET Tokens : Revoke(ts)
    BY <2>1, <2>3, RevokeRows
  <2>4. {call[r].token} \in SUBSET Tokens
    BY <1>2
  <2> QED  BY <2>2, <2>3, <2>4 DEF Respond, Logout, LogoutAll, LogoutFails
<1>9. TypeOK'
  <2>1. UNCHANGED <<clock, users, touches, settled>>
    BY DEF Respond, Logout, LogoutAll, LogoutFails
  <2> QED  BY <1>4, <1>5, <1>6, <1>8, <2>1 DEF IInv, TypeOK
<1> QED  BY <1>1, <1>4, <1>5, <1>6, <1>7, <1>8, <1>9, HandlerKept

-----------------------------------------------------------------------------
(* The steps that no request takes. *)

\* They leave every request alone.
LEMMA CallsKept ==
    ASSUME IInv, TypeOK', OneWay, UNCHANGED call,
           \A t \in Tokens : Row(t)' => Owner[t] \in users'
    PROVE  IInv'
<1> SUFFICES ASSUME NEW r \in Requests, call'[r] # None
             PROVE  CallInv(call[r])'
  BY DEF IInv
<1>1. /\ call[r] \in Calls /\ CallInv(call[r])
      /\ call[r].place = "judge" => call[r].row \in Rows
  BY DEF IInv, TypeOK
<1>2. \A c \in Calls : CallInv(c) /\ (c.place = "judge" => c.row \in Rows) => CallInv(c)'
  BY CallKept DEF IInv
<1> QED  BY <1>1, <1>2 DEF CallInv

LEMMA ServiceKept ==
    ASSUME IInv,
           \/ \E t \in Tokens : IssueToken(t)
           \/ \E u \in Users : DeleteUser(u)
    PROVE  IInv'
<1>1. CASE \E t \in Tokens : IssueToken(t)
  <2>1. PICK t \in Tokens : IssueToken(t)
    BY <1>1
  <2> DEFINE row == [expires  |-> IF TokenTTL > 0 THEN clock + TokenTTL ELSE None,
                     revoked  |-> FALSE,
                     lastUsed |-> None]
  <2>2. row \in Rows
    BY SessionsAssumption DEF Rows, Times, IInv, TypeOK
  <2>3. tokens' = [tokens EXCEPT ![t] = row]
    BY <2>1 DEF IssueToken
  <2> HIDE DEF row
  <2>4. TypeOK'
    BY <2>1, <2>2, <2>3 DEF IssueToken, IInv, TypeOK
  <2>5. OneWay
    BY <2>1, <2>2, <2>3, SessionsAssumption DEF IssueToken, OneWay, IInv, TypeOK, Row
  <2>6. \A u \in Tokens : Row(u)' => Owner[u] \in users'
    BY <2>1, <2>3 DEF IssueToken, IInv, TypeOK, Row
  <2> QED  BY <2>1, <2>4, <2>5, <2>6, CallsKept DEF IssueToken
<1>2. CASE \E u \in Users : DeleteUser(u)
  <2>1. PICK u \in Users : DeleteUser(u)
    BY <1>2
  <2>2. ASSUME NEW t \in Tokens
        PROVE  /\ tokens'[t] \in Rows \cup {None, Gone}
               /\ tokens[t] # None => tokens'[t] # None
               /\ Row(t)' => tokens'[t] = tokens[t] /\ Row(t) /\ Owner[t] # u
    BY <2>1, SessionsAssumption DEF DeleteUser, IInv, TypeOK, Row
  <2>3. TypeOK'
    <3>1. tokens' \in [Tokens -> Rows \cup {None, Gone}]
      BY <2>1, <2>2 DEF DeleteUser
    <3> QED  BY <2>1, <3>1 DEF DeleteUser, IInv, TypeOK
  <2>4. OneWay
    BY <2>1, <2>2 DEF DeleteUser, OneWay, IInv, TypeOK
  <2>5. \A t \in Tokens : Row(t)' => Owner[t] \in users'
    BY <2>1, <2>2 DEF DeleteUser, IInv
  <2> QED  BY <2>1, <2>3, <2>4, <2>5, CallsKept DEF DeleteUser
<1> QED  BY <1>1, <1>2

LEMMA TouchKept ==
    ASSUME IInv, NEW x \in touches, Touch(x) \/ TouchFails(x)
    PROVE  IInv'
<1>1. x.token \in Tokens /\ x.at \in Nat
  BY DEF IInv, TypeOK
<1>2. CASE Touch(x)
  <2>1. ASSUME NEW t \in Tokens
        PROVE  /\ tokens'[t] \in Rows \cup {None, Gone}
               /\ tokens[t] # None => tokens'[t] # None
               /\ Row(t)' => Row(t)
               /\ Row(t)' => tokens'[t].expires = tokens[t].expires
               /\ Row(t)' => (tokens[t].revoked => tokens'[t].revoked)
    <3>1. CASE t = x.token /\ Row(t)
      <4>1. tokens'[t] = [tokens[t] EXCEPT !.lastUsed = x.at]
        BY <1>2, <3>1 DEF Touch, IInv, TypeOK
      <4>2. /\ tokens'[t] \in Rows
            /\ tokens'[t].expires = tokens[t].expires
            /\ tokens'[t].revoked = tokens[t].revoked
        BY <1>1, <3>1, <4>1 DEF Row, Rows, Times
      <4> QED  BY <3>1, <4>2, SessionsAssumption
    <3>2. CASE ~(t = x.token /\ Row(t))
      <4>1. tokens'[t] = tokens[t]
        BY <1>2, <3>2 DEF Touch, IInv, TypeOK
      <4> QED  BY <4>1 DEF Row, IInv, TypeOK
    <3> QED  BY <3>1, <3>2
  <2>2. TypeOK'
    <3>1. tokens' \in [Tokens -> Rows \cup {None, Gone}]
      <4>1. tokens' = [t \in Tokens |-> tokens'[t]]
        BY <1>2 DEF Touch, IInv, TypeOK
      <4> QED  BY <2>1, <4>1
    <3>2. settled' \in [Tokens -> Times]
      BY <1>1, <1>2 DEF Touch, IInv, TypeOK, Later, Times
    <3> QED  BY <1>2, <3>1, <3>2 DEF Touch, IInv, TypeOK
  <2>3. OneWay
    BY <1>2, <2>1 DEF Touch, OneWay, IInv, TypeOK
  <2>4. \A t \in Tokens : Row(t)' => Owner[t] \in users'
    BY <1>2, <2>1 DEF Touch, IInv
  <2> QED  BY <1>2, <2>2, <2>3, <2>4, CallsKept DEF Touch
<1>3. CASE TouchFails(x)
  <2>1. TypeOK'
    BY <1>3 DEF TouchFails, IInv, TypeOK
  <2>2. OneWay /\ \A t \in Tokens : Row(t)' => Owner[t] \in users'
    BY <1>3 DEF TouchFails, OneWay, IInv, TypeOK, Row
  <2> QED  BY <1>3, <2>1, <2>2, CallsKept DEF TouchFails
<1> QED  BY <1>2, <1>3

LEMMA TickKept ==
    ASSUME IInv, Tick
    PROVE  IInv'
<1>1. TypeOK'
  BY DEF Tick, IInv, TypeOK
<1>2. OneWay /\ \A t \in Tokens : Row(t)' => Owner[t] \in users'
  BY DEF Tick, OneWay, IInv, TypeOK, Row
<1> QED  BY <1>1, <1>2, CallsKept DEF Tick

-----------------------------------------------------------------------------
LEMMA Inductive == Spec => []IInv
<1>1. Init => IInv
  BY SessionsAssumption DEF Init, IInv, TypeOK, Row, Times
<1>2. IInv /\ [Next]_vars => IInv'
  <2> SUFFICES ASSUME IInv, [Next]_vars  PROVE IInv'
    OBVIOUS
  <2>1. CASE UNCHANGED vars
    BY <2>1 DEF vars, IInv, TypeOK, CallInv, Row, Live, Expired
  <2>2. ASSUME NEW r \in Requests, End(r)
        PROVE  IInv'
    BY <2>2, MoveKept DEF End
  <2> QED
    BY <2>1, <2>2, ServiceKept, PresentKept, FindKept, JudgeKept, LoadKept,
       HandlerStepKept, TouchKept, TickKept DEF Next
<1> QED  BY <1>1, <1>2, PTL DEF Spec

\* The variables keep their types, and a request that is being judged, or whose
\* user is loaded, holds a row.
THEOREM TypeCorrectness == Spec => []TypeOK
BY Inductive, PTL DEF IInv

\* Whatever touches, logouts and deletions are in flight, a request that presents
\* a token already revoked, expired or deleted is not let through
\* (guard.go:186-203).
THEOREM DeadTokensStayOut == Spec => []DeadStaysOut
<1>1. IInv => DeadStaysOut
  BY DEF IInv, DeadStaysOut, CallInv
<1> QED  BY <1>1, Inductive, PTL

\* However the store fails, a 401 means that the token is dead or idle
\* (guard.go:175-185, 209-224).
THEOREM RefusalsAreFounded == Spec => []RefusedForReason
<1>1. IInv => RefusedForReason
  BY DEF IInv, RefusedForReason, CallInv
<1> QED  BY <1>1, Inductive, PTL

-----------------------------------------------------------------------------
(* The use of a token.  What is recorded and what is settled are never far *)
(* apart, and neither are the row that a request has and the one it read.  *)

Near(l, s) == s - l < TouchInterval \/ s - l <= MaxLife + MaxDelay
Used(t) == tokens[t].lastUsed

SettledInv(t) ==
    settled[t] # None =>
        /\ tokens[t] # None
        /\ settled[t] <= clock
        /\ Row(t) => Used(t) # None /\ Near(Used(t), settled[t])
TouchInv(x) ==
    /\ tokens[x.token] # None
    /\ x.at <= clock
    /\ clock <= x.at + MaxLife

\* The row was written since c.row was read, if at all, by a touch not too old.
NotBefore(c, time) ==
    Row(c.token) /\ c.row.lastUsed # None =>
        /\ Used(c.token) # None
        /\ Used(c.token) >= c.row.lastUsed \/ Used(c.token) >= time
JudgeUse(c) ==
    /\ c.at \in Nat /\ c.at <= clock /\ clock <= c.at + MaxDelay
    /\ c.used # None /\ c.row.lastUsed # None => Near(c.row.lastUsed, c.used)
    /\ NotBefore(c, c.at - MaxLife)
LoadUse(c) ==
    /\ c.now <= clock /\ clock <= c.now + MaxLife
    /\ NotBefore(c, c.now - (MaxLife + MaxDelay))
IdleUse(c) ==
    c.used # None =>
        \/ c.now - c.used > IdleTimeout - TouchInterval
        \/ c.now - c.used > IdleTimeout - (MaxLife + MaxDelay)
CallUse(c) ==
    /\ c.place = "judge" => JudgeUse(c)
    /\ c.place = "load" => LoadUse(c)
    /\ c.idle => c.place = "answered" /\ IdleUse(c)

UseInv ==
    /\ \A t \in Tokens : SettledInv(t)
    /\ \A x \in touches : TouchInv(x)
    /\ \A r \in Requests : call[r] # None => CallUse(call[r])

\* What a step may do to the use of a token: nothing, or a touch.
UsesMove ==
    \A t \in Tokens : tokens[t] # None =>
        /\ tokens'[t] # None
        /\ Row(t)' =>
              /\ Row(t)
              /\ \/ Used(t)' = Used(t)
                 \/ Used(t)' \in Nat /\ Used(t)' >= clock - MaxLife

\* A request that is left alone keeps its bounds.
LEMMA CallUseKept ==
    ASSUME IInv, UsesMove, clock' = clock, NEW c \in Calls, CallInv(c), CallUse(c),
           c.place \in {"judge", "load"} => c.row \in Rows
    PROVE  CallUse(c)'
<1> SUFFICES ASSUME c.place \in {"judge", "load"}
             PROVE  (c.place = "judge" => JudgeUse(c))' /\ (c.place = "load" => LoadUse(c))'
  BY DEF CallUse, IdleUse
<1>1. /\ c.token \in Tokens /\ tokens[c.token] # None
      /\ c.row.lastUsed \in Times
      /\ clock \in Nat
  BY DEF CallInv, Calls, Rows, IInv, TypeOK
<1>2. ASSUME NEW time \in Int, time <= clock - MaxLife, NotBefore(c, time)
      PROVE  NotBefore(c, time)'
  <2> SUFFICES ASSUME Row(c.token)', c.row.lastUsed # None
               PROVE  /\ Used(c.token)' # None
                      /\ Used(c.token)' >= c.row.lastUsed \/ Used(c.token)' >= time
    BY DEF NotBefore
  <2>1. Row(c.token)
    BY <1>1 DEF UsesMove
  <2>2. Used(c.token) # None /\ (Used(c.token) >= c.row.lastUsed \/ Used(c.token) >= time)
    BY <1>2, <2>1 DEF NotBefore
  <2>3. CASE Used(c.token)' = Used(c.token)
    BY <2>2, <2>3
  <2>4. CASE Used(c.token)' \in Nat /\ Used(c.token)' >= clock - MaxLife
    <3>1. Used(c.token)' >= time
      BY <1>1, <1>2, <2>4, SessionsAssumption
    <3> QED  BY <2>4, <3>1, SessionsAssumption
  <2> QED  BY <1>1, <2>3, <2>4 DEF UsesMove
<1>3. CASE c.place = "judge"
  <2>1. JudgeUse(c)
    BY <1>3 DEF CallUse
  <2>2. c.at - MaxLife \in Int /\ c.at - MaxLife <= clock - MaxLife
    BY <1>1, <2>1, SessionsAssumption DEF JudgeUse
  <2>3. NotBefore(c, c.at - MaxLife)'
    BY <1>2, <2>1, <2>2 DEF JudgeUse
  <2> QED  BY <1>3, <2>1, <2>3 DEF JudgeUse, Near
<1>4. CASE c.place = "load"
  <2>1. LoadUse(c) /\ c.now \in Nat
    BY <1>4 DEF CallUse, CallInv
  <2> DEFINE time == c.now - (MaxLife + MaxDelay)
  <2>2. time \in Int /\ time <= clock - MaxLife
    BY <1>1, <2>1, SessionsAssumption DEF LoadUse
  <2>3. NotBefore(c, time)
    BY <2>1 DEF LoadUse
  <2> HIDE DEF time
  <2>4. NotBefore(c, time)'
    BY <1>2, <2>2, <2>3
  <2> QED  BY <1>4, <2>1, <2>4 DEF LoadUse, time
<1> QED  BY <1>3, <1>4

LEMMA OthersUse ==
    ASSUME IInv, UseInv, UsesMove, clock' = clock,
           NEW q \in Requests, call'[q] = call[q], call'[q] # None
    PROVE  CallUse(call[q])'
<1>1. /\ call[q] \in Calls /\ CallInv(call[q]) /\ CallUse(call[q])
      /\ call[q].place \in {"judge", "load"} => call[q].row \in Rows
  BY DEF IInv, TypeOK, UseInv
<1>2. \A c \in Calls :
         CallInv(c) /\ CallUse(c) /\ (c.place \in {"judge", "load"} => c.row \in Rows)
            => CallUse(c)'
  BY CallUseKept
<1> QED
  BY <1>1, <1>2 DEF CallUse, JudgeUse, LoadUse, IdleUse, NotBefore, Used, Row, Near

\* What a use is, a step that leaves the tokens, the time and settled alone keeps.
LEMMA SettledKept ==
    ASSUME UseInv, UNCHANGED <<clock, tokens, settled>>
    PROVE  UsesMove /\ \A t \in Tokens : SettledInv(t)'
BY DEF UseInv, SettledInv, UsesMove, Used, Row

\* A step of the guard puts r where c says, and touches nothing else.
LEMMA MoveUse ==
    ASSUME IInv, UseInv, NEW r \in Requests, NEW c, Move(r, c), c # None => CallUse(c)
    PROVE  UseInv'
<1>1. /\ call' = [call EXCEPT ![r] = c] /\ call \in [Requests -> Calls \cup {None}]
      /\ UNCHANGED <<clock, tokens, users, touches, settled>>
  BY DEF Move, IInv, TypeOK
<1>2. UsesMove /\ \A t \in Tokens : SettledInv(t)'
  BY <1>1, SettledKept
<1>3. \A x \in touches' : TouchInv(x)'
  BY <1>1 DEF UseInv, TouchInv
<1>4. ASSUME NEW q \in Requests, call'[q] # None
      PROVE  CallUse(call[q])'
  <2>1. CASE q = r
    <3>1. call'[q] = c
      BY <1>1, <2>1
    <3> QED
      BY <1>1, <1>4, <3>1 DEF CallUse, JudgeUse, LoadUse, IdleUse, NotBefore, Used, Row
  <2>2. CASE q # r
    BY <1>1, <1>2, <1>4, <2>2, OthersUse
  <2> QED  BY <2>1, <2>2
<1> QED  BY <1>2, <1>3, <1>4 DEF UseInv

\* At any place but judge and load, and not refused as idle, nothing is claimed.
LEMMA PlainUse ==
    ASSUME IInv, UseInv, NEW r \in Requests, NEW c, Move(r, c),
           c.place \notin {"judge", "load"}, ~c.idle
    PROVE  UseInv'
BY MoveUse DEF CallUse

LEMMA AnswerUse ==
    ASSUME IInv, UseInv, NEW r \in Requests, NEW a, Answer(r, a)
    PROVE  UseInv'
<1> DEFINE c == [Fresh(call[r].token) EXCEPT !.place = "answered", !.answer = a]
<1>1. Move(r, c) /\ c.place = "answered" /\ ~c.idle
  BY DEF Answer, Fresh
<1> HIDE DEF c
<1> QED  BY <1>1, PlainUse

LEMMA FindUse ==
    ASSUME IInv, UseInv, NEW r \in Requests, FindToken(r)
    PROVE  UseInv'
<1> DEFINE t == call[r].token
<1> DEFINE c == [call[r] EXCEPT !.place = "judge", !.row = tokens[t],
                                !.at = clock, !.used = settled[t]]
<1>1. CASE Answer(r, "401")
  BY <1>1, AnswerUse
<1>2. CASE Row(t) /\ Move(r, c)
  <2>1. /\ call[r] \in Calls /\ t \in Tokens
        /\ ~call[r].idle
    BY DEF FindToken, At, IInv, TypeOK, CallInv, CallUse, UseInv, Calls
  <2>2. /\ c.place = "judge" /\ c.token = t /\ c.row = tokens[t]
        /\ c.at = clock /\ c.used = settled[t] /\ c.idle = call[r].idle
    BY <2>1 DEF Calls
  <2>3. clock \in Nat /\ tokens[t].lastUsed \in Times /\ SettledInv(t)
    BY <1>2, <2>1 DEF IInv, TypeOK, UseInv, Row, Rows
  <2>4. Move(r, c)
    BY <1>2
  <2> HIDE DEF c
  <2>5. NotBefore(c, c.at - MaxLife)
    BY <2>2, <2>3, SessionsAssumption DEF NotBefore, Used, Times
  <2>6. JudgeUse(c)
    BY <1>2, <2>2, <2>3, <2>5, SessionsAssumption DEF JudgeUse, SettledInv, Used
  <2>7. CallUse(c)
    BY <2>1, <2>2, <2>6 DEF CallUse
  <2> QED  BY <2>4, <2>7, MoveUse
<1> QED  BY <1>1, <1>2 DEF FindToken

\* Refused as idle, the token has been unused for long; admitted, the row it has
\* is at most MaxDelay old.
LEMMA JudgeUseKept ==
    ASSUME IInv, UseInv, NEW r \in Requests, Judge(r)
    PROVE  UseInv'
<1> DEFINE row == call[r].row
<1>1. /\ call[r] \in Calls /\ call[r].place = "judge" /\ row \in Rows
      /\ JudgeUse(call[r]) /\ ~call[r].idle /\ clock \in Nat
      /\ call[r].used \in Times /\ row.lastUsed \in Times
  BY DEF Judge, At, IInv, TypeOK, UseInv, CallUse, Calls, Rows
<1>2. CASE Answer(r, "401")
  BY <1>2, AnswerUse
<1>3. CASE /\ Idle(row, clock)
           /\ Move(r, [call[r] EXCEPT !.place = "answered", !.answer = "401",
                                      !.now = clock, !.at = None, !.row = None,
                                      !.idle = TRUE])
  <2> DEFINE c == [call[r] EXCEPT !.place = "answered", !.answer = "401",
                                  !.now = clock, !.at = None, !.row = None,
                                  !.idle = TRUE]
  <2>1. c.place = "answered" /\ c.now = clock /\ c.used = call[r].used
    BY <1>1 DEF Calls
  <2>2. Move(r, c)
    BY <1>3
  <2> HIDE DEF c
  <2>3. IdleUse(c)
    <3> SUFFICES ASSUME c.used # None
                 PROVE  \/ clock - c.used > IdleTimeout - TouchInterval
                        \/ clock - c.used > IdleTimeout - (MaxLife + MaxDelay)
      BY <2>1 DEF IdleUse
    <3>1. /\ row.lastUsed # None /\ clock - row.lastUsed > IdleTimeout
          /\ Near(row.lastUsed, c.used)
      BY <1>1, <1>3, <2>1 DEF Idle, JudgeUse
    <3>2. row.lastUsed \in Nat /\ c.used \in Nat
      BY <1>1, <2>1, <3>1 DEF Times
    <3> QED  BY <1>1, <3>1, <3>2, SessionsAssumption DEF Near
  <2> QED  BY <2>1, <2>2, <2>3, MoveUse DEF CallUse
<1>4. CASE Move(r, [call[r] EXCEPT !.place = "load", !.now = clock, !.at = None,
                                   !.used = None])
  <2> DEFINE c == [call[r] EXCEPT !.place = "load", !.now = clock, !.at = None,
                                  !.used = None]
  <2>1. /\ c.place = "load" /\ c.now = clock /\ c.row = row
        /\ c.token = call[r].token /\ c.idle = call[r].idle
    BY <1>1 DEF Calls
  <2>2. Move(r, c)
    BY <1>4
  <2> HIDE DEF c
  <2>3. NotBefore(c, c.now - (MaxLife + MaxDelay))
    <3> SUFFICES ASSUME Row(c.token), row.lastUsed # None
                 PROVE  /\ Used(c.token) # None
                        /\ \/ Used(c.token) >= row.lastUsed
                           \/ Used(c.token) >= clock - (MaxLife + MaxDelay)
      BY <2>1 DEF NotBefore
    <3>1. /\ Used(c.token) # None
          /\ \/ Used(c.token) >= row.lastUsed
             \/ Used(c.token) >= call[r].at - MaxLife
      BY <1>1, <2>1 DEF JudgeUse, NotBefore
    <3>2. Used(c.token) \in Nat
      BY <3>1 DEF Used, Row, Rows, Times
    <3>3. call[r].at \in Nat /\ clock <= call[r].at + MaxDelay
      BY <1>1 DEF JudgeUse
    <3> QED  BY <1>1, <3>1, <3>2, <3>3, SessionsAssumption
  <2>4. LoadUse(c)
    BY <1>1, <2>1, <2>3, SessionsAssumption DEF LoadUse
  <2> QED  BY <1>1, <2>1, <2>2, <2>4, MoveUse DEF CallUse
<1> QED  BY <1>2, <1>3, <1>4 DEF Judge

\* A request in its handler or answered claims nothing new.
LEMMA HandlerUse ==
    ASSUME IInv, UseInv, UsesMove, clock' = clock, NEW r \in Requests,
           NEW c, call' = [call EXCEPT ![r] = c],
           c.place \notin {"judge", "load"}, ~c.idle,
           \A t \in Tokens : SettledInv(t)',
           \A x \in touches' : TouchInv(x)'
    PROVE  UseInv'
<1>1. ASSUME NEW q \in Requests, call'[q] # None
      PROVE  CallUse(call[q])'
  <2>1. CASE q = r
    <3>1. call'[q] = c
      BY <2>1 DEF IInv, TypeOK
    <3> QED  BY <3>1 DEF CallUse
  <2>2. CASE q # r
    <3>1. call'[q] = call[q]
      BY <2>2 DEF IInv, TypeOK
    <3> QED  BY <1>1, <3>1, OthersUse
  <2> QED  BY <2>1, <2>2
<1> QED  BY <1>1 DEF UseInv

\* A use that is not recorded is near the one that is; one that is to be recorded
\* is as old as the row was judged.
LEMMA LoadUseKept ==
    ASSUME IInv, UseInv, NEW r \in Requests, LoadUser(r)
    PROVE  UseInv'
<1> DEFINE c0 == call[r]
<1> DEFINE t == call[r].token
<1>1. /\ c0 # None /\ c0 \in Calls /\ c0.place = "load" /\ c0.row \in Rows
      /\ c0.now \in Nat /\ t \in Tokens /\ tokens[t] # None
      /\ LoadUse(c0) /\ ~c0.idle
      /\ clock \in Nat /\ c0.row.lastUsed \in Times
  BY DEF LoadUser, At, IInv, TypeOK, UseInv, CallUse, CallInv, Calls, Rows
<1>2. CASE Owner[t] \notin users /\ Answer(r, "401")
  BY <1>2, AnswerUse
<1>3. CASE ~(Owner[t] \notin users /\ Answer(r, "401"))
  <2> DEFINE c == [c0 EXCEPT !.place = "handler", !.admitted = TRUE,
                             !.row = None, !.now = None]
  <2>1. /\ call' = [call EXCEPT ![r] = c]
        /\ UNCHANGED <<clock, tokens, users>>
        /\ \/ /\ Throttled(c0.row, c0.now)
              /\ settled' = [settled EXCEPT ![t] = Later(@, c0.now)]
              /\ UNCHANGED touches
           \/ /\ touches' = touches \cup {[token |-> t, at |-> c0.now]}
              /\ UNCHANGED settled
    BY <1>1, <1>3 DEF LoadUser, IInv, TypeOK
  <2>2. c.place = "handler" /\ c.idle = c0.idle
    BY <1>1 DEF Calls
  <2> HIDE DEF c
  <2>3. UsesMove
    BY <2>1 DEF UsesMove, Used, Row
  <2>4. ASSUME NEW u \in Tokens
        PROVE  SettledInv(u)'
    <3>1. SettledInv(u) /\ settled[u] \in Times
      BY DEF UseInv, IInv, TypeOK
    <3>2. CASE settled'[u] = settled[u]
      BY <2>1, <3>1, <3>2 DEF SettledInv, Used, Row
    <3>3. CASE settled'[u] # settled[u]
      <4>1. Throttled(c0.row, c0.now) /\ u = t /\ settled'[u] = c0.now
        BY <2>1, <3>3 DEF IInv, TypeOK, Later
      <4>2. c0.row.lastUsed \in Nat /\ c0.now - c0.row.lastUsed < TouchInterval
        BY <1>1, <4>1 DEF Throttled, Times
      <4>3. c0.now <= clock
        BY <1>1 DEF LoadUse
      <4>4. ASSUME Row(u)
            PROVE  Used(u) # None /\ Near(Used(u), c0.now)
        <5>1. /\ Used(u) # None
              /\ \/ Used(u) >= c0.row.lastUsed
                 \/ Used(u) >= c0.now - (MaxLife + MaxDelay)
          BY <1>1, <4>1, <4>2, <4>4, SessionsAssumption DEF LoadUse, NotBefore
        <5>2. Used(u) \in Nat
          BY <4>4, <5>1 DEF Used, Row, Rows, Times
        <5>3. c0.now \in Nat
          BY <1>1
        <5> HIDE DEF c0
        <5> QED  BY <4>2, <5>1, <5>2, <5>3, SessionsAssumption DEF Near
      <4> QED  BY <1>1, <2>1, <4>1, <4>3, <4>4 DEF SettledInv, Used, Row
    <3> QED  BY <3>2, <3>3
  <2>5. ASSUME NEW x \in touches'
        PROVE  TouchInv(x)'
    <3>1. CASE x \in touches
      BY <2>1, <3>1 DEF UseInv, TouchInv
    <3>2. CASE x \notin touches
      <4>1. x = [token |-> t, at |-> c0.now]
        BY <2>1, <3>2
      <4>2. c0.now <= clock /\ clock <= c0.now + MaxLife
        BY <1>1 DEF LoadUse
      <4> QED  BY <1>1, <2>1, <4>1, <4>2 DEF TouchInv
    <3> QED  BY <3>1, <3>2
  <2> QED  BY <1>1, <2>1, <2>2, <2>3, <2>4, <2>5, HandlerUse
<1> QED  BY <1>2, <1>3

\* A logout leaves the time of the last use alone.
LEMMA RevokeUse ==
    ASSUME IInv, UseInv, NEW ts, Revoke(ts), UNCHANGED <<clock, settled, touches>>
    PROVE  /\ UsesMove
           /\ \A t \in Tokens : SettledInv(t)'
           /\ \A x \in touches' : TouchInv(x)'
<1>1. ASSUME NEW t \in Tokens
      PROVE  /\ tokens[t] # None => tokens'[t] # None
             /\ Row(t)' => Row(t) /\ Used(t)' = Used(t)
  <2>1. CASE Row(t)
    <3>1. tokens'[t] = tokens[t] \/ tokens'[t] = [tokens[t] EXCEPT !.revoked = TRUE]
      BY DEF Revoke
    <3>2. tokens'[t] \in Rows /\ tokens'[t].lastUsed = tokens[t].lastUsed
      BY <2>1, <3>1 DEF Row, Rows
    <3> QED  BY <2>1, <3>2, SessionsAssumption DEF Used
  <2>2. CASE ~Row(t)
    <3>1. tokens'[t] = tokens[t]
      BY <2>2 DEF Revoke
    <3> QED  BY <2>2, <3>1 DEF Row
  <2> QED  BY <2>1, <2>2
<1>2. UsesMove
  BY <1>1 DEF UsesMove
<1>3. \A t \in Tokens : SettledInv(t)'
  BY <1>1 DEF UseInv, SettledInv, Near
<1>4. \A x \in touches' : TouchInv(x)'
  <2>1. \A x \in touches : x.token \in Tokens
    BY DEF IInv, TypeOK
  <2> QED  BY <1>1, <2>1 DEF UseInv, TouchInv
<1> QED  BY <1>2, <1>3, <1>4

LEMMA HandlerStepUse ==
    ASSUME IInv, UseInv, NEW r \in Requests,
           Respond(r) \/ Logout(r) \/ LogoutAll(r) \/ LogoutFails(r)
    PROVE  UseInv'
<1>1. /\ call[r] \in Calls /\ call[r].place = "handler" /\ ~call[r].idle
      /\ UNCHANGED <<clock, settled, touches>>
      /\ \E a \in Answers : Finish(r, a)
  BY DEF Respond, Logout, LogoutAll, LogoutFails, At, IInv, TypeOK, UseInv, CallUse, Answers
<1>2. (\E ts : Revoke(ts)) \/ UNCHANGED tokens
  BY DEF Respond, Logout, LogoutAll, LogoutFails
<1>3. /\ UsesMove
      /\ \A t \in Tokens : SettledInv(t)'
      /\ \A x \in touches' : TouchInv(x)'
  <2>1. CASE \E ts : Revoke(ts)
    BY <1>1, <2>1, RevokeUse
  <2>2. CASE UNCHANGED tokens
    BY <1>1, <2>2, SettledKept DEF UseInv, TouchInv
  <2> QED  BY <1>2, <2>1, <2>2
<1>4. PICK a \in Answers : Finish(r, a)
  BY <1>1
<1> DEFINE c == [call[r] EXCEPT !.place = "answered", !.answer = a]
<1>5. call' = [call EXCEPT ![r] = c]
  BY <1>1, <1>4 DEF Finish, IInv, TypeOK
<1>6. c.place = "answered" /\ ~c.idle
  BY <1>1 DEF Calls
<1> HIDE DEF c
<1> QED  BY <1>1, <1>3, <1>5, <1>6, HandlerUse

-----------------------------------------------------------------------------
LEMMA ServiceUse ==
    ASSUME IInv, UseInv,
           \/ \E t \in Tokens : IssueToken(t)
           \/ \E u \in Users : DeleteUser(u)
    PROVE  UseInv'
<1>1. /\ UNCHANGED <<clock, call, touches, settled>>
      /\ \A t \in Tokens :
            \/ tokens'[t] = tokens[t]
            \/ tokens[t] = None
            \/ tokens[t] # None /\ tokens'[t] = Gone
  BY SessionsAssumption DEF IssueToken, DeleteUser, Row, IInv, TypeOK
<1>2. Gone # None /\ Gone \notin Rows
  BY SessionsAssumption
<1>3. UsesMove
  BY <1>1, <1>2 DEF UsesMove, Row, Used
<1>4. \A t \in Tokens : SettledInv(t)'
  BY <1>1, <1>2 DEF UseInv, SettledInv, Row, Used
<1>5. \A x \in touches' : TouchInv(x)'
  <2>1. \A x \in touches : x.token \in Tokens
    BY DEF IInv, TypeOK
  <2> QED  BY <1>1, <1>2, <2>1 DEF UseInv, TouchInv
<1>6. \A q \in Requests : call'[q] # None => CallUse(call[q])'
  BY <1>1, <1>3, OthersUse
<1> QED  BY <1>4, <1>5, <1>6 DEF UseInv

\* A touch may overtake a newer one, but not by more than MaxLife.
LEMMA TouchUse ==
    ASSUME IInv, UseInv, NEW x \in touches, Touch(x) \/ TouchFails(x)
    PROVE  UseInv'
<1>1. /\ x.token \in Tokens /\ x.at \in Nat /\ clock \in Nat
      /\ TouchInv(x) /\ x.at <= clock /\ clock <= x.at + MaxLife
      /\ touches' \subseteq touches
      /\ UNCHANGED <<clock, call>>
  BY DEF IInv, TypeOK, UseInv, TouchInv, Touch, TouchFails
<1>2. CASE TouchFails(x)
  <2>1. UsesMove /\ \A t \in Tokens : SettledInv(t)'
    BY <1>2, SettledKept DEF TouchFails
  <2>2. \A q \in Requests : call'[q] # None => CallUse(call[q])'
    BY <1>1, <2>1, OthersUse
  <2> QED  BY <1>1, <1>2, <2>1, <2>2 DEF UseInv, TouchInv, TouchFails
<1>3. CASE Touch(x)
  <2>1. ASSUME NEW t \in Tokens
        PROVE  /\ tokens[t] # None => tokens'[t] # None
               /\ Row(t)' => Row(t)
               /\ Row(t)' => IF t = x.token THEN Used(t)' = x.at ELSE Used(t)' = Used(t)
    <3>1. CASE t = x.token /\ Row(t)
      <4>1. tokens'[t] = [tokens[t] EXCEPT !.lastUsed = x.at]
        BY <1>3, <3>1 DEF Touch, IInv, TypeOK
      <4>2. tokens'[t] \in Rows /\ tokens'[t].lastUsed = x.at
        BY <1>1, <3>1, <4>1 DEF Row, Rows, Times
      <4> QED  BY <3>1, <4>2, SessionsAssumption DEF Used
    <3>2. CASE ~(t = x.token /\ Row(t))
      <4>1. tokens'[t] = tokens[t]
        BY <1>3, <3>2 DEF Touch, IInv, TypeOK
      <4> QED  BY <3>2, <4>1 DEF Row, Used
    <3> QED  BY <3>1, <3>2
  <2>2. UsesMove
    <3>1. x.at >= clock - MaxLife
      BY <1>1, SessionsAssumption
    <3> QED  BY <1>1, <2>1, <3>1 DEF UsesMove
  <2>3. ASSUME NEW t \in Tokens
        PROVE  SettledInv(t)'
    <3>1. SettledInv(t) /\ settled[t] \in Times
      BY DEF UseInv, IInv, TypeOK
    <3>2. CASE t # x.token
      <4>1. settled'[t] = settled[t]
        BY <1>3, <3>2 DEF Touch, IInv, TypeOK
      <4> QED  BY <1>1, <2>1, <3>1, <3>2, <4>1 DEF SettledInv, Near
    <3>3. CASE t = x.token
      <4>1. settled'[t] = Later(settled[t], x.at)
        BY <1>3, <3>3 DEF Touch, IInv, TypeOK
      <4>2. \/ settled'[t] = x.at
            \/ settled'[t] = settled[t] /\ settled[t] \in Nat /\ settled[t] <= clock
        BY <3>1, <4>1 DEF Later, Times, SettledInv
      <4>3. settled'[t] \in Nat /\ settled'[t] <= clock
        BY <1>1, <4>2
      <4>4. Near(x.at, settled'[t])
        BY <1>1, <4>3, SessionsAssumption DEF Near
      <4>5. tokens'[t] # None
        BY <1>1, <2>1, <3>3 DEF TouchInv
      <4>6. Row(t)' => Used(t)' = x.at /\ x.at # None
        BY <1>1, <2>1, <3>3, SessionsAssumption
      <4> QED  BY <1>1, <4>3, <4>4, <4>5, <4>6 DEF SettledInv
    <3> QED  BY <3>2, <3>3
  <2>4. ASSUME NEW y \in touches'
        PROVE  TouchInv(y)'
    <3>1. y \in touches /\ y.token \in Tokens /\ TouchInv(y)
      BY <1>1 DEF IInv, TypeOK, UseInv
    <3> QED  BY <1>1, <2>1, <3>1 DEF TouchInv
  <2>5. \A q \in Requests : call'[q] # None => CallUse(call[q])'
    BY <1>1, <2>2, OthersUse
  <2> QED  BY <2>3, <2>4, <2>5 DEF UseInv
<1> QED  BY <1>2, <1>3

\* Time does not pass beyond the delays.
LEMMA TickUse ==
    ASSUME IInv, UseInv, Tick
    PROVE  UseInv'
<1>1. clock \in Nat /\ clock' = clock + 1 /\ UNCHANGED <<tokens, users, call, touches, settled>>
  BY DEF Tick, IInv, TypeOK
<1>2. ASSUME NEW t \in Tokens
      PROVE  SettledInv(t)'
  <2>1. SettledInv(t) /\ settled[t] \in Times
    BY DEF UseInv, IInv, TypeOK
  <2>2. settled[t] # None => settled[t] <= clock'
    BY <1>1, <2>1 DEF SettledInv, Times
  <2> QED  BY <1>1, <2>1, <2>2 DEF SettledInv, Used, Row
<1>3. ASSUME NEW x \in touches'
      PROVE  TouchInv(x)'
  <2>1. x \in touches /\ x.at \in Nat /\ TouchInv(x) /\ clock < x.at + MaxLife
    BY <1>1 DEF UseInv, IInv, TypeOK, Tick
  <2> QED  BY <1>1, <2>1, SessionsAssumption DEF TouchInv
<1>4. ASSUME NEW q \in Requests, call'[q] # None
      PROVE  CallUse(call[q])'
  <2>1. call[q] # None /\ call[q] \in Calls /\ CallInv(call[q]) /\ CallUse(call[q])
    BY <1>1, <1>4 DEF IInv, TypeOK, UseInv
  <2>2. CASE call[q].place = "judge"
    <3>1. JudgeUse(call[q]) /\ clock < call[q].at + MaxDelay
      BY <2>1, <2>2 DEF CallUse, Tick, At
    <3>2. call[q].at <= clock' /\ clock' <= call[q].at + MaxDelay
      BY <1>1, <3>1, SessionsAssumption DEF JudgeUse
    <3>3. JudgeUse(call[q])'
      BY <1>1, <3>1, <3>2 DEF JudgeUse, NotBefore, Used, Row
    <3> QED  BY <1>1, <2>1, <2>2, <3>3 DEF CallUse
  <2>3. CASE call[q].place = "load"
    <3>1. LoadUse(call[q]) /\ clock < call[q].now + MaxLife /\ call[q].now \in Nat
      BY <2>1, <2>3 DEF CallUse, CallInv, Tick, At
    <3>2. call[q].now <= clock' /\ clock' <= call[q].now + MaxLife
      BY <1>1, <3>1, SessionsAssumption DEF LoadUse
    <3>3. LoadUse(call[q])'
      BY <1>1, <3>1, <3>2 DEF LoadUse, NotBefore, Used, Row
    <3> QED  BY <1>1, <2>1, <2>3, <3>3 DEF CallUse
  <2>4. CASE call[q].place \notin {"judge", "load"}
    BY <1>1, <2>1, <2>4 DEF CallUse, IdleUse
  <2> QED  BY <2>2, <2>3, <2>4
<1> QED  BY <1>2, <1>3, <1>4 DEF UseInv

LEMMA PresentUse ==
    ASSUME IInv, UseInv, NEW r \in Requests,
           PresentNone(r) \/ \E t \in Tokens : Present(r, t)
    PROVE  UseInv'
<1>1. CASE \E t \in Tokens : Present(r, t)
  <2>1. PICK t \in Tokens : Present(r, t)
    BY <1>1
  <2> DEFINE c == [Fresh(t) EXCEPT !.live = Live(t)]
  <2>2. Move(r, c) /\ c.place = "find" /\ ~c.idle
    BY <2>1 DEF Present, Fresh
  <2> HIDE DEF c
  <2> QED  BY <2>2, PlainUse
<1>2. CASE PresentNone(r)
  <2>1. PICK a \in {"401", "done"} :
           Move(r, [Fresh(None) EXCEPT !.place = "answered", !.answer = a])
    BY <1>2 DEF PresentNone
  <2> DEFINE c == [Fresh(None) EXCEPT !.place = "answered", !.answer = a]
  <2>2. Move(r, c) /\ c.place = "answered" /\ ~c.idle
    BY <2>1 DEF Fresh
  <2> HIDE DEF c
  <2> QED  BY <2>2, PlainUse
<1> QED  BY <1>1, <1>2

LEMMA UseInvariance == Spec => []UseInv
<1>1. Init => UseInv
  BY DEF Init, UseInv, SettledInv
<1>2. IInv /\ UseInv /\ [Next]_vars => UseInv'
  <2> SUFFICES ASSUME IInv, UseInv, [Next]_vars  PROVE UseInv'
    OBVIOUS
  <2>1. CASE UNCHANGED vars
    <3>1. UsesMove /\ \A t \in Tokens : SettledInv(t)'
      BY <2>1, SettledKept DEF vars
    <3>2. \A q \in Requests : call'[q] # None => CallUse(call[q])'
      BY <2>1, <3>1, OthersUse DEF vars
    <3> QED  BY <2>1, <3>1, <3>2 DEF vars, UseInv, TouchInv
  <2>2. ASSUME NEW r \in Requests, End(r)
        PROVE  UseInv'
    BY <2>2, MoveUse DEF End
  <2>3. ASSUME NEW r \in Requests, StoreFails(r)
        PROVE  UseInv'
    BY <2>3, AnswerUse DEF StoreFails
  <2> QED
    BY <2>1, <2>2, <2>3, ServiceUse, PresentUse, FindUse, JudgeUseKept, LoadUseKept,
       HandlerStepUse, TouchUse, TickUse DEF Next
<1> QED  BY <1>1, <1>2, Inductive, PTL DEF Spec

\* A token refused as idle has been unused for IdleTimeout, less what the throttle
\* of the touches and their overtaking may hide (guard.go:189-258).
THEOREM IdleMeansUnused == Spec => []IdleIsIdle
<1>1. UseInv => IdleIsIdle
  BY DEF UseInv, CallUse, IdleUse, IdleIsIdle
<1> QED  BY <1>1, UseInvariance, PTL
================================================================================
