------------------------------- MODULE Sessions -------------------------------
(***************************************************************************)
(* The auth guard (pkg/auth/guard.go) over the token table of the          *)
(* application skeleton (AuthService.go.tmpl), under concurrent requests,  *)
(* logouts, deleted users, a failing store, and the detached touches that  *)
(* record the use of a token.                                              *)
(*                                                                         *)
(* A step is one statement on the database, or what the code does between  *)
(* two of them.  Time is counted in ticks.  MaxDelay bounds the time from  *)
(* reading a row to reading the clock, MaxLife that from reading the clock *)
(* to the end of the touch (its context has a deadline of five seconds).   *)
(***************************************************************************)
EXTENDS Integers, FiniteSets

CONSTANTS
    Requests,       \* goroutines serving requests
    Tokens,         \* what auth_tokens may come to hold
    Users,
    Owner,          \* [Tokens -> Users]
    None,           \* no token, no time, no request
    Gone,           \* a row that was deleted
    TokenTTL,       \* AuthConfig.TokenTTL in ticks, 0 for none
    IdleTimeout,    \* GuardConfig.IdleTimeout in ticks, 0 for none
    TouchInterval,  \* GuardConfig.TouchInterval in ticks
    MaxDelay,       \* longest time from a row to its judgment, in ticks
    MaxLife,        \* longest time from the judgment to the end of the touch
    MaxClock        \* bound of the model: time stops here

VARIABLES
    clock,
    tokens,     \* auth_tokens: [Tokens -> row, or None before it is issued]
    users,      \* rows of users
    call,       \* per request in the guard or its handler, or None
    touches,    \* detached goroutines: the token and when it was used
    settled     \* history: last use that is recorded or need not be

vars == <<clock, tokens, users, call, touches, settled>>

Times == Nat \cup {None}
Rows == [expires : Times, revoked : BOOLEAN, lastUsed : Times]
Answers == {"none", "401", "503", "500", "done"}
Calls == [place : {"find", "judge", "load", "handler", "answered"},
          token : Tokens \cup {None},
          row : Rows \cup {None},       \* the Principal
          at : Times,                   \* when row was read, until it is judged
          now : Times,                  \* the guard's variable now
          answer : Answers,
          admitted : BOOLEAN,           \* history: the guard let it through
          idle : BOOLEAN,               \* history: refused as idle
          live : BOOLEAN,               \* history: was the token live before?
          used : Times]                 \* history: settled when row was read

ASSUME SessionsAssumption ==
    /\ Owner \in [Tokens -> Users]
    /\ None \notin Tokens \cup Nat \cup Rows \cup Calls
    /\ Gone \notin Rows \cup {None}
    /\ TokenTTL \in Nat
    /\ IdleTimeout \in Nat
    /\ TouchInterval \in Nat \ {0}
    /\ MaxDelay \in Nat
    /\ MaxLife \in Nat
    /\ MaxClock \in Nat

TypeOK ==
    /\ clock \in Nat
    /\ tokens \in [Tokens -> Rows \cup {None, Gone}]
    /\ users \subseteq Users
    /\ call \in [Requests -> Calls \cup {None}]
    /\ touches \subseteq [token : Tokens, at : Nat]
    /\ settled \in [Tokens -> Times]
    /\ \A r \in Requests : call[r] # None /\ call[r].place \in {"judge", "load"} =>
          call[r].row \in Rows

-----------------------------------------------------------------------------
Row(t) == tokens[t] \in Rows
At(r, place) == call[r] # None /\ call[r].place = place

Expired(row, now) == row.expires # None /\ now > row.expires
Idle(row, now) ==
    IdleTimeout > 0 /\ row.lastUsed # None /\ now - row.lastUsed > IdleTimeout

\* A token that was issued, not revoked, has not expired, and has a user.
Live(t) ==
    /\ Row(t)
    /\ ~tokens[t].revoked
    /\ ~Expired(tokens[t], clock)

Later(s, u) == IF s = None \/ s < u THEN u ELSE s

Init ==
    /\ clock = 0
    /\ tokens = [t \in Tokens |-> None]
    /\ users = Users
    /\ call = [r \in Requests |-> None]
    /\ touches = {}
    /\ settled = [t \in Tokens |-> None]

-----------------------------------------------------------------------------
(* The application's service. *)

\* IssueToken, the end of Register and of Login.
IssueToken(t) ==
    /\ tokens[t] = None
    /\ Owner[t] \in users
    /\ tokens' = [tokens EXCEPT ![t] =
                     [expires  |-> IF TokenTTL > 0 THEN clock + TokenTTL ELSE None,
                      revoked  |-> FALSE,
                      lastUsed |-> None]]
    /\ UNCHANGED <<clock, users, call, touches, settled>>

\* A user is deleted, and the foreign key cascades to the tokens.
DeleteUser(u) ==
    /\ u \in users
    /\ users' = users \ {u}
    /\ tokens' = [t \in Tokens |-> IF Owner[t] = u /\ Row(t) THEN Gone ELSE tokens[t]]
    /\ UNCHANGED <<clock, call, touches, settled>>

-----------------------------------------------------------------------------
(* Guard.authenticate *)

Move(r, c) ==
    /\ call' = [call EXCEPT ![r] = c]
    /\ UNCHANGED <<clock, tokens, users, touches, settled>>

\* What the guard starts with, and what it answers.
Fresh(t) ==
    [place |-> "find", token |-> t, row |-> None, at |-> None, now |-> None,
     answer |-> "none", admitted |-> FALSE, idle |-> FALSE, live |-> FALSE,
     used |-> None]
Answer(r, a) ==
    Move(r, [Fresh(call[r].token) EXCEPT !.place = "answered", !.answer = a])

\* A request presents a token to Required or to Optional.
Present(r, t) ==
    /\ call[r] = None
    /\ tokens[t] # None
    /\ Move(r, [Fresh(t) EXCEPT !.live = Live(t)])

\* It presents none: Required refuses, Optional lets it through.
PresentNone(r) ==
    /\ call[r] = None
    /\ \E a \in {"401", "done"} :
          Move(r, [Fresh(None) EXCEPT !.place = "answered", !.answer = a])

\* FindToken: the row, ErrTokenNotFound, or a failure of the store.
FindToken(r) ==
    /\ At(r, "find")
    /\ LET t == call[r].token IN
       \/ ~Row(t) /\ Answer(r, "401")
       \/ /\ Row(t)
          /\ Move(r, [call[r] EXCEPT !.place = "judge", !.row = tokens[t],
                                     !.at = clock, !.used = settled[t]])
StoreFailsUnauthorized(r) ==
    /\ At(r, "find") \/ At(r, "load")
    /\ Answer(r, "401")
StoreFails(r) ==
    /\ At(r, "find") \/ At(r, "load")
    /\ Answer(r, "503")

\* The clock is read and the row judged.
Judge(r) ==
    /\ At(r, "judge")
    /\ LET row == call[r].row IN
       \/ /\ row.revoked \/ Expired(row, clock)
          /\ Answer(r, "401")
       \/ /\ ~row.revoked /\ ~Expired(row, clock) /\ Idle(row, clock)
          /\ Move(r, [call[r] EXCEPT !.place = "answered", !.answer = "401",
                                     !.now = clock, !.at = None, !.row = None,
                                     !.idle = TRUE])
       \/ /\ ~row.revoked /\ ~Expired(row, clock) /\ ~Idle(row, clock)
          /\ Move(r, [call[r] EXCEPT !.place = "load", !.now = clock, !.at = None,
                                     !.used = None])

\* The throttle of touch: was the token touched less than TouchInterval ago?
ThrottledByIdle(row, now) == row.lastUsed # None /\ now - row.lastUsed < IdleTimeout
Throttled(row, now) == row.lastUsed # None /\ now - row.lastUsed < TouchInterval

\* LoadUser, and with the user found, store and touch.
LoadUser(r) ==
    /\ At(r, "load")
    /\ LET c == call[r] IN
       \/ /\ Owner[c.token] \notin users
          /\ Answer(r, "401")
       \/ /\ Owner[c.token] \in users
          /\ call' = [call EXCEPT ![r].place = "handler", ![r].admitted = TRUE,
                                  ![r].row = None, ![r].now = None]
          /\ \/ /\ Throttled(c.row, c.now)
                /\ settled' = [settled EXCEPT ![c.token] = Later(@, c.now)]
                /\ UNCHANGED touches
             \/ /\ ~Throttled(c.row, c.now)
                /\ touches' = touches \cup {[token |-> c.token, at |-> c.now]}
                /\ UNCHANGED settled
          /\ UNCHANGED <<clock, tokens, users>>

-----------------------------------------------------------------------------
(* The handler. *)

Finish(r, a) ==
    call' = [call EXCEPT ![r].place = "answered", ![r].answer = a]

\* Any handler that leaves the tokens alone.
Respond(r) ==
    /\ At(r, "handler")
    /\ Finish(r, "done")
    /\ UNCHANGED <<clock, tokens, users, touches, settled>>

\* Logout revokes the token of the request, LogoutAll all those of its user.
Revoke(ts) ==
    tokens' = [t \in Tokens |-> IF t \in ts /\ Row(t)
                                THEN [tokens[t] EXCEPT !.revoked = TRUE]
                                ELSE tokens[t]]
Logout(r) ==
    /\ At(r, "handler")
    /\ Revoke({call[r].token})
    /\ Finish(r, "done")
    /\ UNCHANGED <<clock, users, touches, settled>>
LogoutAll(r) ==
    /\ At(r, "handler")
    /\ Revoke({t \in Tokens : Owner[t] = Owner[call[r].token]})
    /\ Finish(r, "done")
    /\ UNCHANGED <<clock, users, touches, settled>>
\* The statement fails, perhaps after it took effect.
LogoutFails(r) ==
    /\ At(r, "handler")
    /\ \/ UNCHANGED tokens
       \/ Revoke({call[r].token})
       \/ Revoke({t \in Tokens : Owner[t] = Owner[call[r].token]})
    /\ Finish(r, "500")
    /\ UNCHANGED <<clock, users, touches, settled>>

\* The request is over.
End(r) ==
    /\ At(r, "answered")
    /\ Move(r, None)

-----------------------------------------------------------------------------
(* touch, in its goroutine: an UPDATE of one column, in any order. *)

TouchWritesRow(x) ==
    /\ x \in touches
    /\ touches' = touches \ {x}
    /\ tokens' = [tokens EXCEPT ![x.token] =
                     IF Row(x.token) THEN [@ EXCEPT !.lastUsed = x.at,
                                                    !.revoked = FALSE] ELSE @]
    /\ settled' = [settled EXCEPT ![x.token] = Later(@, x.at)]
    /\ UNCHANGED <<clock, users, call>>
Touch(x) ==
    /\ x \in touches
    /\ touches' = touches \ {x}
    /\ tokens' = [tokens EXCEPT ![x.token] =
                     IF Row(x.token) THEN [@ EXCEPT !.lastUsed = x.at] ELSE @]
    /\ settled' = [settled EXCEPT ![x.token] = Later(@, x.at)]
    /\ UNCHANGED <<clock, users, call>>

\* It fails, runs out of time, or ends with the process.
TouchFails(x) ==
    /\ x \in touches
    /\ touches' = touches \ {x}
    /\ UNCHANGED <<clock, tokens, users, call, settled>>

-----------------------------------------------------------------------------
\* Time passes, up to the delays.
Tick ==
    /\ clock < MaxClock
    /\ \A r \in Requests :
          /\ At(r, "judge") => clock < call[r].at + MaxDelay
          /\ At(r, "load") => clock < call[r].now + MaxLife
    /\ \A x \in touches : clock < x.at + MaxLife
    /\ clock' = clock + 1
    /\ UNCHANGED <<tokens, users, call, touches, settled>>

Next ==
    \/ \E t \in Tokens : IssueToken(t)
    \/ \E u \in Users : DeleteUser(u)
    \/ \E r \in Requests :
          \/ \E t \in Tokens : Present(r, t)
          \/ PresentNone(r)
          \/ FindToken(r)
          \/ StoreFails(r)
          \/ Judge(r)
          \/ LoadUser(r)
          \/ Respond(r)
          \/ Logout(r)
          \/ LogoutAll(r)
          \/ LogoutFails(r)
          \/ End(r)
    \/ \E x \in touches : Touch(x) \/ TouchFails(x)
    \/ Tick

Spec == Init /\ [][Next]_vars

-----------------------------------------------------------------------------
(* Properties. *)

\* A revoked, expired or deleted token is never let through again: a request
\* that presents a token no longer live is refused, whatever touches, logouts
\* and other requests are in flight.
DeadStaysOut == \A r \in Requests : call[r] # None /\ call[r].admitted => call[r].live

\* A token is refused only for a reason: by the time a request with a token is
\* answered 401, the token is really dead, or it was refused as idle.  "A
\* database outage must not look like mass logout" (guard.go:45-46).
RefusedForReason ==
    \A r \in Requests :
        /\ call[r] # None /\ call[r].token # None
        /\ call[r].answer = "401" /\ ~call[r].idle
        => ~Live(call[r].token)

\* What IdleTimeout really bounds: a token refused as idle has been unused for
\* that long, less the larger of the TouchInterval in which a use is not recorded
\* and the time by which a touch of an older use may overtake a newer one.
IdleIsIdle ==
    \A r \in Requests :
        call[r] # None /\ call[r].idle /\ call[r].used # None =>
            \/ call[r].now - call[r].used > IdleTimeout - TouchInterval
            \/ call[r].now - call[r].used > IdleTimeout - (MaxLife + MaxDelay)
==============================================================================
