------------------------------ MODULE RateLimit ------------------------------
(***************************************************************************)
(* The token-bucket limiter (pkg/router/middleware/ratelimit.go) under     *)
(* concurrent requests, with its janitor.                                  *)
(*                                                                         *)
(* Time is counted in ticks and a bucket in the ticks its tokens took to   *)
(* earn: a token is worth Cost = 1/rate ticks, so a bucket earns one unit  *)
(* a tick.  The arithmetic of the code, tokens += elapsed * rate, is the   *)
(* same in these units, without its rounding.                              *)
(*                                                                         *)
(* Both allow and the janitor read the clock before they take l.mu, so the *)
(* order of the critical sections need not be the order of the readings.   *)
(* MaxDelay bounds the time from a reading to the critical section.        *)
(***************************************************************************)
EXTENDS Integers

CONSTANTS
    Keys,           \* clients, as KeyFunc tells them apart
    Goroutines,     \* goroutines serving requests
    Absent,         \* no bucket, no request, no sweep
    Second,         \* ticks in a second
    Cost,           \* ticks that earn one token: 60 * Second / RequestsPerMinute
    Burst,          \* RateLimitConfig.Burst after its default
    IdleCutoff,     \* ten minutes, in ticks
    SweepEvery,     \* five minutes, in ticks
    MaxDelay,       \* most ticks between reading the clock and locking l.mu
    MaxClock        \* bound of the model: time stops here

Capacity == Burst * Cost

\* A bucket never exceeds its capacity, and one late reading takes at most
\* the delay away from it.
Buckets == [tokens : -MaxDelay..Capacity, lastSeen : Nat]
Calls == [key : Keys, now : Nat]

ASSUME RateLimitAssumption ==
    /\ Absent \notin Int \cup Buckets \cup Calls
    /\ Second \in Nat \ {0}
    /\ Cost \in Nat \ {0}
    /\ Burst \in Nat \ {0}
    /\ IdleCutoff \in Nat
    /\ SweepEvery \in 1..IdleCutoff
    /\ MaxDelay \in 0..SweepEvery
    /\ MaxClock \in Nat

VARIABLES
    clock,      \* the monotonic clock
    buckets,    \* l.buckets: [Keys -> [tokens, lastSeen] or Absent]
    call,       \* per request in allow: its key and its variable now
    cutoff,     \* the janitor's variable, Absent while it awaits the ticker
    nextSweep,  \* when the ticker fires next
    decided,    \* history: when the last decision on a key was taken
    window,     \* history: start of an observation window, any time
    spent,      \* history: Cost times the requests allowed since then
    evicted     \* history: how often the bucket was evicted since then

limiterVars == <<clock, buckets, call, cutoff, nextSweep, decided, window, spent, evicted>>
janitorVars == <<cutoff, nextSweep>>
historyVars == <<decided, window, spent, evicted>>

LimiterTypeOK ==
    /\ clock \in Nat
    /\ buckets \in [Keys -> Buckets \cup {Absent}]
    /\ call \in [Goroutines -> Calls \cup {Absent}]
    /\ cutoff \in Int \cup {Absent}
    /\ nextSweep \in Nat
    /\ decided \in [Keys -> Nat]
    /\ window \in Nat
    /\ spent \in [Keys -> Nat]
    /\ evicted \in [Keys -> Nat]

-----------------------------------------------------------------------------
(* The bucket. *)

Least(a, b) == IF a <= b THEN a ELSE b

\* A bucket at the time now, before the request at hand is charged.  It is
\* created full; a clock reading older than lastSeen takes tokens away.
RefillIgnoringOrder(b, now) ==
    [tokens   |-> IF b = Absent THEN Capacity
                  ELSE IF now < b.lastSeen THEN b.tokens
                  ELSE Least(Capacity, b.tokens + (now - b.lastSeen)),
     lastSeen |-> now]
Refill(b, now) ==
    [tokens   |-> IF b = Absent THEN Capacity
                  ELSE Least(Capacity, b.tokens + (now - b.lastSeen)),
     lastSeen |-> now]

\* Retry-After: int(1/rate) + 1 seconds.
RetryTicksTruncated == (Cost \div Second) * Second
RetryTicks == ((Cost \div Second) + 1) * Second

-----------------------------------------------------------------------------
LimiterInit ==
    /\ clock = 0
    /\ buckets = [k \in Keys |-> Absent]
    /\ call = [r \in Goroutines |-> Absent]
    /\ cutoff = Absent
    /\ nextSweep = SweepEvery
    /\ decided = [k \in Keys |-> 0]
    /\ window = 0
    /\ spent = [k \in Keys |-> 0]
    /\ evicted = [k \in Keys |-> 0]

\* allow reads the clock.
Stamp(r, k) ==
    /\ call[r] = Absent
    /\ call' = [call EXCEPT ![r] = [key |-> k, now |-> clock]]
    /\ UNCHANGED <<clock, buckets, janitorVars, historyVars>>

\* The rest of allow: the request is charged to the bucket b, or denied.
Charge(k, b) ==
    /\ decided' = [decided EXCEPT ![k] = clock]
    /\ \/ /\ b.tokens < Cost
          /\ buckets' = [buckets EXCEPT ![k] = b]
          /\ UNCHANGED spent
       \/ /\ b.tokens >= Cost
          /\ buckets' = [buckets EXCEPT ![k] = [b EXCEPT !.tokens = @ - Cost]]
          /\ spent' = [spent EXCEPT ![k] = @ + Cost]

\* The critical section of allow.
Decide(r) ==
    /\ call[r] # Absent
    /\ call' = [call EXCEPT ![r] = Absent]
    /\ Charge(call[r].key, Refill(buckets[call[r].key], call[r].now))
    /\ UNCHANGED <<clock, janitorVars, window, evicted>>

-----------------------------------------------------------------------------
(* The janitor. *)

\* The ticker fires, and the janitor computes its cutoff.
TickerFires ==
    /\ cutoff = Absent
    /\ clock >= nextSweep
    /\ cutoff' = clock - IdleCutoff
    /\ nextSweep' = nextSweep + SweepEvery
    /\ UNCHANGED <<clock, buckets, call, historyVars>>

\* The critical section of the janitor.
Idle(b) == b # Absent /\ b.lastSeen < cutoff
SweepFullOnly ==
    /\ cutoff # Absent
    /\ cutoff' = Absent
    /\ LET gone == {k \in Keys : Idle(buckets[k]) /\ buckets[k].tokens = Capacity} IN
       /\ buckets' = [k \in Keys |-> IF k \in gone THEN Absent ELSE buckets[k]]
       /\ evicted' = [k \in Keys |-> IF k \in gone THEN evicted[k] + 1 ELSE evicted[k]]
    /\ UNCHANGED <<clock, call, nextSweep, decided, window, spent>>
Sweep ==
    /\ cutoff # Absent
    /\ cutoff' = Absent
    /\ buckets' = [k \in Keys |-> IF Idle(buckets[k]) THEN Absent
                                                        ELSE buckets[k]]
    /\ evicted' = [k \in Keys |-> IF Idle(buckets[k]) THEN evicted[k] + 1
                                                        ELSE evicted[k]]
    /\ UNCHANGED <<clock, call, nextSweep, decided, window, spent>>

-----------------------------------------------------------------------------
(* The environment. *)

\* Time passes, up to the delay that every goroutine is granted.
Tick ==
    /\ clock < MaxClock
    /\ \A r \in Goroutines : call[r] # Absent => clock < call[r].now + MaxDelay
    /\ cutoff = Absent => clock < nextSweep + MaxDelay
    /\ cutoff # Absent => clock < cutoff + IdleCutoff + MaxDelay
    /\ clock' = clock + 1
    /\ UNCHANGED <<buckets, call, janitorVars, historyVars>>

\* An observer starts counting.
OpenWindow ==
    /\ window' = clock
    /\ spent' = [k \in Keys |-> 0]
    /\ evicted' = [k \in Keys |-> 0]
    /\ UNCHANGED <<clock, buckets, call, janitorVars, decided>>

LimiterNext ==
    \/ \E r \in Goroutines, k \in Keys : Stamp(r, k)
    \/ \E r \in Goroutines : Decide(r)
    \/ TickerFires
    \/ Sweep
    \/ Tick
    \/ OpenWindow

LimiterSpec == LimiterInit /\ [][LimiterNext]_limiterVars

-----------------------------------------------------------------------------
(* Properties. *)

\* What a bucket may lack when it is evicted, and a new one has: nothing, for a
\* Burst of less than ten minutes of budget, less the delays.
Windfall == IF Capacity + 2 * MaxDelay > IdleCutoff
            THEN (Capacity + 2 * MaxDelay) - IdleCutoff ELSE 0
Gift(k) == evicted[k] * Windfall

\* The budget: in any window of time a client is allowed at most its burst
\* plus what the window earns, however its requests interleave, whatever
\* order their clock readings are applied in, and however often its bucket is
\* evicted and recreated meanwhile, but for the windfall of each eviction
\* (ratelimit.go:72-114).  The slack is the delay of readings taken before the
\* window and applied inside it.
BudgetKept ==
    \A k \in Keys :
        spent[k] <= Capacity + (clock - window) + MaxDelay + Gift(k)

\* A client that is told Retry-After and waits that long with no other
\* request in between is allowed: the header is never too short, even after
\* readings applied out of order left the bucket below zero.
RetryHonoured ==
    [][\A r \in Goroutines :
          /\ call[r] # Absent
          /\ call'[r] = Absent
          /\ call[r].now >= decided[call[r].key] + RetryTicks
          => spent'[call[r].key] = spent[call[r].key] + Cost]_limiterVars

\* The map does not keep a client for ever: an idle bucket is gone by the
\* second firing of the ticker after it became old enough.
IdleEvicted ==
    \A k \in Keys : buckets[k] # Absent =>
        clock - buckets[k].lastSeen <= IdleCutoff + SweepEvery + 2 * MaxDelay

-----------------------------------------------------------------------------
(* The inductive invariant of the proofs. *)

\* Readings wait for the lock at most MaxDelay.
CallInv(r) == call[r] # Absent =>
    /\ call[r].now <= clock
    /\ clock <= call[r].now + MaxDelay

\* A bucket's tokens, counted up to the last decision, are never in debt,
\* and together with what was spent stay within what the window and the evictions
\* in it gave; a missing bucket may be recreated full without exceeding that.
BucketInv(k) ==
    LET b == buckets[k]
        start == window - MaxDelay IN
    /\ decided[k] <= clock
    /\ b = Absent => spent[k] <= clock - window + Gift(k)
    /\ b # Absent =>
          /\ b.lastSeen <= clock
          /\ b.tokens + (decided[k] - b.lastSeen) >= 0
          /\ b.lastSeen >= start =>
                spent[k] + b.tokens <= Capacity + (b.lastSeen - start) + Gift(k)
          /\ b.lastSeen < start => spent[k] = 0

\* Where the ticker, the janitor and the ages of the buckets stand.
JanitorInv ==
    /\ nextSweep - SweepEvery <= clock
    /\ cutoff = Absent =>
          /\ clock <= nextSweep + MaxDelay
          /\ \A k \in Keys : buckets[k] # Absent =>
                buckets[k].lastSeen >= nextSweep - SweepEvery - IdleCutoff
    /\ cutoff # Absent =>
          /\ cutoff <= clock - IdleCutoff
          /\ clock <= cutoff + IdleCutoff + MaxDelay
          /\ cutoff + IdleCutoff >= nextSweep - SweepEvery
          /\ cutoff + IdleCutoff <= nextSweep - SweepEvery + MaxDelay
          /\ \A k \in Keys : buckets[k] # Absent =>
                buckets[k].lastSeen >= nextSweep - 2 * SweepEvery - IdleCutoff

IInv ==
    /\ LimiterTypeOK
    /\ window <= clock
    /\ \A r \in Goroutines : CallInv(r)
    /\ \A k \in Keys : BucketInv(k)
    /\ JanitorInv
==============================================================================
