--------------------------- MODULE RateLimit_proofs ---------------------------
(***************************************************************************)
(* Theorems about the rate limiter, for any number of clients and of       *)
(* concurrent requests, any rate, burst and delay.                         *)
(***************************************************************************)
EXTENDS RateLimit, TLAPS

USE RateLimitAssumption

-----------------------------------------------------------------------------
(* The arithmetic of a bucket. *)

\* A bucket holds at least one token.
LEMMA CapacityType == Capacity \in Nat /\ Capacity >= Cost
  <1>1. Burst * Cost \in Nat /\ Burst * Cost >= Cost
    OBVIOUS
  <1>2. QED
    BY <1>1 DEF Capacity

\* Retry-After, rounded down and incremented, covers the time a token takes
\* (ratelimit.go:66).
LEMMA RetryCovers == RetryTicks \in Nat /\ RetryTicks >= Cost
  <1> DEFINE d == Cost \div Second
             r == Cost % Second
  <1>1. d \in Nat /\ r \in 0..(Second - 1) /\ Cost = d * Second + r
    OBVIOUS
  <1>2. (d + 1) * Second = d * Second + Second
    BY <1>1
  <1>3. d * Second \in Nat
    BY <1>1
  <1>4. QED
    BY <1>1, <1>2, <1>3 DEF RetryTicks

\* What evictions give away.
LEMMA WindfallType ==
    Windfall \in Nat /\ Capacity + 2 * MaxDelay <= IdleCutoff + Windfall
  BY CapacityType DEF Windfall

LEMMA GiftType ==
    ASSUME LimiterTypeOK, NEW k \in Keys
    PROVE  Gift(k) \in Nat
  <1>1. evicted[k] \in Nat
    BY DEF LimiterTypeOK
  <1>2. \A a, b \in Nat : a * b \in Nat
    OBVIOUS
  <1>3. QED
    BY <1>1, <1>2, WindfallType DEF Gift

LEMMA GiftGrows ==
    ASSUME LimiterTypeOK, NEW k \in Keys, evicted'[k] = evicted[k] + 1
    PROVE  Gift(k)' = Gift(k) + Windfall
  <1>1. evicted[k] \in Nat
    BY DEF LimiterTypeOK
  <1>2. \A a, b \in Nat : (a + 1) * b = a * b + b
    OBVIOUS
  <1>3. Windfall' = Windfall
    BY DEF Windfall, Capacity
  <1>4. QED
    BY <1>1, <1>2, <1>3, WindfallType DEF Gift

LEMMA GiftKept ==
    ASSUME NEW k \in Keys, evicted'[k] = evicted[k]
    PROVE  Gift(k)' = Gift(k)
  BY DEF Gift, Windfall, Capacity

\* What Refill returns: never above capacity, never below what the delay of
\* one reading can take, and never in debt counted up to the present.
LEMMA RefillBounds ==
    ASSUME IInv, NEW k \in Keys, NEW m \in Nat, m <= clock,
           clock <= m + MaxDelay
    PROVE  LET b == Refill(buckets[k], m) IN
           /\ b \in Buckets
           /\ b = [tokens |-> b.tokens, lastSeen |-> m]
           /\ b.tokens + (clock - m) >= 0
           /\ m >= decided[k] + RetryTicks => b.tokens >= Cost
  <1> DEFINE b == Refill(buckets[k], m)
  <1>1. /\ clock \in Nat
        /\ MaxDelay \in Nat
        /\ decided[k] \in Nat
        /\ decided[k] <= clock
    BY DEF IInv, LimiterTypeOK, BucketInv
  <1>2. CASE buckets[k] = Absent
    BY <1>1, <1>2, CapacityType DEF Refill, Buckets
  <1>3. CASE buckets[k] # Absent
    <2> DEFINE t == buckets[k].tokens
               l == buckets[k].lastSeen
    <2>1. /\ t \in -MaxDelay..Capacity
          /\ l \in Nat
          /\ l <= clock
          /\ t + (decided[k] - l) >= 0
      BY <1>3 DEF IInv, LimiterTypeOK, BucketInv, Buckets
    <2>2. b = [tokens |-> Least(Capacity, t + (m - l)), lastSeen |-> m]
      BY <1>3 DEF Refill
    <2>3. /\ Least(Capacity, t + (m - l)) \in -MaxDelay..Capacity
          /\ Least(Capacity, t + (m - l)) + (clock - m) >= 0
      BY <1>1, <2>1, CapacityType DEF Least
    <2>4. m >= decided[k] + RetryTicks => Least(Capacity, t + (m - l)) >= Cost
      BY <1>1, <2>1, CapacityType, RetryCovers DEF Least
    <2>5. QED
      BY <2>2, <2>3, <2>4 DEF Buckets
  <1>4. QED
    BY <1>2, <1>3

\* What was spent in the window, with a refilled bucket, stays within what
\* the window earned up to the reading used.
LEMMA RefillBudget ==
    ASSUME IInv, NEW k \in Keys, NEW m \in Nat, m <= clock,
           clock <= m + MaxDelay
    PROVE  spent[k] + Refill(buckets[k], m).tokens
              <= Capacity + (m - (window - MaxDelay)) + Gift(k)
  <1>1. /\ clock \in Nat /\ window \in Nat /\ window <= clock
        /\ spent[k] \in Nat /\ MaxDelay \in Nat /\ Gift(k) \in Nat
    BY GiftType DEF IInv, LimiterTypeOK
  <1>2. CASE buckets[k] = Absent
    BY <1>1, <1>2, CapacityType DEF IInv, BucketInv, Refill
  <1>3. CASE buckets[k] # Absent
    <2> DEFINE t == buckets[k].tokens
               l == buckets[k].lastSeen
               start == window - MaxDelay
    <2>1. /\ t \in -MaxDelay..Capacity
          /\ l \in Nat
          /\ l >= start => spent[k] + t <= Capacity + (l - start) + Gift(k)
          /\ l < start => spent[k] = 0
      BY <1>3 DEF IInv, LimiterTypeOK, BucketInv, Buckets
    <2>2. Refill(buckets[k], m).tokens = Least(Capacity, t + (m - l))
      BY <1>3 DEF Refill
    <2>3. QED
      BY <1>1, <2>1, <2>2, CapacityType DEF Least
  <1>4. QED
    BY <1>2, <1>3

-----------------------------------------------------------------------------
(* Steps. *)

\* The decision on a request: everything it changes.
LEMMA DecideStep ==
    ASSUME IInv, NEW r \in Goroutines, Decide(r)
    PROVE  /\ IInv'
           /\ call[r].now >= decided[call[r].key] + RetryTicks
                 => spent'[call[r].key] = spent[call[r].key] + Cost
  <1> DEFINE k == call[r].key
             m == call[r].now
             b == Refill(buckets[k], m)
  <1> USE DEF IInv
  <1>1. /\ k \in Keys
        /\ m \in Nat /\ m <= clock /\ clock <= m + MaxDelay
    BY DEF Decide, LimiterTypeOK, Calls, CallInv
  <1>2. /\ clock \in Nat /\ window \in Nat /\ window <= clock
        /\ spent \in [Keys -> Nat] /\ decided \in [Keys -> Nat]
        /\ buckets \in [Keys -> Buckets \cup {Absent}]
        /\ MaxDelay \in Nat /\ Cost \in Nat /\ Cost > 0
    BY DEF LimiterTypeOK
  <1>3. /\ b \in Buckets
        /\ b = [tokens |-> b.tokens, lastSeen |-> m]
        /\ b.tokens + (clock - m) >= 0
        /\ m >= decided[k] + RetryTicks => b.tokens >= Cost
    BY <1>1, RefillBounds
  <1>4. spent[k] + b.tokens <= Capacity + (m - (window - MaxDelay)) + Gift(k)
    BY <1>1, RefillBudget
  <1>5. b.tokens \in Int /\ b.lastSeen = m /\ b.tokens >= -MaxDelay
                        /\ b.tokens <= Capacity
    BY <1>2, <1>3, CapacityType DEF Buckets
  <1> DEFINE Outcome(nb, ns) ==
               /\ buckets' = [buckets EXCEPT ![k] = nb]
               /\ spent' = [spent EXCEPT ![k] = ns]
               /\ nb.lastSeen = m
               /\ nb.tokens + (clock - m) >= 0
               /\ ns + nb.tokens = spent[k] + b.tokens
               /\ b.tokens >= Cost => ns = spent[k] + Cost
  <1>6. \E nb \in Buckets, ns \in Nat : Outcome(nb, ns)
    <2>1. CASE b.tokens < Cost
      <3>1. buckets' = [buckets EXCEPT ![k] = b] /\ spent' = spent
        BY <1>2, <1>5, <2>1 DEF Decide, Charge
      <3>2. spent' = [spent EXCEPT ![k] = spent[k]] /\ spent[k] \in Nat
        BY <1>1, <1>2, <3>1
      <3>3. Outcome(b, spent[k])
        <4>1. b.tokens + (clock - m) >= 0
          BY <1>3
        <4>2. ~(b.tokens >= Cost)
          BY <1>2, <1>5, <2>1
        <4> HIDE DEF b
        <4>3. QED
          BY <1>5, <3>1, <3>2, <4>1, <4>2
      <3>4. QED
        BY <1>3, <3>2, <3>3
    <2>2. CASE b.tokens >= Cost
      <3> DEFINE nb == [b EXCEPT !.tokens = @ - Cost]
      <3>1. /\ buckets' = [buckets EXCEPT ![k] = nb]
            /\ spent' = [spent EXCEPT ![k] = spent[k] + Cost]
        BY <1>2, <1>5, <2>2 DEF Decide, Charge
      <3>2. nb = [tokens |-> b.tokens - Cost, lastSeen |-> m]
        BY <1>3
      <3>3. nb \in Buckets /\ spent[k] + Cost \in Nat
        BY <1>2, <1>5, <1>1, <2>2, <3>2, CapacityType DEF Buckets
      <3>4. Outcome(nb, spent[k] + Cost)
        BY <1>1, <1>2, <1>5, <2>2, <3>1, <3>2
      <3>5. QED
        BY <3>3, <3>4
    <2>3. QED
      BY <1>2, <1>5, <2>1, <2>2
  <1>6a. PICK nb \in Buckets, ns \in Nat : Outcome(nb, ns)
    BY <1>6
  <1>7. UNCHANGED <<clock, cutoff, nextSweep, window, evicted>>
        /\ call' = [call EXCEPT ![r] = Absent]
        /\ decided' = [decided EXCEPT ![k] = clock]
    BY DEF Decide, Charge, janitorVars
  <1>8. LimiterTypeOK'
    BY <1>1, <1>2, <1>6a, <1>7 DEF LimiterTypeOK
  <1>9. \A q \in Goroutines : CallInv(q)'
    BY <1>7 DEF CallInv, LimiterTypeOK
  <1>10. ASSUME NEW j \in Keys
         PROVE  BucketInv(j)'
    <2>1. CASE j # k
      <3>1. Gift(j)' = Gift(j)
        BY <1>7, GiftKept
      <3>2. QED
        BY <1>1, <1>2, <1>6a, <1>7, <2>1, <3>1 DEF BucketInv
    <2>2. CASE j = k
      <3>1. buckets'[j] = nb /\ spent'[j] = ns /\ decided'[j] = clock
        BY <1>1, <1>2, <1>6a, <1>7, <2>2
      <3>2. /\ nb # Absent
            /\ nb.tokens \in Int
        BY CapacityType DEF Buckets
      <3>3. /\ ns + nb.tokens <= Capacity + (m - (window - MaxDelay)) + Gift(j)
            /\ Gift(j)' = Gift(j)
        BY <1>1, <1>4, <1>6a, <1>7, <2>2, GiftKept
      <3>4. m >= window - MaxDelay
        BY <1>1, <1>2
      <3>5. QED
        BY <1>1, <1>2, <1>6a, <1>7, <3>1, <3>2, <3>3, <3>4 DEF BucketInv
    <2>3. QED
      BY <2>1, <2>2
  <1>11. JanitorInv'
    <2>1. nextSweep \in Nat /\ cutoff \in Int \cup {Absent} /\ IdleCutoff \in Nat
          /\ SweepEvery \in Nat /\ IdleCutoff >= MaxDelay
      BY DEF LimiterTypeOK
    <2>2. nextSweep - SweepEvery <= clock
      BY DEF JanitorInv
    <2>3. m >= nextSweep - SweepEvery - IdleCutoff
      BY <1>1, <1>2, <2>1, <2>2
    <2>4. m >= nextSweep - 2 * SweepEvery - IdleCutoff
      BY <1>1, <2>1, <2>3
    <2>5. QED
      BY <1>1, <1>2, <1>6a, <1>7, <2>3, <2>4 DEF JanitorInv
  <1>12. QED
    BY <1>1, <1>2, <1>3, <1>6a, <1>7, <1>8, <1>9, <1>10, <1>11

\* The janitor computes its cutoff.
LEMMA TickerStep == IInv /\ TickerFires => IInv'
  <1> SUFFICES ASSUME IInv, TickerFires PROVE IInv'
    OBVIOUS
  <1> USE DEF IInv, TickerFires, historyVars
  <1>1. LimiterTypeOK'
    BY DEF LimiterTypeOK
  <1>2. \A r \in Goroutines : CallInv(r)'
    BY DEF CallInv
  <1>3. \A k \in Keys : BucketInv(k)'
    BY GiftKept DEF BucketInv
  <1>4. JanitorInv'
    <2>1. /\ clock \in Nat /\ nextSweep \in Nat /\ SweepEvery \in Nat
          /\ IdleCutoff \in Nat /\ MaxDelay \in Nat
          /\ nextSweep <= clock /\ clock <= nextSweep + MaxDelay
          /\ cutoff' = clock - IdleCutoff
          /\ nextSweep' = nextSweep + SweepEvery
          /\ UNCHANGED <<clock, buckets>>
      BY DEF JanitorInv, LimiterTypeOK
    <2>2. cutoff' # Absent
      BY <2>1
    <2>3. ASSUME NEW k \in Keys, buckets'[k] # Absent
          PROVE  buckets'[k].lastSeen >= nextSweep' - 2 * SweepEvery - IdleCutoff
      <3>1. buckets'[k].lastSeen \in Nat
        BY <2>1, <2>3 DEF LimiterTypeOK, Buckets
      <3>2. QED
        BY <2>1, <2>3, <3>1 DEF JanitorInv
    <2>4. QED
      BY <2>1, <2>2, <2>3 DEF JanitorInv
  <1>5. QED
    BY <1>1, <1>2, <1>3, <1>4

\* The janitor evicts: what is gone was idle so long that it was full again, but for
\* the windfall.
LEMMA SweepStep == IInv /\ Sweep => IInv'
  <1> SUFFICES ASSUME IInv, Sweep PROVE IInv'
    OBVIOUS
  <1> USE DEF IInv, Sweep, historyVars
  <1>1. LimiterTypeOK'
    BY DEF LimiterTypeOK
  <1>2. \A r \in Goroutines : CallInv(r)'
    BY DEF CallInv
  <1>3. ASSUME NEW k \in Keys
        PROVE  BucketInv(k)'
    <2>1. CASE ~Idle(buckets[k])
      <3>1. buckets'[k] = buckets[k] /\ evicted'[k] = evicted[k]
        BY <2>1
      <3>2. Gift(k)' = Gift(k)
        BY <3>1, GiftKept
      <3>3. QED
        BY <3>1, <3>2 DEF BucketInv
    <2>2. CASE Idle(buckets[k])
      <3> DEFINE t == buckets[k].tokens
                 l == buckets[k].lastSeen
                 start == window - MaxDelay
      <3>1. /\ buckets'[k] = Absent
            /\ l < cutoff
            /\ cutoff <= clock - IdleCutoff
            /\ cutoff \in Int
        BY <2>2 DEF Idle, JanitorInv, LimiterTypeOK
      <3>2. /\ clock \in Nat /\ window \in Nat /\ window <= clock
            /\ spent[k] \in Nat /\ MaxDelay \in Nat /\ IdleCutoff \in Nat
            /\ t \in -MaxDelay..Capacity /\ l \in Nat
        BY <2>2 DEF LimiterTypeOK, Buckets, Idle
      <3>3. /\ l >= start => spent[k] + t <= Capacity + (l - start) + Gift(k)
            /\ l < start => spent[k] = 0
        BY <2>2 DEF BucketInv, Idle
      <3>4. Gift(k) \in Nat /\ Gift(k)' = Gift(k) + Windfall
        BY <2>2, GiftType, GiftGrows DEF LimiterTypeOK
      <3>5. spent[k] <= clock - window + Gift(k)'
        BY <3>1, <3>2, <3>3, <3>4, CapacityType, WindfallType
      <3>6. decided[k] <= clock
        BY DEF BucketInv
      <3>7. QED
        BY <3>1, <3>5, <3>6 DEF BucketInv
    <2>3. QED
      BY <2>1, <2>2
  <1>4. JanitorInv'
    <2>1. /\ clock \in Nat /\ nextSweep \in Nat /\ SweepEvery \in Nat
          /\ IdleCutoff \in Nat /\ MaxDelay \in Nat /\ cutoff \in Int
          /\ clock <= cutoff + IdleCutoff + MaxDelay
          /\ cutoff + IdleCutoff >= nextSweep - SweepEvery
          /\ cutoff + IdleCutoff <= nextSweep - SweepEvery + MaxDelay
          /\ nextSweep - SweepEvery <= clock
      BY DEF JanitorInv, LimiterTypeOK
    <2>2. ASSUME NEW k \in Keys, buckets'[k] # Absent
          PROVE  buckets'[k].lastSeen >= nextSweep - SweepEvery - IdleCutoff
      <3>1. buckets'[k] = buckets[k] /\ buckets[k].lastSeen >= cutoff
        <4>1. buckets[k].lastSeen \in Nat
          BY <2>2 DEF LimiterTypeOK, Buckets
        <4>2. QED
          BY <2>1, <2>2, <4>1 DEF Idle
      <3>2. buckets[k].lastSeen \in Nat
        BY <2>2, <3>1 DEF LimiterTypeOK, Buckets
      <3>3. QED
        BY <2>1, <3>1, <3>2
    <2>3. clock <= nextSweep + MaxDelay
      <3>1. clock <= nextSweep - SweepEvery + 2 * MaxDelay
        BY <2>1
      <3>2. QED
        BY <2>1, <3>1
    <2>4. QED
      BY <2>1, <2>2, <2>3 DEF JanitorInv
  <1>5. QED
    BY <1>1, <1>2, <1>3, <1>4

\* A reading of the clock, the passage of time, and the observer.
LEMMA OtherSteps ==
    ASSUME IInv,
           \/ \E r \in Goroutines, k \in Keys : Stamp(r, k)
           \/ Tick
           \/ OpenWindow
           \/ UNCHANGED limiterVars
    PROVE  IInv'
  <1> USE DEF IInv, janitorVars, historyVars
  <1>1. ASSUME NEW r \in Goroutines, NEW k \in Keys, Stamp(r, k)
        PROVE  IInv'
    <2> USE <1>1 DEF Stamp
    <2>1. LimiterTypeOK'
      BY DEF LimiterTypeOK, Calls
    <2>2. ASSUME NEW q \in Goroutines
          PROVE  CallInv(q)'
      <3>1. CASE q = r
        BY <3>1 DEF CallInv, LimiterTypeOK
      <3>2. CASE q # r
        BY <3>2 DEF CallInv, LimiterTypeOK
      <3>3. QED
        BY <3>1, <3>2
    <2>3. \A j \in Keys : BucketInv(j)'
      BY GiftKept DEF BucketInv
    <2>4. JanitorInv'
      BY DEF JanitorInv
    <2>5. QED
      BY <2>1, <2>2, <2>3, <2>4
  <1>2. CASE Tick
    <2> USE <1>2 DEF Tick
    <2>1. LimiterTypeOK'
      BY DEF LimiterTypeOK
    <2>2. ASSUME NEW q \in Goroutines
          PROVE  CallInv(q)'
      BY DEF CallInv, LimiterTypeOK, Calls
    <2>3. ASSUME NEW j \in Keys
          PROVE  BucketInv(j)'
      <3>1. decided[j] \in Nat /\ clock \in Nat /\ window \in Nat
            /\ spent[j] \in Nat /\ Gift(j) \in Nat /\ Gift(j)' = Gift(j)
            /\ (buckets[j] # Absent => buckets[j].lastSeen \in Nat)
        BY GiftType, GiftKept DEF LimiterTypeOK, Buckets
      <3>2. QED
        BY <3>1 DEF BucketInv
    <2>4. JanitorInv'
      BY DEF JanitorInv, LimiterTypeOK
    <2>5. QED
      BY <2>1, <2>2, <2>3, <2>4 DEF LimiterTypeOK
  <1>3. CASE OpenWindow
    <2> USE <1>3 DEF OpenWindow
    <2>1. LimiterTypeOK'
      BY DEF LimiterTypeOK
    <2>2. \A q \in Goroutines : CallInv(q)'
      BY DEF CallInv
    <2>3. ASSUME NEW j \in Keys PROVE Gift(j)' \in Nat
      <3>1. evicted'[j] = 0
        OBVIOUS
      <3>2. \A w \in Nat : 0 * w = 0
        OBVIOUS
      <3>3. Windfall' = Windfall
        BY DEF Windfall, Capacity
      <3>4. QED
        BY <3>1, <3>2, <3>3, WindfallType DEF Gift
    <2>4. ASSUME NEW j \in Keys
          PROVE  BucketInv(j)'
      <3>1. decided[j] \in Nat /\ clock \in Nat /\ spent'[j] = 0
            /\ window' = clock /\ Gift(j)' \in Nat
            /\ (buckets[j] # Absent => /\ buckets[j].lastSeen \in Nat
                                     /\ buckets[j].tokens \in Int
                                     /\ buckets[j].tokens <= Capacity)
        BY <2>3, CapacityType DEF LimiterTypeOK, Buckets
      <3>2. QED
        BY <3>1, CapacityType DEF BucketInv
    <2>5. JanitorInv'
      BY DEF JanitorInv
    <2>6. QED
      BY <2>1, <2>2, <2>4, <2>5 DEF LimiterTypeOK
  <1>4. CASE UNCHANGED limiterVars
    BY <1>4 DEF limiterVars, LimiterTypeOK, CallInv, BucketInv, JanitorInv, Gift
  <1>5. QED
    BY <1>1, <1>2, <1>3, <1>4

-----------------------------------------------------------------------------
(* The theorems. *)

\* The inductive invariant holds initially and survives every step.
LEMMA Invariance == LimiterSpec => []IInv
  <1>1. LimiterInit => IInv
    <2> SUFFICES ASSUME LimiterInit PROVE IInv
      OBVIOUS
    <2> USE DEF LimiterInit
    <2>1. LimiterTypeOK
      BY DEF LimiterTypeOK
    <2>2. \A r \in Goroutines : CallInv(r)
      BY DEF CallInv
    <2>3. ASSUME NEW k \in Keys
          PROVE  BucketInv(k)
      <3>1. /\ buckets[k] = Absent /\ spent[k] = 0 /\ decided[k] = 0
            /\ clock = 0 /\ window = 0
        OBVIOUS
      <3>2. Gift(k) \in Nat
        BY <2>1, GiftType
      <3>3. spent[k] <= clock - window + Gift(k) /\ decided[k] <= clock
        BY <3>1, <3>2
      <3>4. QED
        BY <3>1, <3>3 DEF BucketInv
    <2>4. JanitorInv
      BY DEF JanitorInv
    <2>5. QED
      BY <2>1, <2>2, <2>3, <2>4 DEF IInv
  <1>2. IInv /\ [LimiterNext]_limiterVars => IInv'
    BY DecideStep, TickerStep, SweepStep, OtherSteps DEF LimiterNext
  <1>3. QED
    BY <1>1, <1>2, PTL DEF LimiterSpec

\* A bucket holds no more than its capacity and no less than the delay of one
\* reading takes away (ratelimit.go:87-95).
THEOREM TypeCorrectness == LimiterSpec => []LimiterTypeOK
  <1>1. IInv => LimiterTypeOK
    BY DEF IInv
  <1>2. QED
    BY <1>1, Invariance, PTL

\* In any window a client is allowed at most its burst, what the window
\* earns and the windfall of each eviction of its bucket in it, for any rate and
\* burst and any interleaving of its requests (ratelimit.go:75-119).  The windfall
\* is nothing unless the burst is more than ten minutes of budget.
THEOREM Budget == LimiterSpec => []BudgetKept
  <1>1. IInv => BudgetKept
    <2> SUFFICES ASSUME IInv, NEW k \in Keys
                 PROVE  spent[k] <= Capacity + (clock - window) + MaxDelay + Gift(k)
      BY DEF BudgetKept
    <2> USE DEF IInv, BucketInv
    <2>1. /\ clock \in Nat /\ window \in Nat /\ window <= clock
          /\ spent[k] \in Nat /\ decided[k] \in Nat /\ MaxDelay \in Nat
          /\ Gift(k) \in Nat
      BY GiftType DEF LimiterTypeOK
    <2>2. CASE buckets[k] = Absent
      BY <2>1, <2>2, CapacityType
    <2>3. CASE buckets[k] # Absent
      <3>1. buckets[k].lastSeen \in Nat /\ buckets[k].tokens \in Int
        BY <2>3, CapacityType DEF LimiterTypeOK, Buckets
      <3>2. QED
        BY <2>1, <2>3, <3>1, CapacityType
    <2>4. QED
      BY <2>2, <2>3
  <1>2. QED
    BY <1>1, Invariance, PTL

\* Retry-After is never too short (ratelimit.go:65-68).
THEOREM RetryAfter == LimiterSpec => RetryHonoured
  <1> DEFINE Honoured ==
               \A r \in Goroutines :
                  /\ call[r] # Absent
                  /\ call'[r] = Absent
                  /\ call[r].now >= decided[call[r].key] + RetryTicks
                  => spent'[call[r].key] = spent[call[r].key] + Cost
  <1>1. ASSUME IInv, [LimiterNext]_limiterVars
        PROVE  Honoured
    <2>1. ASSUME NEW r \in Goroutines, Decide(r)
          PROVE  Honoured
      <3>1. \A q \in Goroutines : q # r => call'[q] = call[q]
        BY <2>1, <1>1 DEF Decide, IInv, LimiterTypeOK
      <3>2. call[r].now >= decided[call[r].key] + RetryTicks
               => spent'[call[r].key] = spent[call[r].key] + Cost
        BY <2>1, <1>1, DecideStep
      <3>3. QED
        BY <3>1, <3>2
    <2>2. ASSUME NEW r \in Goroutines, NEW k \in Keys, Stamp(r, k)
          PROVE  Honoured
      <3>1. call[r] = Absent /\ \A q \in Goroutines : q # r => call'[q] = call[q]
        BY <2>2, <1>1 DEF Stamp, IInv, LimiterTypeOK
      <3>2. QED
        BY <3>1
    <2>3. CASE UNCHANGED call
      BY <2>3
    <2>4. QED
      BY <1>1, <2>1, <2>2, <2>3
         DEF LimiterNext, TickerFires, Sweep, Tick, OpenWindow, limiterVars
  <1>2. QED
    BY <1>1, Invariance, PTL DEF LimiterSpec, RetryHonoured

\* An idle bucket does not outlive the second firing of the ticker after it
\* became old enough (ratelimit.go:100-119).
THEOREM Eviction == LimiterSpec => []IdleEvicted
  <1>1. IInv => IdleEvicted
    <2> SUFFICES ASSUME IInv, NEW k \in Keys, buckets[k] # Absent
                 PROVE  clock - buckets[k].lastSeen
                           <= IdleCutoff + SweepEvery + 2 * MaxDelay
      BY DEF IdleEvicted
    <2>1. /\ clock \in Nat /\ buckets[k].lastSeen \in Nat /\ nextSweep \in Nat
          /\ cutoff \in Int \cup {Absent}
      BY DEF IInv, LimiterTypeOK, Buckets
    <2>2. CASE cutoff = Absent
      BY <2>1, <2>2 DEF IInv, JanitorInv
    <2>3. CASE cutoff # Absent
      BY <2>1, <2>3 DEF IInv, JanitorInv
    <2>4. QED
      BY <2>2, <2>3
  <1>2. QED
    BY <1>1, Invariance, PTL
==============================================================================
