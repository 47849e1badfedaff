-------------------------- MODULE RateLimiter_proofs --------------------------
(***************************************************************************)
(* Theorems about RateLimiter, for every set of keys, clients and limits,  *)
(* every resolution of the clock and every width of the integers: type     *)
(* correctness, and the bound a token bucket puts on the requests it       *)
(* admits, overflow included.                                              *)
(***************************************************************************)
EXTENDS RateLimiter, TLAPS

USE RateLimiterAssumption

-----------------------------------------------------------------------------
(* Arithmetic. *)

\* A wrapped value fits, and is never above the value that was wrapped.
LEMMA WrapRange ==
  ASSUME NEW x \in Int
  PROVE  /\ Wrap(x) \in (-MaxInt - 1)..MaxInt
         /\ x >= -MaxInt - 1 => Wrap(x) <= x
  <1> DEFINE y == x + MaxInt + 1
             d == 2 * (MaxInt + 1)
  <1>1. y \in Int /\ d \in Nat \ {0}
    OBVIOUS
  <1> HIDE DEF y, d
  <1>2. y % d \in 0..(d - 1)
    BY <1>1, SMT
  <1>3. y >= 0 => y % d <= y
    BY <1>1, SMT
  <1> QED
    BY <1>2, <1>3 DEF Wrap, y, d

\* Whole seconds only lose from being counted in two parts.
LEMMA SecondsFacts ==
  ASSUME NEW s \in Nat, NEW t \in Nat
  PROVE  /\ Seconds(s) \in Nat
         /\ Seconds(s) + Seconds(t) <= Seconds(s + t)
         /\ s <= t => Seconds(s) <= Seconds(t)
  <1> DEFINE d == TicksPerSec
  <1>1. d \in Nat \ {0}
    OBVIOUS
  <1> HIDE DEF d
  <1>2. s \div d \in Nat
    BY <1>1, SMT
  <1>3. (s \div d) + (t \div d) <= (s + t) \div d
    BY <1>1, SMT
  <1>4. s <= t => s \div d <= t \div d
    BY <1>1, SMT
  <1> QED
    BY <1>2, <1>3, <1>4 DEF Seconds, d

\* What a bucket of rate r pays out for a duration.
LEMMA PayFacts ==
  ASSUME NEW r \in Nat, NEW s \in Nat, NEW t \in Nat
  PROVE  /\ Seconds(s) * r \in Nat
         /\ Seconds(s) * r + Seconds(t) * r <= Seconds(s + t) * r
         /\ s <= t => Seconds(s) * r <= Seconds(t) * r
  <1> DEFINE a == Seconds(s)
             b == Seconds(t)
             c == Seconds(s + t)
  <1>1. a \in Nat /\ b \in Nat /\ c \in Nat /\ a + b <= c
        /\ (s <= t => a <= b)
    <2>1. s + t \in Nat
      OBVIOUS
    <2>2. c \in Nat
      BY <2>1, SecondsFacts
    <2> QED
      BY <2>2, SecondsFacts
  <1> HIDE DEF a, b, c
  <1>2. a * r \in Nat
    BY <1>1, SMT
  <1>3. a * r + b * r <= c * r
    <2>1. a * r + b * r = (a + b) * r
      BY <1>1, SMT
    <2>2. (a + b) * r <= c * r
      BY <1>1, SMT
    <2> QED
      BY <1>1, <2>1, <2>2, SMT
  <1>4. a <= b => a * r <= b * r
    BY <1>1, SMT
  <1> QED
    BY <1>1, <1>2, <1>3, <1>4 DEF a, b, c

-----------------------------------------------------------------------------
(* Type correctness. *)

\* A refill changes the tokens and LastRefill only, and keeps the type.
LEMMA RefillType ==
  ASSUME now \in 0..MaxTime, NEW b \in Bucket
  PROVE  /\ Refill(b) \in Bucket
         /\ Refill(b).Tokens > 0 =>
              [Refill(b) EXCEPT !.Tokens = @ - 1] \in Bucket
  <1> DEFINE x == Seconds(now - b.LastRefill) * b.RefillRate
             add == Wrap(x)
             new == Least(b.Capacity, Wrap(b.Tokens + add))
  <1>1. now - b.LastRefill \in Int /\ b.RefillRate \in Int /\ b.Tokens \in Int
        /\ b.Capacity \in 0..MaxInt
    BY DEF Bucket
  <1>2. x \in Int
    <2>1. \A t \in Int, d \in Nat \ {0} : t \div d \in Int
      BY SMT
    <2>2. Seconds(now - b.LastRefill) \in Int
      BY <1>1, <2>1 DEF Seconds
    <2> QED
      BY <1>1, <2>2
  <1> HIDE DEF x
  <1>3. add \in Int
    BY <1>2, WrapRange
  <1>4. Wrap(b.Tokens + add) \in (-MaxInt - 1)..MaxInt
    <2>1. b.Tokens + add \in Int
      BY <1>1, <1>3
    <2> HIDE DEF add
    <2> QED
      BY <2>1, WrapRange
  <1>5. new \in (-MaxInt - 1)..MaxInt
    BY <1>1, <1>4 DEF Least
  <1>6. Refill(b) = IF add > 0
                    THEN [b EXCEPT !.Tokens = new, !.LastRefill = now]
                    ELSE b
    BY DEF Refill, x
  <1> HIDE DEF add, new
  <1>7. Refill(b) \in Bucket
    BY <1>5, <1>6 DEF Bucket
  <1>8. \A c \in Bucket : c.Tokens > 0 =>
           [c EXCEPT !.Tokens = @ - 1] \in Bucket
    BY DEF Bucket
  <1> QED
    BY <1>7, <1>8

\* The initial state is well typed.
LEMMA TypeInit == Init => TypeOK
  <1> SUFFICES ASSUME Init PROVE TypeOK
    OBVIOUS
  <1>1. now \in 0..MaxTime /\ now \in Int
    BY DEF Init
  <1>2. NewBucket(0, 0, 0) \in Bucket
    BY <1>1 DEF NewBucket, Bucket
  <1>3. bucket \in [Keys -> Bucket]
    BY <1>2 DEF Init
  <1>4. /\ granted \in [Keys -> Nat]
        /\ born \in [Keys -> 0..MaxTime]
        /\ refusedAt \in [Keys -> (0..MaxTime) \cup {Never}]
    BY DEF Init
  <1>5. pc \in [Clients -> {"idle", "allow", "respond", "stuck"}]
    BY DEF Init
  <1> QED
    BY <1>1, <1>3, <1>4, <1>5 DEF Init, TypeOK

\* A new bucket in place of an old one.
LEMMA PutType ==
  ASSUME TypeOK, NEW k \in Keys, NEW b \in Bucket, NEW admitted \in Nat,
         Put(k, b, admitted)
  PROVE  /\ present' \subseteq Keys
         /\ bucket' \in [Keys -> Bucket]
         /\ granted' \in [Keys -> Nat]
         /\ born' \in [Keys -> 0..MaxTime]
         /\ refusedAt' \in [Keys -> (0..MaxTime) \cup {Never}]
  BY DEF TypeOK, Put

\* Every step keeps every variable's type.
LEMMA TypeStep == TypeOK /\ [Next]_vars => TypeOK'
  <1> SUFFICES ASSUME TypeOK, [Next]_vars PROVE TypeOK'
    OBVIOUS
  <1> USE DEF clients, clean, hist
  <1>0. now \in 0..MaxTime
    BY DEF TypeOK
  <1>1. ASSUME NEW limit \in 0..MaxInt, NEW t \in {limit, limit - 1},
               NEW e \in Nat
        PROVE  NewBucket(t, limit, e) \in Bucket
    BY <1>0 DEF NewBucket, Bucket
  <1>Begin. ASSUME NEW p \in Clients, Begin(p) PROVE TypeOK'
    BY <1>Begin DEF TypeOK, Begin
  <1>AllowNew. ASSUME NEW p \in Clients, AllowNew(p) PROVE TypeOK'
    <2>1. NewBucket(Limit - 1, Limit, 0) \in Bucket /\ key[p] \in Keys
      BY <1>1 DEF TypeOK
    <2>2. /\ present' \subseteq Keys
          /\ bucket' \in [Keys -> Bucket]
          /\ granted' \in [Keys -> Nat]
          /\ born' \in [Keys -> 0..MaxTime]
          /\ refusedAt' \in [Keys -> (0..MaxTime) \cup {Never}]
      BY <1>AllowNew, <2>1, PutType DEF AllowNew
    <2> QED
      BY <1>AllowNew, <2>2 DEF TypeOK, AllowNew
  <1>AllowExpired. ASSUME NEW p \in Clients, AllowExpired(p) PROVE TypeOK'
    BY <1>AllowExpired DEF TypeOK, AllowExpired
  <1>Grant. ASSUME NEW p \in Clients, Grant(p) PROVE TypeOK'
    <2> DEFINE k == key[p]
               b == Refill(bucket[k])
    <2>1. k \in Keys /\ bucket[k] \in Bucket
      BY DEF TypeOK
    <2>2. [b EXCEPT !.Tokens = @ - 1] \in Bucket
      BY <1>0, <1>Grant, <2>1, RefillType DEF Grant
    <2>3. bucket' \in [Keys -> Bucket]
      BY <1>Grant, <2>1, <2>2 DEF TypeOK, Grant
    <2> QED
      BY <1>Grant, <2>1, <2>3 DEF TypeOK, Grant
  <1>Deny. ASSUME NEW p \in Clients, Deny(p) PROVE TypeOK'
    <2> DEFINE k == key[p]
               b == Refill(bucket[k])
    <2>1. k \in Keys /\ b \in Bucket
      BY <1>0, RefillType DEF TypeOK
    <2>2. bucket' \in [Keys -> Bucket]
      BY <1>Deny, <2>1 DEF TypeOK, Deny
    <2>3. refusedAt' \in [Keys -> (0..MaxTime) \cup {Never}]
      BY <1>0, <1>Deny, <2>1 DEF TypeOK, Deny
    <2> QED
      BY <1>Deny, <2>2, <2>3 DEF TypeOK, Deny
  <1>Respond. ASSUME NEW p \in Clients, Respond(p) PROVE TypeOK'
    BY <1>Respond DEF TypeOK, Respond
  <1>Set. ASSUME NEW k \in Keys, Set(k) \/ SetWithExpiration(k) PROVE TypeOK'
    <2>1. /\ \E limit \in Limits, e \in Nat :
                Put(k, NewBucket(limit, limit, e), 0)
          /\ UNCHANGED <<now, mutex, clients, clean>>
      BY <1>Set DEF Set, SetWithExpiration
    <2>2. /\ present' \subseteq Keys
          /\ bucket' \in [Keys -> Bucket]
          /\ granted' \in [Keys -> Nat]
          /\ born' \in [Keys -> 0..MaxTime]
          /\ refusedAt' \in [Keys -> (0..MaxTime) \cup {Never}]
      BY <1>1, <2>1, PutType
    <2> QED
      BY <2>1, <2>2 DEF TypeOK
  <1>Delete. ASSUME NEW k \in Keys, Delete(k) PROVE TypeOK'
    BY <1>Delete DEF TypeOK, Delete
  <1>Cleanup. CASE Cleanup
    BY <1>Cleanup DEF TypeOK, Cleanup, RemoveExpired
  <1>Close. CASE Close
    BY <1>Close DEF TypeOK, Close
  <1>TickerFires. CASE TickerFires
    BY <1>TickerFires DEF TypeOK, TickerFires
  <1>CleanerWakes. CASE CleanerWakes
    BY <1>CleanerWakes DEF TypeOK, CleanerWakes
  <1>CleanerSweeps. CASE CleanerSweeps
    BY <1>CleanerSweeps DEF TypeOK, CleanerSweeps, RemoveExpired
  <1>CleanerStops. CASE CleanerStops
    BY <1>CleanerStops DEF TypeOK, CleanerStops
  <1>Tick. CASE Tick
    BY <1>Tick DEF TypeOK, Tick
  <1>Stutter. CASE UNCHANGED vars
    BY <1>Stutter DEF TypeOK, vars
  <1> QED
    BY <1>Begin, <1>AllowNew, <1>AllowExpired, <1>Grant, <1>Deny, <1>Respond,
       <1>Set, <1>Delete, <1>Cleanup, <1>Close, <1>TickerFires,
       <1>CleanerWakes, <1>CleanerSweeps, <1>CleanerStops, <1>Tick,
       <1>Stutter
    DEF Next, Request, Operator, Cleaner

\* Buckets, clock and goroutines keep their types: above all the tokens, a
\* refill that overflows included, stay in the integers' range.
THEOREM TypeCorrect == Spec => []TypeOK
  BY TypeInit, TypeStep, PTL DEF Spec

-----------------------------------------------------------------------------
(* The bound on the requests a bucket admits. *)

\* A bucket b made at t0 that has admitted g requests by t. What it has
\* admitted and what it still holds are together within what it was made with
\* and what it has been paid up to LastRefill: each step moves tokens between
\* the two, or pays for time it will not be paid for again.
Bounded(b, g, t0, t) ==
  /\ t0 <= b.LastRefill
  /\ b.LastRefill <= t
  /\ g + b.Tokens <= b.Capacity + Seconds(b.LastRefill - t0) * b.RefillRate
  /\ g <= Burst(b) + Seconds(t - t0) * b.RefillRate

\* The inductive invariant.
IInv ==
  /\ TypeOK
  /\ \A k \in present : Bounded(bucket[k], granted[k], born[k], now)

\* A bucket stays within its bound while time passes.
LEMMA TickBounded ==
  ASSUME NEW b \in Bucket, NEW g \in Nat, NEW t0 \in Nat, NEW t \in Nat,
         Bounded(b, g, t0, t)
  PROVE  Bounded(b, g, t0, t + 1)
  <1> DEFINE r == b.RefillRate
             last == b.LastRefill
  <1>1. r \in Nat /\ last \in Nat /\ Burst(b) \in Nat
        /\ t0 <= last /\ last <= t
    BY DEF Bucket, Bounded, Burst
  <1>2. t - t0 \in Nat /\ t + 1 - t0 \in Nat /\ t - t0 <= t + 1 - t0
    BY <1>1
  <1>3. Seconds(t - t0) * r <= Seconds(t + 1 - t0) * r
        /\ Seconds(t - t0) * r \in Nat /\ Seconds(t + 1 - t0) * r \in Nat
    BY <1>1, <1>2, PayFacts
  <1> QED
    BY <1>1, <1>3 DEF Bounded

\* A new bucket, with t tokens left and g requests admitted at once.
LEMMA NewBounded ==
  ASSUME now \in 0..MaxTime, NEW g \in {0, 1}, NEW limit \in 0..MaxInt,
         NEW t \in Int, g + t = limit, NEW e \in Nat
  PROVE  Bounded(NewBucket(t, limit, e), g, now, now)
  <1>1. now - now = 0
    OBVIOUS
  <1>2. Seconds(0) * limit \in Nat
    BY PayFacts
  <1> QED
    BY <1>1, <1>2 DEF Bounded, NewBucket, Burst

\* A refill pays for the whole seconds since LastRefill, at most once each,
\* and an overflow only ever pays less.
LEMMA RefillBounded ==
  ASSUME now \in 0..MaxTime, NEW b \in Bucket, NEW g \in Nat, NEW t0 \in Nat,
         Bounded(b, g, t0, now)
  PROVE  Bounded(Refill(b), g, t0, now)
  <1> DEFINE r == b.RefillRate
             last == b.LastRefill
             due == Seconds(now - last) * r
             paid == Seconds(last - t0) * r
             all == Seconds(now - t0) * r
             add == Wrap(due)
             sum == Wrap(b.Tokens + add)
  <1>1. r \in Nat /\ last \in Nat /\ b.Tokens \in (-MaxInt - 1)..MaxInt
        /\ b.Capacity \in Nat
    BY DEF Bucket
  <1>2. t0 <= last /\ last <= now /\ now \in Nat
    BY <1>1 DEF Bounded
  <1>3. due \in Nat /\ paid \in Nat /\ all \in Nat /\ paid + due <= all
    <2>1. now - last \in Nat /\ last - t0 \in Nat /\ now - t0 \in Nat
          /\ (last - t0) + (now - last) = now - t0
      BY <1>1, <1>2
    <2> QED
      BY <1>1, <2>1, PayFacts
  <1>4. /\ g + b.Tokens <= b.Capacity + paid
        /\ g <= Burst(b) + all
    BY DEF Bounded
  <1>5. Refill(b) = IF add > 0
                    THEN [b EXCEPT !.Tokens = Least(b.Capacity, sum),
                                   !.LastRefill = now]
                    ELSE b
    BY DEF Refill
  <1>6. CASE add > 0
    <2> HIDE DEF due
    <2>1. add \in Int /\ add <= due
      BY <1>3, WrapRange
    <2> HIDE DEF add
    <2>2. sum \in Int /\ sum <= b.Tokens + add
      <3>1. b.Tokens + add \in Int /\ b.Tokens + add >= -MaxInt - 1
        BY <1>1, <1>6, <2>1
      <3> QED
        BY <3>1, WrapRange
    <2> HIDE DEF sum
    <2>3. Least(b.Capacity, sum) \in Int /\ Least(b.Capacity, sum) <= sum
      BY <1>1, <2>2 DEF Least
    <2> DEFINE c == Refill(b)
    <2>4. /\ c.Tokens = Least(b.Capacity, sum)
          /\ c.LastRefill = now
          /\ c.Capacity = b.Capacity
          /\ c.RefillRate = r
      BY <1>5, <1>6 DEF Bucket
    <2> HIDE DEF c, paid, all
    <2>5. g + c.Tokens <= b.Capacity + all
      BY <1>1, <1>3, <1>4, <2>1, <2>2, <2>3, <2>4
    <2>6. Burst(c) = Burst(b)
      BY <2>4 DEF Burst
    <2>7. t0 <= c.LastRefill /\ c.LastRefill <= now
      BY <1>1, <1>2, <2>4
    <2>8. Bounded(c, g, t0, now)
      BY <1>4, <2>4, <2>5, <2>6, <2>7 DEF Bounded, all
    <2> QED
      BY <2>8 DEF c
  <1>7. CASE ~(add > 0)
    BY <1>5, <1>7
  <1> QED
    BY <1>6, <1>7

\* A token spent is a request admitted.
LEMMA SpendBounded ==
  ASSUME now \in 0..MaxTime, NEW b \in Bucket, NEW g \in Nat, NEW t0 \in Nat,
         Bounded(b, g, t0, now), b.Tokens > 0
  PROVE  Bounded([b EXCEPT !.Tokens = @ - 1], g + 1, t0, now)
  <1> DEFINE r == b.RefillRate
             last == b.LastRefill
             paid == Seconds(last - t0) * r
             all == Seconds(now - t0) * r
             c == [b EXCEPT !.Tokens = @ - 1]
  <1>1. r \in Nat /\ last \in Nat /\ b.Tokens \in Int /\ b.Capacity \in Nat
    BY DEF Bucket
  <1>2. t0 <= last /\ last <= now /\ now \in Nat
    BY <1>1 DEF Bounded
  <1>3. paid \in Nat /\ all \in Nat /\ paid <= all
    <2>1. last - t0 \in Nat /\ now - t0 \in Nat /\ last - t0 <= now - t0
      BY <1>1, <1>2
    <2> QED
      BY <1>1, <2>1, PayFacts
  <1>4. g + b.Tokens <= b.Capacity + paid
    BY DEF Bounded
  <1>5. /\ c.Tokens = b.Tokens - 1
        /\ c.LastRefill = last
        /\ c.Capacity = b.Capacity
        /\ c.RefillRate = r
    BY DEF Bucket
  <1>6. Burst(c) \in Nat /\ b.Capacity <= Burst(c)
    BY <1>1, <1>5 DEF Burst
  <1> HIDE DEF c, paid, all
  <1>7. (g + 1) + c.Tokens <= c.Capacity + paid
    BY <1>1, <1>3, <1>4, <1>5
  <1>8. g + 1 <= Burst(c) + all
    BY <1>1, <1>3, <1>4, <1>6
  <1>9. Bounded(c, g + 1, t0, now)
    BY <1>2, <1>5, <1>7, <1>8 DEF Bounded, paid, all
  <1> QED
    BY <1>9 DEF c

\* The initial states satisfy the invariant: there is no bucket.
LEMMA BoundInit == Init => IInv
  BY TypeInit DEF Init, IInv

\* A step that changes no bucket and no clock, and adds no key.
LEMMA BoundQuiet ==
  ASSUME IInv, present' \subseteq present,
         UNCHANGED <<now, bucket, granted, born>>
  PROVE  \A k \in present' : Bounded(bucket[k], granted[k], born[k], now)'
  BY DEF IInv

\* A step that puts a bucket within its bound in place of one key's.
LEMMA BoundOne ==
  ASSUME IInv, NEW k \in Keys, NEW b, NEW g, NEW t0,
         Bounded(b, g, t0, now),
         now' = now,
         present' \subseteq present \cup {k},
         bucket' = [bucket EXCEPT ![k] = b],
         granted' = [granted EXCEPT ![k] = g],
         born' = [born EXCEPT ![k] = t0]
  PROVE  (\A j \in present : Bounded(bucket[j], granted[j], born[j], now))'
  <1> SUFFICES ASSUME NEW j \in present'
               PROVE  Bounded(bucket'[j], granted'[j], born'[j], now')
    OBVIOUS
  <1>1. CASE j = k
    <2>1. bucket'[j] = b /\ granted'[j] = g /\ born'[j] = t0
      BY <1>1 DEF IInv, TypeOK
    <2> QED
      BY <2>1
  <1>2. CASE j # k
    <2>1. /\ bucket'[j] = bucket[j]
          /\ granted'[j] = granted[j]
          /\ born'[j] = born[j]
          /\ j \in present
      BY <1>2 DEF IInv, TypeOK
    <2> QED
      BY <2>1 DEF IInv
  <1> QED
    BY <1>1, <1>2

\* Every step keeps every bucket within its bound.
LEMMA BoundStep == IInv /\ [Next]_vars => IInv'
  <1> SUFFICES ASSUME IInv, [Next]_vars PROVE IInv'
    OBVIOUS
  <1> DEFINE AllBounded ==
               \A j \in present : Bounded(bucket[j], granted[j], born[j], now)
  <1> USE DEF clients, clean, hist
  <1>0. TypeOK /\ now \in 0..MaxTime /\ TypeOK'
    BY TypeStep DEF IInv, TypeOK
  <1>1. ASSUME present' \subseteq present, UNCHANGED <<now, bucket, granted, born>>
        PROVE  AllBounded'
    BY <1>1, BoundQuiet
  <1>2. ASSUME NEW k \in Keys, NEW limit \in 0..MaxInt, NEW g \in {0, 1},
               NEW e \in Nat, Put(k, NewBucket(limit - g, limit, e), g),
               now' = now
        PROVE  AllBounded'
    <2> DEFINE b == NewBucket(limit - g, limit, e)
    <2>1. limit - g \in Int /\ g + (limit - g) = limit
      OBVIOUS
    <2>2. Bounded(b, g, now, now)
      BY <1>0, <2>1, NewBounded
    <2> HIDE DEF b
    <2>3. /\ present' \subseteq present \cup {k}
          /\ bucket' = [bucket EXCEPT ![k] = b]
          /\ granted' = [granted EXCEPT ![k] = g]
          /\ born' = [born EXCEPT ![k] = now]
      BY <1>2 DEF Put, b
    <2> QED
      BY <1>2, <2>2, <2>3, BoundOne
  <1>3. ASSUME NEW p \in Clients, key[p] \in present
        PROVE  /\ key[p] \in Keys
               /\ Refill(bucket[key[p]]) \in Bucket
               /\ granted[key[p]] \in Nat
               /\ born[key[p]] \in Nat
               /\ Bounded(Refill(bucket[key[p]]), granted[key[p]],
                          born[key[p]], now)
               /\ born = [born EXCEPT ![key[p]] = born[key[p]]]
               /\ granted = [granted EXCEPT ![key[p]] = granted[key[p]]]
    <2> DEFINE k == key[p]
    <2>1. /\ k \in Keys
          /\ bucket[k] \in Bucket
          /\ granted[k] \in Nat
          /\ born[k] \in Nat
          /\ born = [born EXCEPT ![k] = born[k]]
          /\ granted = [granted EXCEPT ![k] = granted[k]]
      BY <1>0 DEF TypeOK
    <2>2. Bounded(bucket[k], granted[k], born[k], now)
      BY <1>3 DEF IInv
    <2> QED
      BY <1>0, <2>1, <2>2, RefillType, RefillBounded
  <1>Begin. ASSUME NEW p \in Clients, Begin(p) PROVE AllBounded'
    BY <1>1, <1>Begin DEF Begin
  <1>AllowNew. ASSUME NEW p \in Clients, AllowNew(p) PROVE AllBounded'
    <2>1. key[p] \in Keys /\ now' = now
          /\ Put(key[p], NewBucket(Limit - 1, Limit, 0), 1)
      BY <1>0, <1>AllowNew DEF AllowNew, TypeOK
    <2> QED
      BY <1>2, <2>1
  <1>AllowExpired. ASSUME NEW p \in Clients, AllowExpired(p)
                   PROVE  AllBounded'
    BY <1>1, <1>AllowExpired DEF AllowExpired
  <1>Grant. ASSUME NEW p \in Clients, Grant(p) PROVE AllBounded'
    <2> DEFINE k == key[p]
               b == Refill(bucket[k])
               c == [b EXCEPT !.Tokens = @ - 1]
    <2>1. /\ k \in present
          /\ b.Tokens > 0
          /\ bucket' = [bucket EXCEPT ![k] = c]
          /\ granted' = [granted EXCEPT ![k] = granted[k] + 1]
          /\ UNCHANGED <<now, present, born>>
      BY <1>Grant DEF Grant
    <2>2. k \in Keys /\ born = [born EXCEPT ![k] = born[k]]
      BY <1>3, <2>1
    <2>3. Bounded(c, granted[k] + 1, born[k], now)
      BY <1>0, <1>3, <2>1, SpendBounded
    <2> HIDE DEF c, k
    <2> QED
      BY <2>1, <2>2, <2>3, BoundOne
  <1>Deny. ASSUME NEW p \in Clients, Deny(p) PROVE AllBounded'
    <2> DEFINE k == key[p]
               b == Refill(bucket[k])
    <2>1. /\ k \in present
          /\ bucket' = [bucket EXCEPT ![k] = b]
          /\ UNCHANGED <<now, present, granted, born>>
      BY <1>Deny DEF Deny
    <2>2. /\ k \in Keys
          /\ born = [born EXCEPT ![k] = born[k]]
          /\ granted = [granted EXCEPT ![k] = granted[k]]
          /\ Bounded(b, granted[k], born[k], now)
      BY <1>3, <2>1
    <2> HIDE DEF b, k
    <2> QED
      BY <2>1, <2>2, BoundOne
  <1>Respond. ASSUME NEW p \in Clients, Respond(p) PROVE AllBounded'
    BY <1>1, <1>Respond DEF Respond
  <1>Set. ASSUME NEW k \in Keys, Set(k) \/ SetWithExpiration(k)
          PROVE  AllBounded'
    <2>1. PICK limit \in Limits, e \in Nat :
             Put(k, NewBucket(limit, limit, e), 0) /\ now' = now
      BY <1>Set DEF Set, SetWithExpiration
    <2>2. limit \in 0..MaxInt /\ limit - 0 = limit
      OBVIOUS
    <2> QED
      BY <1>2, <2>1, <2>2
  <1>Delete. ASSUME NEW k \in Keys, Delete(k) PROVE AllBounded'
    BY <1>1, <1>Delete DEF Delete
  <1>Cleanup. ASSUME Cleanup PROVE AllBounded'
    BY <1>1, <1>Cleanup DEF Cleanup, RemoveExpired
  <1>Close. ASSUME Close PROVE AllBounded'
    BY <1>1, <1>Close DEF Close
  <1>TickerFires. ASSUME TickerFires PROVE AllBounded'
    BY <1>1, <1>TickerFires DEF TickerFires
  <1>CleanerWakes. ASSUME CleanerWakes PROVE AllBounded'
    BY <1>1, <1>CleanerWakes DEF CleanerWakes
  <1>CleanerSweeps. ASSUME CleanerSweeps PROVE AllBounded'
    BY <1>1, <1>CleanerSweeps DEF CleanerSweeps, RemoveExpired
  <1>CleanerStops. ASSUME CleanerStops PROVE AllBounded'
    BY <1>1, <1>CleanerStops DEF CleanerStops
  <1>Tick. ASSUME Tick PROVE AllBounded'
    <2> SUFFICES ASSUME NEW j \in present'
                 PROVE  Bounded(bucket'[j], granted'[j], born'[j], now')
      OBVIOUS
    <2>1. /\ now' = now + 1
          /\ UNCHANGED <<present, bucket, granted, born>>
      BY <1>Tick DEF Tick
    <2>2. /\ Bounded(bucket[j], granted[j], born[j], now)
          /\ bucket[j] \in Bucket
          /\ granted[j] \in Nat
          /\ born[j] \in Nat
          /\ now \in Nat
      BY <1>0, <2>1 DEF IInv, TypeOK
    <2> QED
      BY <2>1, <2>2, TickBounded
  <1>Stutter. ASSUME UNCHANGED vars PROVE AllBounded'
    BY <1>1, <1>Stutter DEF vars
  <1>4. AllBounded'
    BY <1>Begin, <1>AllowNew, <1>AllowExpired, <1>Grant, <1>Deny, <1>Respond,
       <1>Set, <1>Delete, <1>Cleanup, <1>Close, <1>TickerFires,
       <1>CleanerWakes, <1>CleanerSweeps, <1>CleanerStops, <1>Tick,
       <1>Stutter
    DEF Next, Request, Operator, Cleaner
  <1> QED
    BY <1>0, <1>4 DEF IInv

\* A bucket admits its burst and its rate, never more: however requests,
\* refusals, refills and clock ticks interleave, whatever limits an operator
\* sets, and however far the refill's sums overflow.
THEOREM RateBounded == Spec => []RateBound
  <1>1. IInv => RateBound
    BY DEF IInv, Bounded, RateBound
  <1> QED
    BY <1>1, BoundInit, BoundStep, PTL DEF Spec

-----------------------------------------------------------------------------
(* Retry-After is kept: a refused client that asks again and again does not *)
(* put off its own refill.                                                  *)

\* While its sums fit, a bucket that refills at all holds between nothing and
\* its capacity, and has not been refilled since it first refused a request
\* it has admitted none after.
Patient(k) ==
  /\ bucket[k].Capacity = bucket[k].RefillRate
  /\ Fits(k) /\ bucket[k].RefillRate > 0 =>
       /\ 0 <= bucket[k].Tokens /\ bucket[k].Tokens <= bucket[k].Capacity
       /\ refusedAt[k] # Never => bucket[k].LastRefill <= refusedAt[k]

PatientInv == IInv /\ \A k \in present : Patient(k)

\* What fits is not wrapped.
LEMMA WrapFits ==
  ASSUME NEW x \in 0..MaxInt
  PROVE  Wrap(x) = x
  <1> DEFINE y == x + MaxInt + 1
             d == 2 * (MaxInt + 1)
  <1>1. y \in Nat /\ d \in Nat \ {0} /\ y < d
    OBVIOUS
  <1>2. Wrap(x) = (y % d) - (MaxInt + 1) /\ y - (MaxInt + 1) = x
    BY DEF Wrap
  <1> HIDE DEF y, d
  <1>3. y % d = y
    BY <1>1, SMT
  <1> QED
    BY <1>2, <1>3

\* A bucket with a rate that owes nothing was refilled less than a second ago.
LEMMA NothingDue ==
  ASSUME NEW t \in Nat, NEW r \in Nat \ {0}, ~(Seconds(t) * r > 0)
  PROVE  t < TicksPerSec
  <1> DEFINE q == Seconds(t)
             d == TicksPerSec
  <1>1. q \in Nat /\ d \in Nat \ {0} /\ ~(q * r > 0)
    BY SecondsFacts
  <1>2. t >= d => q >= 1
    <2>1. q = t \div d
      BY DEF Seconds
    <2> HIDE DEF q, d
    <2>2. t >= d => t \div d >= 1
      BY <1>1, SMT
    <2> QED
      BY <2>1, <2>2
  <1> HIDE DEF q, d
  <1>3. q >= 1 => q * r > 0
    BY <1>1, SMT
  <1>4. t < d
    BY <1>1, <1>2, <1>3
  <1> QED
    BY <1>4 DEF d

\* A refill whose sums fit pays a token or more if anything is due.
LEMMA RefillPays ==
  ASSUME now \in 0..MaxTime, NEW b \in Bucket, NEW t0 \in Nat,
         t0 <= b.LastRefill, b.LastRefill <= now,
         b.Capacity = b.RefillRate, b.RefillRate > 0,
         b.Capacity + Seconds(now - t0) * b.RefillRate <= MaxInt,
         0 <= b.Tokens, b.Tokens <= b.Capacity
  PROVE  LET c == Refill(b) IN
         /\ c.Capacity = b.Capacity /\ c.RefillRate = b.RefillRate
         /\ 0 <= c.Tokens /\ c.Tokens <= b.Capacity
         /\ c.Tokens <= 0 => c = b /\ now - b.LastRefill < TicksPerSec
  <1> DEFINE r == b.RefillRate
             due == Seconds(now - b.LastRefill) * r
             c == Refill(b)
  <1>1. /\ r \in Nat \ {0} /\ b.LastRefill \in Nat /\ b.Tokens \in Nat
        /\ b.Capacity \in Nat /\ now \in Nat /\ now - b.LastRefill \in Nat
        /\ now - t0 \in Nat /\ now - b.LastRefill <= now - t0
    BY DEF Bucket
  <1>2. due \in Nat /\ b.Capacity + due <= MaxInt
    <2>1. /\ due \in Nat /\ due <= Seconds(now - t0) * r
          /\ Seconds(now - t0) * r \in Nat
      BY <1>1, PayFacts
    <2> HIDE DEF due
    <2> QED
      BY <1>1, <2>1
  <1>3. c = IF Wrap(due) > 0
            THEN [b EXCEPT !.Tokens = Least(b.Capacity, Wrap(@ + Wrap(due))),
                           !.LastRefill = now]
            ELSE b
    BY DEF Refill
  <1>4. ~(due > 0) => now - b.LastRefill < TicksPerSec
    BY <1>1, NothingDue
  <1> HIDE DEF c, due
  <1>5. due \in 0..MaxInt /\ b.Tokens + due \in 0..MaxInt
    BY <1>1, <1>2
  <1>6. Wrap(due) = due /\ Wrap(b.Tokens + due) = b.Tokens + due
    BY <1>5, WrapFits
  <1>7. CASE due > 0
    <2>1. /\ c.Tokens = Least(b.Capacity, b.Tokens + due)
          /\ c.Capacity = b.Capacity /\ c.RefillRate = b.RefillRate
      BY <1>3, <1>6, <1>7 DEF Bucket
    <2>2. c.Tokens \in Nat \ {0} /\ c.Tokens <= b.Capacity
      BY <1>1, <1>2, <1>7, <2>1 DEF Least
    <2> QED
      BY <1>1, <2>1, <2>2 DEF c
  <1>8. CASE ~(due > 0)
    <2>1. c = b
      BY <1>3, <1>6, <1>8
    <2> QED
      BY <1>1, <1>4, <1>8, <2>1 DEF c
  <1> QED
    BY <1>7, <1>8

\* What a refusal of a patient bucket says of it.
LEMMA DenyPatient ==
  ASSUME PatientInv, NEW p \in Clients, Deny(p), Fits(key[p]),
         bucket[key[p]].RefillRate > 0
  PROVE  LET b == bucket[key[p]] IN
         /\ Refill(b) = b
         /\ now - b.LastRefill < TicksPerSec
         /\ b.LastRefill <= now
  <1> DEFINE k == key[p]
             b == bucket[k]
  <1>1. /\ k \in present /\ k \in Keys /\ b \in Bucket /\ now \in 0..MaxTime
        /\ born[k] \in Nat /\ Patient(k)
        /\ Bounded(b, granted[k], born[k], now)
    BY DEF PatientInv, IInv, TypeOK, Deny
  <1>2. Refill(b).Tokens <= 0
    BY DEF Deny
  <1>3. /\ b.Capacity + Seconds(now - born[k]) * b.RefillRate <= MaxInt
        /\ b.Capacity = b.RefillRate /\ 0 <= b.Tokens /\ b.Tokens <= b.Capacity
        /\ born[k] <= b.LastRefill /\ b.LastRefill <= now
    BY <1>1 DEF Patient, Fits, Bounded
  <1> HIDE DEF b, k
  <1>4. Refill(b) = b /\ now - b.LastRefill < TicksPerSec
    BY <1>1, <1>2, <1>3, RefillPays DEF b, k
  <1> QED
    BY <1>3, <1>4 DEF b, k

\* Time only makes it harder to fit.
LEMMA FitsBefore ==
  ASSUME TypeOK, NEW k \in Keys, born[k] <= now, now' \in Nat, now <= now',
         UNCHANGED <<bucket, born>>, Fits(k)'
  PROVE  Fits(k)
  <1> DEFINE r == bucket[k].RefillRate
             s == Seconds(now - born[k]) * r
             t == Seconds(now' - born[k]) * r
  <1>1. /\ r \in Nat /\ now - born[k] \in Nat /\ now' - born[k] \in Nat
        /\ now - born[k] <= now' - born[k] /\ bucket[k].Capacity \in Nat
    BY DEF TypeOK, Bucket
  <1>2. s \in Nat /\ t \in Nat /\ s <= t
    BY <1>1, PayFacts
  <1>3. bucket[k].Capacity + t <= MaxInt
    BY DEF Fits
  <1> HIDE DEF s, t
  <1>4. bucket[k].Capacity + s <= MaxInt
    BY <1>1, <1>2, <1>3
  <1> QED
    BY <1>4 DEF Fits, s

\* Every step keeps the promise of a Retry-After, or is its end.
LEMMA PatientStep == PatientInv /\ [Next]_vars => PatientInv'
  <1> SUFFICES ASSUME PatientInv, [Next]_vars, NEW j \in present'
               PROVE  Patient(j)'
    BY BoundStep DEF PatientInv
  <1> USE DEF clients, clean, hist
  <1>0. /\ IInv /\ TypeOK /\ now \in 0..MaxTime /\ bucket \in [Keys -> Bucket]
        /\ refusedAt \in [Keys -> (0..MaxTime) \cup {Never}]
        /\ born \in [Keys -> 0..MaxTime]
        /\ \A k \in present : k \in Keys /\ Patient(k)
                              /\ Bounded(bucket[k], granted[k], born[k], now)
    BY DEF PatientInv, IInv, TypeOK
  \* The bucket of j is as it was.
  <1>Same. ASSUME j \in present, bucket'[j] = bucket[j], born'[j] = born[j],
                  refusedAt'[j] = refusedAt[j], now' = now
           PROVE  Patient(j)'
    BY <1>0, <1>Same DEF Patient, Fits
  <1>Quiet. ASSUME present' \subseteq present,
                   UNCHANGED <<now, bucket, born, refusedAt>>
            PROVE  Patient(j)'
    BY <1>Same, <1>Quiet
  <1>Put. ASSUME NEW k \in Keys, NEW t \in Int, NEW limit \in 0..MaxInt, NEW e,
                 NEW g, Put(k, NewBucket(t, limit, e), g), now' = now,
                 limit > 0 => 0 <= t /\ t <= limit
          PROVE  Patient(j)'
    <2>1. CASE j = k
      <3>1. /\ bucket'[j] = NewBucket(t, limit, e) /\ refusedAt'[j] = Never
        BY <1>0, <1>Put, <2>1 DEF Put
      <3> QED
        BY <1>Put, <3>1 DEF Patient, NewBucket
    <2>2. CASE j # k
      <3>1. /\ j \in present /\ bucket'[j] = bucket[j] /\ born'[j] = born[j]
            /\ refusedAt'[j] = refusedAt[j]
        BY <1>0, <1>Put, <2>2 DEF Put
      <3> QED
        BY <1>Put, <1>Same, <3>1
    <2> QED
      BY <2>1, <2>2
  <1>AllowNew. ASSUME NEW p \in Clients, AllowNew(p) PROVE Patient(j)'
    <2>1. /\ key[p] \in Keys /\ Put(key[p], NewBucket(Limit - 1, Limit, 0), 1)
          /\ now' = now
      BY <1>0, <1>AllowNew DEF AllowNew, TypeOK
    <2>2. Limit - 1 \in Int /\ (Limit > 0 => 0 <= Limit - 1 /\ Limit - 1 <= Limit)
      OBVIOUS
    <2> QED
      BY <1>Put, <2>1, <2>2
  <1>Set. ASSUME NEW k \in Keys, Set(k) \/ SetWithExpiration(k)
          PROVE  Patient(j)'
    <2>0. PICK limit \in Limits : \E e : Put(k, NewBucket(limit, limit, e), 0)
      BY <1>Set DEF Set, SetWithExpiration
    <2>1. PICK e : Put(k, NewBucket(limit, limit, e), 0)
      BY <2>0
    <2>2. limit \in 0..MaxInt /\ limit \in Int /\ now' = now
      BY <1>Set DEF Set, SetWithExpiration
    <2> QED
      BY <1>Put, <2>1, <2>2
  <1>Spend. ASSUME NEW p \in Clients, Grant(p) \/ Deny(p), j # key[p]
            PROVE  Patient(j)'
    <2>1. /\ j \in present /\ bucket'[j] = bucket[j] /\ born'[j] = born[j]
          /\ refusedAt'[j] = refusedAt[j] /\ now' = now
      BY <1>0, <1>Spend DEF Grant, Deny
    <2> QED
      BY <1>Same, <2>1
  <1>Grant. ASSUME NEW p \in Clients, Grant(p), j = key[p]
            PROVE  Patient(j)'
    <2> DEFINE b == bucket[j]
               c == Refill(b)
               d == [c EXCEPT !.Tokens = @ - 1]
    <2>1. /\ j \in present /\ bucket'[j] = d /\ born' = born /\ now' = now
          /\ refusedAt'[j] = Never /\ c.Tokens > 0
      BY <1>0, <1>Grant DEF Grant
    <2>2. /\ b \in Bucket /\ c \in Bucket /\ born[j] \in Nat /\ Patient(j)
          /\ born[j] <= b.LastRefill /\ b.LastRefill <= now
      BY <1>0, <2>1, RefillType DEF Bounded
    <2>3. /\ d.Tokens = c.Tokens - 1 /\ d.Capacity = c.Capacity
          /\ d.RefillRate = c.RefillRate
      BY <2>2 DEF Bucket
    <2>4. c.Capacity = b.Capacity /\ c.RefillRate = b.RefillRate
      BY <2>2 DEF Refill, Bucket
    <2>5. c.Tokens \in Nat \ {0} /\ b.Capacity \in Nat
      BY <2>1, <2>2 DEF Bucket
    <2> HIDE DEF d, c
    <2>6. ASSUME Fits(j)', b.RefillRate > 0
          PROVE  c.Tokens <= b.Capacity
      <3>1. b.Capacity + Seconds(now - born[j]) * b.RefillRate <= MaxInt
        BY <2>1, <2>3, <2>4, <2>6 DEF Fits
      <3>2. /\ b.Capacity = b.RefillRate
            /\ 0 <= b.Tokens /\ b.Tokens <= b.Capacity
        BY <2>2, <2>6, <3>1 DEF Patient, Fits
      <3> HIDE DEF b
      <3> QED
        BY <1>0, <2>2, <2>6, <3>1, <3>2, RefillPays DEF c
    <2>7. b.Capacity = b.RefillRate
      BY <2>2 DEF Patient
    <2> QED
      BY <2>1, <2>3, <2>4, <2>5, <2>6, <2>7 DEF Patient
  <1>Deny. ASSUME NEW p \in Clients, Deny(p), j = key[p]
           PROVE  Patient(j)'
    <2> DEFINE b == bucket[j]
               c == Refill(b)
    <2>1. /\ j \in present /\ bucket'[j] = c /\ born' = born /\ now' = now
          /\ refusedAt'[j] = IF refusedAt[j] = Never THEN now ELSE refusedAt[j]
      BY <1>0, <1>Deny DEF Deny
    <2>2. b \in Bucket /\ Patient(j)
      BY <1>0, <2>1
    <2>3. c.Capacity = b.Capacity /\ c.RefillRate = b.RefillRate
      BY <2>2 DEF Refill, Bucket
    <2> HIDE DEF c
    <2>4. ASSUME Fits(j)', b.RefillRate > 0
          PROVE  /\ c = b /\ 0 <= b.Tokens /\ b.Tokens <= b.Capacity
                 /\ b.LastRefill <= refusedAt'[j]
      <3>1. Fits(j)
        BY <2>1, <2>3, <2>4 DEF Fits
      <3>2. c = b /\ b.LastRefill <= now
        BY <1>Deny, <2>4, <3>1, DenyPatient DEF c
      <3>3. /\ 0 <= b.Tokens /\ b.Tokens <= b.Capacity
            /\ refusedAt[j] # Never => b.LastRefill <= refusedAt[j]
        BY <2>2, <2>4, <3>1 DEF Patient
      <3> QED
        BY <2>1, <3>2, <3>3
    <2>5. b.Capacity = b.RefillRate
      BY <2>2 DEF Patient
    <2> QED
      BY <2>1, <2>3, <2>4, <2>5 DEF Patient
  <1>Tick. CASE Tick
    <2>1. /\ now' = now + 1 /\ UNCHANGED <<present, bucket, born, refusedAt>>
      BY <1>Tick DEF Tick
    <2>2. /\ j \in present /\ j \in Keys /\ Patient(j) /\ born[j] <= now
          /\ now' \in Nat /\ now <= now'
      <3>1. /\ j \in present /\ j \in Keys /\ Patient(j)
            /\ born[j] <= bucket[j].LastRefill /\ bucket[j].LastRefill <= now
            /\ bucket[j].LastRefill \in Int
        BY <1>0, <2>1 DEF Bounded, Bucket
      <3> QED
        BY <1>0, <2>1, <3>1
    <2>3. Fits(j)' => Fits(j)
      BY <1>0, <2>1, <2>2, FitsBefore
    <2> QED
      BY <2>1, <2>2, <2>3 DEF Patient
  <1>Rest. ASSUME NEW p \in Clients, Begin(p) \/ AllowExpired(p) \/ Respond(p)
           PROVE  Patient(j)'
    BY <1>Rest, <1>Quiet DEF Begin, AllowExpired, Respond
  <1>Keep. CASE \/ Cleanup \/ Close \/ TickerFires \/ Cleaner
                \/ (\E k \in Keys : Delete(k)) \/ UNCHANGED vars
    BY <1>Keep, <1>Quiet DEF Cleanup, Close, TickerFires, Cleaner, CleanerWakes,
       CleanerSweeps, CleanerStops, RemoveExpired, Delete, vars
  <1> QED
    BY <1>AllowNew, <1>Set, <1>Spend, <1>Grant, <1>Deny, <1>Tick, <1>Rest, <1>Keep
    DEF Next, Request, Operator

\* "Retry-After: 1" is honest: as long as a bucket's sums do not overflow, a
\* client refused once, and never admitted after, is not refused a second or
\* more later, with any clock and any limits, however often it asks
\* meanwhile: its retries do not move LastRefill.
THEOREM RetryAfterKept == Spec => RetryAfterHonest
  <1>1. Init => PatientInv
    BY BoundInit DEF Init, PatientInv
  <1>2. PatientInv /\ [Next]_vars =>
          [\A p \in Clients :
             LET k == key[p] IN
             Deny(p) /\ bucket[k].RefillRate > 0 /\ Fits(k)
               /\ refusedAt[k] # Never
               => now - refusedAt[k] < TicksPerSec]_vars
    <2> SUFFICES ASSUME PatientInv, NEW p \in Clients, Deny(p),
                        bucket[key[p]].RefillRate > 0, Fits(key[p]),
                        refusedAt[key[p]] # Never
                 PROVE  now - refusedAt[key[p]] < TicksPerSec
      OBVIOUS
    <2> DEFINE k == key[p]
    <2>1. /\ k \in present /\ k \in Keys /\ Patient(k) /\ now \in Nat
          /\ refusedAt[k] \in Nat /\ bucket[k].LastRefill \in Nat
      BY DEF PatientInv, IInv, TypeOK, Deny, Bucket
    <2>2. now - bucket[k].LastRefill < TicksPerSec
      BY DenyPatient
    <2>3. bucket[k].LastRefill <= refusedAt[k]
      BY <2>1 DEF Patient
    <2> QED
      BY <2>1, <2>2, <2>3
  <1> QED
    BY <1>1, <1>2, PatientStep, PTL DEF Spec, RetryAfterHonest

=============================================================================
