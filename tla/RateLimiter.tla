----------------------------- MODULE RateLimiter -----------------------------
(***************************************************************************)
(* InMemoryRateLimiter (middleware/ratelimiter.go): token buckets in a map *)
(* under one mutex, the middleware that asks Allow for every request, the  *)
(* operator's calls, and the goroutine that removes expired buckets.       *)
(*                                                                         *)
(* A method's body between Lock and Unlock is one step that waits for the  *)
(* mutex to be free. The mutex is held across steps in one place only: an  *)
(* Allow that calls itself. Get, GetWithExpiration and Exists change       *)
(* nothing and are left out, but for the middleware's own wait for them.   *)
(***************************************************************************)
EXTENDS Integers

CONSTANTS
  Keys,         \* remote addresses
  Clients,      \* goroutines with requests
  Limit,        \* defaultConfig.Limit
  Limits,       \* limits an operator sets
  Expiries,     \* Unix times an operator lets a limit expire at
  TicksPerSec,  \* ticks of the clock in a second
  MaxInt,       \* the largest integer: 2^63-1 in the code
  MaxTime,      \* bound: the clock's last tick
  NoOne         \* nobody holds the mutex

ASSUME RateLimiterAssumption ==
  /\ TicksPerSec \in Nat \ {0}
  /\ MaxInt \in Nat
  /\ MaxTime \in Nat
  /\ Limit \in 0..MaxInt
  /\ Limits \subseteq 0..MaxInt
  /\ Expiries \subseteq Nat
  /\ NoOne \notin Clients

VARIABLES
  now,        \* the clock, in ticks
  present,    \* the keys in the map
  bucket,     \* their TokenBucketEntry
  mutex,      \* the client that holds the mutex between two steps
  pc,         \* where a client's request is in the middleware
  key,        \* the key of its request
  ticker,     \* the cleaner's Ticker runs
  tick,       \* a tick waits in its channel
  stopped,    \* stopCleaner is closed
  cleaner,    \* where the cleaner's goroutine is
  granted,    \* history: requests a key's bucket has admitted
  born,       \* history: when the bucket was made
  refusedAt   \* history: its first refusal since it last admitted one

clients == <<pc, key>>
clean   == <<ticker, tick, stopped, cleaner>>
hist    == <<granted, born, refusedAt>>
vars    == <<now, present, bucket, mutex, clients, clean, hist>>

\* TokenBucketEntry; LastRefill in ticks, ExpiresAt in seconds, 0 for never.
Bucket == [Tokens     : (-MaxInt - 1)..MaxInt,
           Capacity   : 0..MaxInt,
           RefillRate : 0..MaxInt,
           LastRefill : 0..MaxTime,
           ExpiresAt  : Nat]

NewBucket(tokens, limit, expires) ==
  [Tokens |-> tokens, Capacity |-> limit, RefillRate |-> limit,
   LastRefill |-> now, ExpiresAt |-> expires]

Never == -1

TypeOK ==
  /\ now \in 0..MaxTime
  /\ present \subseteq Keys
  /\ bucket \in [Keys -> Bucket]
  /\ mutex \in Clients \cup {NoOne}
  /\ pc \in [Clients -> {"idle", "allow", "respond", "stuck"}]
  /\ key \in [Clients -> Keys]
  /\ ticker \in BOOLEAN
  /\ tick \in BOOLEAN
  /\ stopped \in BOOLEAN
  /\ cleaner \in {"select", "sweep", "done"}
  /\ granted \in [Keys -> Nat]
  /\ born \in [Keys -> 0..MaxTime]
  /\ refusedAt \in [Keys -> (0..MaxTime) \cup {Never}]

Init ==
  /\ now = 0
  /\ present = {}
  /\ bucket = [k \in Keys |-> NewBucket(0, 0, 0)]
  /\ mutex = NoOne
  /\ pc = [p \in Clients |-> "idle"]
  /\ key \in [Clients -> Keys]
  /\ ticker = TRUE
  /\ tick = FALSE
  /\ stopped = FALSE
  /\ cleaner = "select"
  /\ granted = [k \in Keys |-> 0]
  /\ born = [k \in Keys |-> 0]
  /\ refusedAt = [k \in Keys |-> Never]

-----------------------------------------------------------------------------
(* The arithmetic of a bucket. *)

\* int64: what does not fit wraps around.
Wrap(x) == ((x + MaxInt + 1) % (2 * (MaxInt + 1))) - (MaxInt + 1)

\* Whole seconds of a time or a duration: Time.Unix and int64(d.Seconds()).
Seconds(t) == t \div TicksPerSec

Least(a, b) == IF a < b THEN a ELSE b

Expired(b) == b.ExpiresAt > 0 /\ Seconds(now) > b.ExpiresAt

\* Mutant: LastRefill is not moved, so the same second is paid out again.
RefillTwice(b) ==
  LET add == Wrap(Seconds(now - b.LastRefill) * b.RefillRate) IN
  IF add > 0
  THEN [b EXCEPT !.Tokens = Least(b.Capacity, Wrap(@ + add))]
  ELSE b

\* Mutant: LastRefill moves at every call, whole second or not.
RefillForgets(b) ==
  LET add == Wrap(Seconds(now - b.LastRefill) * b.RefillRate) IN
  IF add > 0
  THEN [b EXCEPT !.Tokens = Least(b.Capacity, Wrap(@ + add)),
                 !.LastRefill = now]
  ELSE [b EXCEPT !.LastRefill = now]

\* Tokens for the whole seconds since LastRefill, which moves only if there
\* are any.
Refill(b) ==
  LET add == Wrap(Seconds(now - b.LastRefill) * b.RefillRate) IN
  IF add > 0
  THEN [b EXCEPT !.Tokens = Least(b.Capacity, Wrap(@ + add)),
                 !.LastRefill = now]
  ELSE b

\* The bucket of k is replaced by b, and its history starts again.
Put(k, b, admitted) ==
  /\ present' = present \cup {k}
  /\ bucket' = [bucket EXCEPT ![k] = b]
  /\ granted' = [granted EXCEPT ![k] = admitted]
  /\ born' = [born EXCEPT ![k] = now]
  /\ refusedAt' = [refusedAt EXCEPT ![k] = Never]

-----------------------------------------------------------------------------
(* A request through the middleware. *)

Begin(p) ==
  /\ pc[p] = "idle"
  /\ \E k \in Keys : key' = [key EXCEPT ![p] = k]
  /\ pc' = [pc EXCEPT ![p] = "allow"]
  /\ UNCHANGED <<now, present, bucket, mutex, clean, hist>>

\* Allow has the mutex.
InAllow(p) == pc[p] = "allow" /\ mutex = NoOne

\* No bucket: a new one, less a token for this request.
AllowNew(p) ==
  /\ InAllow(p)
  /\ key[p] \notin present
  /\ Put(key[p], NewBucket(Limit - 1, Limit, 0), 1)
  /\ pc' = [pc EXCEPT ![p] = "respond"]
  /\ UNCHANGED <<now, mutex, key, clean>>

\* An expired bucket is deleted, and Allow called again with the mutex still
\* held: the inner Lock waits for the outer Unlock.
AllowExpired(p) ==
  /\ InAllow(p)
  /\ key[p] \in present
  /\ Expired(bucket[key[p]])
  /\ present' = present \ {key[p]}
  /\ mutex' = p
  /\ pc' = [pc EXCEPT ![p] = "stuck"]
  /\ UNCHANGED <<now, bucket, key, clean, hist>>

\* Mutant: no look at the tokens.
GrantAlways(p) ==
  LET k == key[p]
      b == Refill(bucket[k])
  IN
  /\ InAllow(p)
  /\ k \in present
  /\ ~Expired(bucket[k])
  /\ bucket' = [bucket EXCEPT ![k] = [b EXCEPT !.Tokens = @ - 1]]
  /\ granted' = [granted EXCEPT ![k] = @ + 1]
  /\ refusedAt' = [refusedAt EXCEPT ![k] = Never]
  /\ pc' = [pc EXCEPT ![p] = "respond"]
  /\ UNCHANGED <<now, present, mutex, key, clean, born>>

Grant(p) ==
  LET k == key[p]
      b == Refill(bucket[k])
  IN
  /\ InAllow(p)
  /\ k \in present
  /\ ~Expired(bucket[k])
  /\ b.Tokens > 0
  /\ bucket' = [bucket EXCEPT ![k] = [b EXCEPT !.Tokens = @ - 1]]
  /\ granted' = [granted EXCEPT ![k] = @ + 1]
  /\ refusedAt' = [refusedAt EXCEPT ![k] = Never]
  /\ pc' = [pc EXCEPT ![p] = "respond"]
  /\ UNCHANGED <<now, present, mutex, key, clean, born>>

\* Mutant: a refusal returns without unlocking.
DenyLocked(p) ==
  LET k == key[p]
      b == Refill(bucket[k])
  IN
  /\ InAllow(p)
  /\ k \in present
  /\ ~Expired(bucket[k])
  /\ b.Tokens <= 0
  /\ bucket' = [bucket EXCEPT ![k] = b]
  /\ refusedAt' = [refusedAt EXCEPT ![k] = IF @ = Never THEN now ELSE @]
  /\ pc' = [pc EXCEPT ![p] = "respond"]
  /\ mutex' = p
  /\ UNCHANGED <<now, present, key, clean, granted, born>>

Deny(p) ==
  LET k == key[p]
      b == Refill(bucket[k])
  IN
  /\ InAllow(p)
  /\ k \in present
  /\ ~Expired(bucket[k])
  /\ b.Tokens <= 0
  /\ bucket' = [bucket EXCEPT ![k] = b]
  /\ refusedAt' = [refusedAt EXCEPT ![k] = IF @ = Never THEN now ELSE @]
  /\ pc' = [pc EXCEPT ![p] = "respond"]
  /\ UNCHANGED <<now, present, mutex, key, clean, granted, born>>

\* The middleware reads the bucket for its headers under the mutex, then
\* answers 429 or calls next.
Respond(p) ==
  /\ pc[p] = "respond"
  /\ mutex = NoOne
  /\ pc' = [pc EXCEPT ![p] = "idle"]
  /\ UNCHANGED <<now, present, bucket, mutex, key, clean, hist>>

Request(p) ==
  AllowNew(p) \/ AllowExpired(p) \/ Grant(p) \/ Deny(p) \/ Respond(p)

-----------------------------------------------------------------------------
(* The operator's calls. *)

Set(k) ==
  /\ mutex = NoOne
  /\ \E limit \in Limits : Put(k, NewBucket(limit, limit, 0), 0)
  /\ UNCHANGED <<now, mutex, clients, clean>>

SetWithExpiration(k) ==
  /\ mutex = NoOne
  /\ \E limit \in Limits, expiration \in Expiries :
        Put(k, NewBucket(limit, limit, expiration), 0)
  /\ UNCHANGED <<now, mutex, clients, clean>>

Delete(k) ==
  /\ mutex = NoOne
  /\ k \in present
  /\ present' = present \ {k}
  /\ UNCHANGED <<now, bucket, mutex, clients, clean, hist>>

RemoveExpired == present' = {k \in present : ~Expired(bucket[k])}

Cleanup ==
  /\ mutex = NoOne
  /\ RemoveExpired
  /\ UNCHANGED <<now, bucket, mutex, clients, clean, hist>>

\* Mutant: the ticker is stopped, the goroutine is not told.
CloseTicker ==
  /\ ~stopped
  /\ ticker' = FALSE
  /\ UNCHANGED <<now, present, bucket, mutex, clients, tick, stopped, cleaner,
                 hist>>

\* A second call closes a closed channel: a panic of its caller, which
\* changes nothing here.
Close ==
  /\ ~stopped
  /\ ticker' = FALSE
  /\ stopped' = TRUE
  /\ UNCHANGED <<now, present, bucket, mutex, clients, tick, cleaner, hist>>

Operator ==
  \/ \E k \in Keys : Set(k) \/ SetWithExpiration(k) \/ Delete(k)
  \/ Cleanup
  \/ Close

-----------------------------------------------------------------------------
(* The cleaner, and time. *)

\* The Ticker drops a tick nobody has taken yet.
TickerFires ==
  /\ ticker
  /\ ~tick
  /\ tick' = TRUE
  /\ UNCHANGED <<now, present, bucket, mutex, clients, ticker, stopped,
                 cleaner, hist>>

\* select picks either channel when both are ready.
CleanerWakes ==
  /\ cleaner = "select"
  /\ tick
  /\ tick' = FALSE
  /\ cleaner' = "sweep"
  /\ UNCHANGED <<now, present, bucket, mutex, clients, ticker, stopped, hist>>

CleanerSweeps ==
  /\ cleaner = "sweep"
  /\ mutex = NoOne
  /\ RemoveExpired
  /\ cleaner' = "select"
  /\ UNCHANGED <<now, bucket, mutex, clients, ticker, tick, stopped, hist>>

CleanerStops ==
  /\ cleaner = "select"
  /\ stopped
  /\ cleaner' = "done"
  /\ UNCHANGED <<now, present, bucket, mutex, clients, ticker, tick, stopped,
                 hist>>

Cleaner == CleanerWakes \/ CleanerSweeps \/ CleanerStops

Tick ==
  /\ now < MaxTime
  /\ now' = now + 1
  /\ UNCHANGED <<present, bucket, mutex, clients, clean, hist>>

Next ==
  \/ \E p \in Clients : Begin(p) \/ Request(p)
  \/ Operator
  \/ TickerFires
  \/ Cleaner
  \/ Tick

\* Goroutines that can run do: a request's and the cleaner's. The mutex is
\* free between two steps unless an Allow keeps it, so none starves for it.
Fairness == (\A p \in Clients : WF_vars(Request(p))) /\ WF_vars(Cleaner)

Spec == Init /\ [][Next]_vars /\ Fairness

-----------------------------------------------------------------------------
(* Properties. *)

\* A bucket of capacity 0 that Allow makes has admitted its first request.
Burst(b) == IF b.Capacity = 0 THEN 1 ELSE b.Capacity

\* The promise of a token bucket: since it was made, a bucket has admitted no
\* more than its burst and its rate for every whole second since, however
\* the requests, refusals and refills fell, and though sums may overflow.
RateBound ==
  \A k \in present :
    granted[k] <= Burst(bucket[k])
                    + Seconds(now - born[k]) * bucket[k].RefillRate

\* The bucket's sums have not overflowed.
Fits(k) ==
  bucket[k].Capacity + Seconds(now - born[k]) * bucket[k].RefillRate <= MaxInt

\* "Retry-After: 1" is kept: a key refused once, and then nothing admitted,
\* is not refused a second or more later, however often it asks meanwhile.
RetryAfterHonest ==
  [][\A p \in Clients :
       LET k == key[p] IN
       Deny(p) /\ bucket[k].RefillRate > 0 /\ Fits(k) /\ refusedAt[k] # Never
         => now - refusedAt[k] < TicksPerSec]_vars

Stuck == \E p \in Clients : pc[p] = "stuck"

\* Every request gets through the limiter, unless an Allow has met an expired
\* bucket: no other path keeps the mutex.
DecidedUnlessStuck ==
  \A p \in Clients : pc[p] = "allow" ~> (pc[p] = "idle" \/ Stuck)

\* Close ends the cleaner's goroutine, a tick waiting or not.
CleanerEnds == ~ticker ~> (cleaner = "done" \/ Stuck)

\* Every request gets through the limiter, also when its bucket has expired:
\* Allow then makes a new one.
EveryRequestDecided ==
  \A p \in Clients : pc[p] = "allow" ~> pc[p] = "idle"
=============================================================================
