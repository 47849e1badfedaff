------------------------------- MODULE MapCache -------------------------------
(***************************************************************************)
(* The store in memory (extensions/map.go). A method's body runs under the *)
(* mutex: it is one step, some time between call and return. The goroutine *)
(* of startCleaner is Sweep.                                               *)
(***************************************************************************)
EXTENDS Integers

CONSTANTS Keys, TicksPerSec, None, Nil, Waiting, Done, Failed, Found, Miss

VARIABLES
  now,     \* the clock, in ticks
  ttl,     \* MapCache.ttl, in ticks
  call,    \* for each caller what it waits for: op, key, value, exp; or None
  reply,   \* for each caller Waiting, an answer, or None
  data,    \* MapCache.data
  cleaner  \* "on", "closing" (stopCleaner is closed), or "off"

Seconds(t) == t \div TicksPerSec

\* Mutant: >= for >.
ExpiredEarly(entry) == entry.ExpiresAt > 0 /\ Seconds(now) >= entry.ExpiresAt

Expired(entry) == entry.ExpiresAt > 0 /\ Seconds(now) > entry.ExpiresAt

Init ==
  /\ data = [k \in Keys |-> None]
  /\ cleaner = "on"

-----------------------------------------------------------------------------

Return(p, answer) ==
  /\ reply' = [reply EXCEPT ![p] = answer]
  /\ call' = [call EXCEPT ![p] = None]

Store(k, value, expiresAt) ==
  data' = [data EXCEPT ![k] = [Value |-> value, ExpiresAt |-> expiresAt]]

Get(p, k) ==
  /\ LET entry == data[k] IN
     Return(p, IF entry = None \/ (entry # None /\ Expired(entry)) THEN Miss
               ELSE entry.Value)
  /\ UNCHANGED data

Set(p, k, value) ==
  IF value = Nil THEN Return(p, Failed) /\ UNCHANGED data
  ELSE Return(p, Done) /\ Store(k, value, Seconds(now + ttl))

SetWithExpiration(p, k, value, expiration) ==
  /\ Return(p, Done)
  /\ Store(k, value, expiration)

\* Mutant: the entry expires now, instead of going.
DeleteExpires(p, k) ==
  /\ Return(p, Done)
  /\ data' = [data EXCEPT ![k] =
                IF data[k] = None THEN None
                ELSE [@ EXCEPT !.ExpiresAt = Seconds(now)]]

Delete(p, k) ==
  /\ Return(p, Done)
  /\ data' = [data EXCEPT ![k] = None]

Exists(p, k) ==
  /\ Return(p, IF data[k] = None THEN Miss ELSE Found)
  /\ UNCHANGED data

Do(p) ==
  /\ reply[p] = Waiting
  /\ LET m == call[p] IN
     \/ m.op = "get"    /\ Get(p, m.key)
     \/ m.op = "set"    /\ Set(p, m.key, m.value)
     \/ m.op = "setAt"  /\ SetWithExpiration(p, m.key, m.value, m.exp)
     \/ m.op = "delete" /\ Delete(p, m.key)
     \/ m.op = "exists" /\ Exists(p, m.key)
  /\ UNCHANGED <<now, ttl, cleaner>>

-----------------------------------------------------------------------------

\* Mutant: the cleaner removes what has not expired.
SweepLive ==
  /\ cleaner # "off"
  /\ \E k \in Keys : data[k] # None /\ ~Expired(data[k])
  /\ data' = [k \in Keys |->
                IF data[k] # None /\ ~Expired(data[k]) THEN None ELSE data[k]]
  /\ UNCHANGED <<now, ttl, call, reply, cleaner>>

\* The ticker has ticked, once a minute, and there is something to sweep.
Sweep ==
  /\ cleaner # "off"
  /\ \E k \in Keys : data[k] # None /\ Expired(data[k])
  /\ data' = [k \in Keys |->
                IF data[k] # None /\ Expired(data[k]) THEN None ELSE data[k]]
  /\ UNCHANGED <<now, ttl, call, reply, cleaner>>

\* Close (it answers nil) stops the ticker and closes stopCleaner; the select
\* may still take a tick that waits.
Close ==
  /\ cleaner = "on"
  /\ cleaner' = "closing"
  /\ UNCHANGED <<now, ttl, call, reply, data>>

StopCleaner ==
  /\ cleaner = "closing"
  /\ cleaner' = "off"
  /\ UNCHANGED <<now, ttl, call, reply, data>>
===============================================================================
