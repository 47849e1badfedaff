-------------------------------- MODULE Cache --------------------------------
(***************************************************************************)
(* An application (as in example/cache) behind extensions/cache.go:        *)
(* requests go through CacheMiddleware, and writers change what handlers   *)
(* show and use the store of the cache themselves. The store is one of     *)
(* MapCache and RedisCache. What a handler shows of a key is a version     *)
(* number. The middleware's writing of responses is in Connection.         *)
(***************************************************************************)
EXTENDS Integers, FiniteSets, FiniteSetsExt

CONSTANTS
  Requests,    \* goroutines that serve requests, one after another
  Writers,
  Keys,        \* "method:path"
  TicksPerSec, \* resolution of the clock
  Nobody, None, Nil, Other, Waiting, Done, Failed, Found, Miss,
  DefaultTTL,  \* what a new store has, in ticks
  TTLs,        \* what SetDefaultTTL may be given
  Deadlines,   \* what SetWithExpiration may be given, in seconds
  MaxTime,     \* bound on the clock
  MaxVersion,  \* bound on the versions of a key
  MaxLate      \* bound: Redis commands given up on that may still arrive

ASSUME CacheAssumption ==
  /\ TicksPerSec \in Nat \ {0}
  /\ MaxTime \in Nat /\ MaxVersion \in Nat \ {0} /\ MaxLate \in Nat
  /\ DefaultTTL \in Nat \ {0} /\ TTLs \subseteq Nat \ {0}
  /\ Deadlines \subseteq Nat
  /\ Nobody \notin Requests \cup Writers /\ Requests \cap Writers = {}

Callers == Requests \cup Writers
Bodies  == 1..MaxVersion
Values  == Bodies \cup {Nil, Other}

\* The values that stand for something can be told apart.
ASSUME CacheValues ==
  /\ None \notin {Waiting, Done, Failed, Found, Miss} \cup Values
  /\ Waiting \notin {Done, Failed, Found, Miss} \cup Values
  /\ Done # Failed /\ Bodies \cap {Nil, Other, Miss} = {}
  /\ None \notin [Value : Values, ExpiresAt : Nat]
  /\ None \notin [value : Values, until : Nat]

VARIABLES
  store,                \* which of the two: "map" or "redis"
  now, ttl,             \* the clock; the default time to live of the store
  call, reply,          \* for each caller its last call, and the answer
  data, cleaner,        \* of MapCache
  db, late, closed,     \* of RedisCache
  version,              \* for each key what a handler shows now
  pc,                   \* for each request "idle", "get", "run", "made", "set"
  key,                  \* the key of its response, or None
  body,                 \* what its handler has written, or None
  floor,                \* history: no older body can come back to a key
  since                 \* history: the floor when a request began

Map   == INSTANCE MapCache
Redis == INSTANCE RedisCache

inMap   == <<data, cleaner>>
inRedis == <<db, late, closed>>
common  == <<now, ttl, call, reply>>
app     == <<version, pc, key, body, floor, since>>
vars    == <<store, common, inMap, inRedis, app>>

Ops == {"get", "exists", "set", "setAt", "delete"}
Calls(p) == [by : {p}, op : Ops, key : Keys, value : Values,
             exp : Deadlines \cup {0}, px : Nat]

TypeOK ==
  /\ store \in {"map", "redis"}
  /\ now \in Nat /\ ttl \in Nat
  /\ \A p \in Callers : call[p] = None \/ call[p] \in Calls(p)
  /\ \A p \in Callers :
       reply[p] \in {None, Waiting, Done, Failed, Found, Miss} \cup Values
  /\ \A k \in Keys :
       /\ data[k] = None \/ data[k] \in [Value : Values, ExpiresAt : Nat]
       /\ db[k] = None \/ db[k] \in [value : Bodies, until : Nat]
  /\ cleaner \in {"on", "closing", "off"}
  /\ \A m \in late : m \in Calls(Nobody) /\ m.op \notin {"get", "exists"}
  /\ closed \in BOOLEAN
  /\ version \in [Keys -> Bodies]
  /\ pc \in [Requests -> {"idle", "get", "run", "made", "set"}]
  /\ key \in [Requests -> Keys \cup {None}]
  /\ body \in [Requests -> Bodies \cup {None}]
  /\ floor \in [Keys -> Bodies] /\ since \in [Requests -> Bodies \cup {None}]

Init ==
  /\ store \in {"map", "redis"}
  /\ now = TicksPerSec  \* Unix time is not 0
  /\ ttl = DefaultTTL
  /\ call = [p \in Callers |-> None]
  /\ reply = [p \in Callers |-> None]
  /\ Map!Init /\ Redis!Init
  /\ version = [k \in Keys |-> 1]
  /\ pc = [r \in Requests |-> "idle"]
  /\ key = [r \in Requests |-> None]
  /\ body = [r \in Requests |-> None]
  /\ floor = [k \in Keys |-> 1]
  /\ since = [r \in Requests |-> None]

-----------------------------------------------------------------------------
(* Calls.                                                                  *)

Issue(p, op, k, value, exp) ==
  /\ call' = [call EXCEPT ![p] =
       [by |-> p, op |-> op, key |-> k, value |-> value, exp |-> exp,
        px |-> IF store = "redis" THEN Redis!Px(op, exp) ELSE 0]]
  /\ reply' = [reply EXCEPT ![p] = Waiting]
  /\ UNCHANGED <<store, now, ttl, inMap, inRedis>>

Return(p) ==
  /\ reply' = [reply EXCEPT ![p] = None]
  /\ UNCHANGED <<store, now, ttl, call, inMap, inRedis>>

\* Writes that may still take effect.
Sent == {call[p] : p \in {q \in Callers : reply[q] = Waiting
                                          /\ call[q].op \notin {"get", "exists"}}}
        \cup late

\* Bodies of k on their way into the store.
Filling(k) ==
  {m.value : m \in {w \in Sent : /\ w.key = k /\ w.op # "delete"
                                 /\ w.value \in Bodies}}
  \cup {body[r] : r \in {q \in Requests : pc[q] = "made" /\ key[q] = k}}

\* The history of a delete that has worked: what may come back is what was on
\* its way.
Deleted(p) ==
  /\ floor' = IF call[p].op = "delete" /\ reply'[p] = Done
              THEN [floor EXCEPT ![call[p].key] =
                      Min({version[call[p].key]} \cup Filling(call[p].key))]
              ELSE floor
  /\ UNCHANGED <<store, version, pc, key, body, since>>

MapStep(p) ==
  /\ store = "map"
  /\ Map!Do(p)
  /\ Deleted(p)
  /\ UNCHANGED inRedis

RedisStep(p) ==
  /\ store = "redis"
  /\ Redis!Serve(p) \/ Redis!Retry(p)
  /\ Deleted(p)
  /\ UNCHANGED inMap

\* The client's own ends of a call.
RedisGivesUp(p) ==
  /\ store = "redis"
  /\ Redis!Refuse(p) \/ Redis!GiveUp(p)
  /\ Deleted(p)
  /\ UNCHANGED inMap

-----------------------------------------------------------------------------
(* A request in CacheMiddleware.                                           *)

Begin(r, k) ==
  /\ pc[r] = "idle"
  /\ Issue(r, "get", k, Nil, 0)
  /\ pc' = [pc EXCEPT ![r] = "get"]
  /\ key' = [key EXCEPT ![r] = k]
  /\ since' = [since EXCEPT ![r] = floor[k]]
  /\ UNCHANGED <<version, body, floor>>

End(r) ==
  /\ pc' = [pc EXCEPT ![r] = "idle"]
  /\ key' = [key EXCEPT ![r] = None]

\* A hit is answered; anything that is not a []byte is not one.
GetReturns(r) ==
  /\ pc[r] = "get" /\ reply[r] # Waiting
  /\ Return(r)
  /\ \/ reply[r] \in Bodies /\ End(r)
     \/ reply[r] \notin Bodies /\ pc' = [pc EXCEPT ![r] = "run"] /\ UNCHANGED key
  /\ since' = [since EXCEPT ![r] = None]
  /\ UNCHANGED <<version, body, floor>>

\* next: the handler makes its response, and some time later returns.
Make(r) ==
  /\ pc[r] = "run"
  /\ body' = [body EXCEPT ![r] = version[key[r]]]
  /\ pc' = [pc EXCEPT ![r] = "made"]
  /\ UNCHANGED <<store, common, inMap, inRedis, version, key, floor, since>>

Fill(r) ==
  /\ pc[r] = "made"
  /\ Issue(r, "set", key[r], body[r], 0)
  /\ pc' = [pc EXCEPT ![r] = "set"]
  /\ body' = [body EXCEPT ![r] = None]
  /\ UNCHANGED <<version, key, floor, since>>

\* The status is not 200, the body empty, or the handler panics.
NoFill(r) ==
  /\ pc[r] = "made"
  /\ End(r)
  /\ body' = [body EXCEPT ![r] = None]
  /\ UNCHANGED <<store, common, inMap, inRedis, version, floor, since>>

\* Whether the response was stored makes no difference.
FillReturns(r) ==
  /\ pc[r] = "set" /\ reply[r] # Waiting
  /\ Return(r)
  /\ End(r)
  /\ UNCHANGED <<version, body, floor, since>>

Request(r) ==
  \/ GetReturns(r) \/ Make(r) \/ Fill(r) \/ NoFill(r) \/ FillReturns(r)

-----------------------------------------------------------------------------
(* The application's own use of the store.                                 *)

Change(k) ==
  /\ version[k] < MaxVersion
  /\ version' = [version EXCEPT ![k] = @ + 1]
  /\ UNCHANGED <<store, common, inMap, inRedis, pc, key, body, floor, since>>

Use(w, k) ==
  /\ reply[w] = None
  /\ \/ \E op \in {"exists", "delete"} : Issue(w, op, k, Nil, 0)
     \/ \E v \in {version[k], Nil} : Issue(w, "set", k, v, 0)
     \/ \E v \in {version[k], Other}, exp \in Deadlines :
          Issue(w, "setAt", k, v, exp)
  /\ UNCHANGED app

UseReturns(w) ==
  /\ reply[w] \notin {None, Waiting}
  /\ Return(w)
  /\ UNCHANGED app

SetDefaultTTL ==
  /\ \E t \in TTLs \ {ttl} : ttl' = t
  /\ UNCHANGED <<store, now, call, reply, inMap, inRedis, app>>

CloseStore ==
  /\ \/ store = "map" /\ Map!Close /\ UNCHANGED inRedis
     \/ store = "redis" /\ Redis!Close /\ UNCHANGED inMap
  /\ UNCHANGED <<store, app>>

-----------------------------------------------------------------------------
(* What goes on by itself.                                                 *)

Clean ==
  /\ store = "map"
  /\ Map!Sweep \/ Map!StopCleaner
  /\ UNCHANGED <<store, inRedis, app>>

Network ==
  /\ store = "redis"
  /\ \/ \E m \in late : Redis!ServeLate(m) \/ Redis!DropLate(m)
     \/ \E k \in Keys : db[k] # None /\ Redis!Lose(k)
  /\ UNCHANGED <<store, inMap, app>>

Tick ==
  /\ now < MaxTime
  /\ now' = now + 1
  /\ UNCHANGED <<store, ttl, call, reply, inMap, inRedis, app>>

Next ==
  \/ \E r \in Requests : Request(r) \/ \E k \in Keys : Begin(r, k)
  \/ \E w \in Writers : UseReturns(w) \/ \E k \in Keys : Use(w, k)
  \/ \E p \in Callers : MapStep(p) \/ RedisStep(p) \/ RedisGivesUp(p)
  \/ \E k \in Keys : Change(k)
  \/ SetDefaultTTL \/ CloseStore \/ Clean \/ Network \/ Tick

\* A request's handler and its calls of the store come to an end, those of the
\* Redis client by its time-outs; the cleaner's ticker ticks. The server and the
\* network owe nothing.
Fairness ==
  /\ \A r \in Requests : WF_vars(Request(r) \/ MapStep(r) \/ RedisGivesUp(r))
  /\ WF_vars(Clean)

Spec == Init /\ [][Next]_vars /\ Fairness

-----------------------------------------------------------------------------
(* Properties.                                                             *)

\* What can be got from either store. MapCache counts seconds: an entry is
\* there to the end of the second of ExpiresAt.
Entry(k) ==
  IF store = "redis" THEN db[k]
  ELSE IF data[k] = None THEN None
  ELSE [value |-> data[k].Value,
        until |-> IF data[k].ExpiresAt = 0 THEN 0
                  ELSE (data[k].ExpiresAt + 1) * TicksPerSec - 1]

Abs == INSTANCE CacheAbs WITH
         lossy <- store = "redis", sent <- Sent,
         entry <- [k \in Keys |-> Entry(k)]

\* Both stores, under concurrent calls, expiry, cleaning, time-outs and late
\* commands, do what CacheAbs promises (extensions/cache.go:9).
KeepsPromise == Abs!Spec

\* A request does not get a body older than a delete of its key that worked
\* before the request began, unless that body was on its way into the store
\* when the delete took effect: in a handler, in a Set that had not taken
\* effect, or on the network (the gap between extensions/cache.go:36 and :56).
Fresh ==
  \A r \in Requests : pc[r] = "get" /\ reply[r] \in Bodies => reply[r] >= since[r]

\* The cleaner of the store in memory removes what has expired, until Close
\* (extensions/map.go:32).
ExpiredRemoved ==
  \A k \in Keys :
    LET expired == store = "map" /\ data[k] # None /\ Map!Expired(data[k]) IN
    expired ~> (~expired \/ cleaner # "on")

\* A request comes to an end whatever the store answers, or if it does not
\* (extensions/cache.go:32).
RequestsEnd == \A r \in Requests : pc[r] # "idle" ~> pc[r] = "idle"
===============================================================================
