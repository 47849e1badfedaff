---------------------------- MODULE Cache_proofs ----------------------------
(***************************************************************************)
(* Theorems about Cache, for any requests, writers and keys, any times to  *)
(* live and deadlines, and any bounds on time, versions and commands on    *)
(* the way: type correctness, that no body older than a delete comes back, *)
(* and that either store implements CacheAbs.                              *)
(***************************************************************************)
EXTENDS Cache, TLAPS, WellFoundedInduction

-----------------------------------------------------------------------------
(* The clock in seconds, and the least of a set of versions.               *)

\* Seconds rounds down to a natural number.
LEMMA WholeSeconds ==
  ASSUME NEW t \in Nat
  PROVE  /\ t \div TicksPerSec \in Nat
         /\ TicksPerSec * (t \div TicksPerSec) <= t
         /\ t < TicksPerSec * (t \div TicksPerSec) + TicksPerSec
         /\ t >= TicksPerSec => t \div TicksPerSec > 0
  BY CacheAssumption

\* A set of versions that is not empty has a least one.
LEMMA LeastBody ==
  ASSUME NEW T, T \subseteq Nat, T # {}
  PROVE  Min(T) \in T /\ \A m \in T : Min(T) <= m
  <1> DEFINE R == OpToRel(<, Nat)
  <1>1. IsWellFoundedOn(R, Nat)
    BY NatLessThanWellFounded
  <1>2. \A m, n \in Nat : m < n => <<m, n>> \in R
    BY DEF OpToRel
  <1> HIDE DEF R
  <1>3. PICK n \in T : \A m \in T : ~(<<m, n>> \in R)
    BY <1>1, WFMin
  <1>4. ASSUME NEW m \in T PROVE n <= m
    <2>1. m \in Nat /\ n \in Nat /\ ~(m < n)
      BY <1>2, <1>3, <1>4
    <2> QED
      BY <2>1
  <1> QED
    BY <1>4 DEF Min

-----------------------------------------------------------------------------
(* Types, and where a request is when the store is at work for it.         *)

Replies == {None, Waiting, Done, Failed, Found, Miss} \cup Values
AnyCall == [by : Callers \cup {Nobody}, op : Ops, key : Keys, value : Values,
            exp : Deadlines \cup {0}, px : Nat]
Slots   == [Value : Values, ExpiresAt : Nat]
Kept    == [value : Bodies, until : Nat]

\* TypeOK, with functions in place of their values.
Shape ==
  /\ store \in {"map", "redis"} /\ now \in Nat /\ ttl \in Nat
  /\ call \in [Callers -> AnyCall \cup {None}]
  /\ reply \in [Callers -> Replies]
  /\ data \in [Keys -> Slots \cup {None}]
  /\ db \in [Keys -> Kept \cup {None}]
  /\ cleaner \in {"on", "closing", "off"} /\ closed \in BOOLEAN
  /\ late \subseteq AnyCall
  /\ version \in [Keys -> Bodies] /\ floor \in [Keys -> Bodies]
  /\ pc \in [Requests -> {"idle", "get", "run", "made", "set"}]
  /\ key \in [Requests -> Keys \cup {None}]
  /\ body \in [Requests -> Bodies \cup {None}]
  /\ since \in [Requests -> Bodies \cup {None}]

\* Calls carry the name of their caller, but those whose caller has gone on.
Signed ==
  /\ \A p \in Callers : call[p] # None => call[p] \in AnyCall /\ call[p].by = p
  /\ \A p \in Callers : reply[p] = Waiting => call[p] \in AnyCall /\ call[p].by = p
  /\ \A m \in late : /\ m.by = Nobody /\ m.op \in {"set", "setAt", "delete"}
                     /\ m.op # "delete" => m.value \in Bodies

\* What a request has and waits for at each of its steps.
Placed ==
  \A r \in Requests :
    /\ pc[r] \in {"idle", "run", "made"} => reply[r] = None
    /\ pc[r] \in {"get", "set"} => reply[r] # None
    /\ pc[r] # "idle" => key[r] \in Keys
    /\ pc[r] = "made" => body[r] \in Bodies
    /\ pc[r] = "get" => since[r] \in Bodies
    /\ pc[r] = "get" /\ reply[r] = Waiting =>
         call[r].op = "get" /\ call[r].key = key[r]

Typed == Shape /\ Signed /\ Placed

\* The parts of a call.
LEMMA CallParts ==
  ASSUME NEW m \in AnyCall
  PROVE  /\ m.op \in Ops /\ m.key \in Keys /\ m.value \in Values
         /\ m.exp \in Nat /\ m.px \in Nat
  <1>1. /\ m.op \in Ops /\ m.key \in Keys /\ m.value \in Values
        /\ m.exp \in Deadlines \cup {0} /\ m.px \in Nat
    BY DEF AnyCall
  <1>2. Deadlines \cup {0} \subseteq Nat
    BY CacheAssumption
  <1> QED
    BY <1>1, <1>2

\* The types as the runs check them.
LEMMA ShapeTypes == Shape /\ Signed => TypeOK
  BY DEF Shape, Signed, TypeOK, AnyCall, Calls, Slots, Kept, Replies, Ops

\* The first states have the types.
LEMMA TypedInit == Init => Typed
  <1> SUFFICES ASSUME Init PROVE Typed
    OBVIOUS
  <1> USE DEF Init, Map!Init, Redis!Init
  <1>1. 1 \in Bodies
    BY CacheAssumption DEF Bodies
  <1>2. Shape
    BY <1>1, CacheAssumption DEF Shape, Replies
  <1>3. Signed
    BY CacheValues DEF Signed
  <1>4. Placed
    BY DEF Placed, Callers
  <1> QED
    BY <1>2, <1>3, <1>4 DEF Typed

\* A call is one, whoever makes it.
LEMMA IssueTyped ==
  ASSUME Typed, NEW p \in Callers, NEW op \in Ops, NEW k \in Keys,
         NEW v \in Values, NEW e \in Deadlines \cup {0}, Issue(p, op, k, v, e)
  PROVE  /\ call' \in [Callers -> AnyCall \cup {None}]
         /\ reply' \in [Callers -> Replies]
         /\ Signed'
         /\ call'[p].op = op /\ call'[p].key = k /\ call'[p].value = v
         /\ call'[p].exp = e
         /\ call'[p].px = IF store = "redis" THEN Redis!Px(op, e) ELSE 0
         /\ reply'[p] = Waiting
         /\ \A q \in Callers \ {p} : call'[q] = call[q] /\ reply'[q] = reply[q]
  <1>1. (IF store = "redis" THEN Redis!Px(op, e) ELSE 0) \in Nat
    BY CacheAssumption, WholeSeconds
       DEF Typed, Shape, Redis!Px, Redis!Seconds
  <1> DEFINE px == IF store = "redis" THEN Redis!Px(op, e) ELSE 0
             m  == [by |-> p, op |-> op, key |-> k, value |-> v, exp |-> e,
                    px |-> px]
  <1>2. /\ m \in AnyCall /\ m.by = p /\ m.op = op /\ m.key = k /\ m.value = v
        /\ m.exp = e /\ m.px = px
    BY <1>1 DEF AnyCall
  <1>3. call' = [call EXCEPT ![p] = m] /\ reply' = [reply EXCEPT ![p] = Waiting]
        /\ late' = late
    BY DEF Issue, inRedis
  <1> HIDE DEF m
  <1>4. call'[p] = m
    BY <1>3 DEF Typed, Shape
  <1> QED
    <2> HIDE DEF px
    <2>1. call'[p].px = px
      BY <1>2, <1>4
    <2> QED
      BY <1>2, <1>3, <1>4, <2>1 DEF Typed, Shape, Signed, Replies, px

\* A caller goes on with its answer.
LEMMA ReturnTyped ==
  ASSUME Typed, NEW p \in Callers, Return(p), reply[p] # Waiting
  PROVE  /\ reply' \in [Callers -> Replies]
         /\ Signed'
         /\ reply'[p] = None
         /\ \A q \in Callers \ {p} : reply'[q] = reply[q]
  <1>1. reply' = [reply EXCEPT ![p] = None] /\ call' = call /\ late' = late
    BY DEF Return, inRedis
  <1>2. /\ reply' \in [Callers -> Replies]
        /\ reply'[p] = None
        /\ \A q \in Callers \ {p} : reply'[q] = reply[q]
    BY <1>1 DEF Typed, Shape, Replies
  <1>3. Signed'
    BY <1>1, <1>2, CacheValues DEF Typed, Signed
  <1> QED
    BY <1>2, <1>3

\* A store answers a call that waits.
LEMMA AnswerTyped ==
  ASSUME Typed, NEW p \in Callers, reply[p] = Waiting,
         NEW a, a \in Replies, a # None, a # Waiting,
         call' = [call EXCEPT ![p] = None], reply' = [reply EXCEPT ![p] = a],
         pc' = pc, key' = key, body' = body, since' = since
  PROVE  /\ call' \in [Callers -> AnyCall \cup {None}]
         /\ reply' \in [Callers -> Replies]
         /\ \A q \in Callers : call'[q] # None => call'[q] \in AnyCall /\ call'[q].by = q
         /\ \A q \in Callers :
              reply'[q] = Waiting => call'[q] \in AnyCall /\ call'[q].by = q
         /\ Placed'
  <1>1. call' \in [Callers -> AnyCall \cup {None}] /\ reply' \in [Callers -> Replies]
    BY DEF Typed, Shape
  <1>2. \A q \in Callers : /\ q # p => call'[q] = call[q] /\ reply'[q] = reply[q]
                           /\ q = p => call'[q] = None /\ reply'[q] = a
    BY DEF Typed, Shape
  <1>3. \A q \in Callers :
          /\ call'[q] # None => call'[q] \in AnyCall /\ call'[q].by = q
          /\ reply'[q] = Waiting => call'[q] \in AnyCall /\ call'[q].by = q
    BY <1>2 DEF Typed, Signed
  <1>4. Placed'
    <2>1. SUFFICES ASSUME NEW r \in Requests
          PROVE  /\ pc[r] \in {"idle", "run", "made"} => reply'[r] = None
                 /\ pc[r] \in {"get", "set"} => reply'[r] # None
                 /\ pc[r] # "idle" => key[r] \in Keys
                 /\ pc[r] = "made" => body[r] \in Bodies
                 /\ pc[r] = "get" => since[r] \in Bodies
                 /\ pc[r] = "get" /\ reply'[r] = Waiting =>
                      call'[r].op = "get" /\ call'[r].key = key[r]
      BY DEF Placed
    <2>2. CASE r = p
      <3>1. reply[r] = Waiting /\ reply'[r] = a /\ Waiting # None
        BY <1>2, <2>2, CacheValues
      <3>2. pc[r] \notin {"idle", "run", "made"}
        BY <3>1, <2>1 DEF Typed, Placed
      <3> QED
        BY <2>1, <3>1, <3>2 DEF Typed, Placed
    <2>3. CASE r # p
      BY <1>2, <2>1, <2>3 DEF Typed, Placed, Callers
    <2> QED
      BY <2>2, <2>3
  <1> QED
    BY <1>1, <1>3, <1>4

\* What has been written down of an entry has the type of one.
LEMMA MapTyped ==
  ASSUME Typed, NEW p \in Callers, Map!Do(p),
         UNCHANGED <<pc, key, body, since, late>>
  PROVE  /\ call' \in [Callers -> AnyCall \cup {None}]
         /\ reply' \in [Callers -> Replies]
         /\ data' \in [Keys -> Slots \cup {None}]
         /\ Signed' /\ Placed'
  <1> DEFINE m == call[p]
  <1>1. m \in AnyCall /\ reply[p] = Waiting
    BY DEF Map!Do, Typed, Signed
  <1> HIDE DEF m
  <1>2. m.key \in Keys /\ m.value \in Values /\ m.exp \in Nat
    BY <1>1, CallParts
  <1>3. ASSUME NEW a, a \in Replies, a # None, a # Waiting, Map!Return(p, a)
        PROVE  /\ call' \in [Callers -> AnyCall \cup {None}]
               /\ reply' \in [Callers -> Replies]
               /\ Signed' /\ Placed'
    <2>1. call' = [call EXCEPT ![p] = None] /\ reply' = [reply EXCEPT ![p] = a]
      BY <1>3 DEF Map!Return
    <2> QED
      BY <1>1, <1>3, <2>1, AnswerTyped DEF Typed, Signed
  <1> DEFINE T == /\ call' \in [Callers -> AnyCall \cup {None}]
                  /\ reply' \in [Callers -> Replies]
                  /\ Signed' /\ Placed'
  <1>4. \A a \in {Done, Failed, Found, Miss} \cup Values : Map!Return(p, a) => T
    BY <1>3, CacheValues DEF Replies
  <1> HIDE DEF T
  <1>5. ASSUME Map!Get(p, m.key) PROVE T /\ data' \in [Keys -> Slots \cup {None}]
    <2>1. data[m.key] # None => data[m.key].Value \in Values
      BY <1>2 DEF Typed, Shape, Slots
    <2> QED
      BY <1>4, <1>5, <2>1 DEF Map!Get, Typed, Shape
  <1>6. ASSUME NEW v \in Values, NEW e \in Nat, Map!Store(m.key, v, e)
        PROVE  data' \in [Keys -> Slots \cup {None}]
    <2>1. [Value |-> v, ExpiresAt |-> e] \in Slots
      BY DEF Slots
    <2> QED
      BY <1>6, <2>1 DEF Map!Store, Typed, Shape
  <1>7. ASSUME Map!Set(p, m.key, m.value)
        PROVE T /\ data' \in [Keys -> Slots \cup {None}]
    <2>1. Map!Seconds(now + ttl) \in Nat
      BY WholeSeconds DEF Map!Seconds, Typed, Shape
    <2> QED
      BY <1>2, <1>4, <1>6, <1>7, <2>1 DEF Map!Set, Typed, Shape
  <1>8. ASSUME Map!SetWithExpiration(p, m.key, m.value, m.exp)
        PROVE T /\ data' \in [Keys -> Slots \cup {None}]
    BY <1>2, <1>4, <1>6, <1>8 DEF Map!SetWithExpiration
  <1>9. ASSUME Map!Delete(p, m.key) PROVE T /\ data' \in [Keys -> Slots \cup {None}]
    BY <1>2, <1>4, <1>9 DEF Map!Delete, Typed, Shape
  <1>10. ASSUME Map!Exists(p, m.key) PROVE T /\ data' \in [Keys -> Slots \cup {None}]
    BY <1>2, <1>4, <1>10 DEF Map!Exists, Typed, Shape
  <1> QED
    BY <1>5, <1>7, <1>8, <1>9, <1>10 DEF Map!Do, m, T

\* A command that is sent on leaves a copy of a write at most.
LEMMA LeftTyped ==
  ASSUME Typed, NEW p \in Callers, reply[p] = Waiting, ~Redis!Refused(call[p]),
         Redis!Left(call[p])
  PROVE  /\ late' \subseteq AnyCall
         /\ \A m \in late' : /\ m.by = Nobody /\ m.op \in {"set", "setAt", "delete"}
                             /\ m.op # "delete" => m.value \in Bodies
  <1> DEFINE c == call[p]
             m == [c EXCEPT !.by = Nobody]
  <1>1. c \in AnyCall
    BY DEF Typed, Signed
  <1>2. m \in AnyCall /\ m.by = Nobody /\ m.op = c.op /\ m.value = c.value
    BY <1>1 DEF AnyCall
  <1>3. c.op \in {"set", "setAt"} => c.value \in Bodies
    BY <1>1 DEF Redis!Refused, AnyCall, Values
  <1>4. late' = late \/ (c.op \in {"set", "setAt", "delete"} /\ late' = late \cup {m})
    BY DEF Redis!Left
  <1> HIDE DEF m, c
  <1> QED
    BY <1>2, <1>3, <1>4 DEF Typed, Shape, Signed

\* What a command writes on the server has the type of an entry.
LEMMA ApplyTyped ==
  ASSUME Typed, NEW m \in AnyCall, Redis!Apply(m),
         m.op \in {"set", "setAt"} => m.value \in Bodies
  PROVE  db' \in [Keys -> Kept \cup {None}]
  <1>1. m.key \in Keys /\ m.px \in Nat /\ m.op \in Ops
    BY DEF AnyCall
  <1>2. CASE m.op \in {"set", "setAt"}
    <2>1. [value |-> m.value, until |-> now + m.px] \in Kept
      BY <1>1, <1>2 DEF Typed, Shape, Kept
    <2> QED
      BY <1>1, <1>2, <2>1 DEF Redis!Apply, Typed, Shape
  <1>3. CASE m.op \notin {"set", "setAt"}
    BY <1>1, <1>3 DEF Redis!Apply, Typed, Shape
  <1> QED
    BY <1>2, <1>3

\* The calls of a Redis client keep the types.
LEMMA RedisTyped ==
  ASSUME Typed, NEW p \in Callers,
         Redis!Serve(p) \/ Redis!Retry(p) \/ Redis!Refuse(p) \/ Redis!GiveUp(p),
         UNCHANGED <<pc, key, body, since>>
  PROVE  /\ call' \in [Callers -> AnyCall \cup {None}]
         /\ reply' \in [Callers -> Replies]
         /\ db' \in [Keys -> Kept \cup {None}]
         /\ late' \subseteq AnyCall
         /\ Signed' /\ Placed'
  <1> DEFINE m == call[p]
  <1>1. m \in AnyCall /\ reply[p] = Waiting
    BY DEF Redis!Serve, Redis!Retry, Redis!Refuse, Redis!GiveUp, Typed, Signed
  <1> DEFINE L == /\ late' \subseteq AnyCall
                  /\ \A n \in late' : /\ n.by = Nobody
                                      /\ n.op \in {"set", "setAt", "delete"}
                                      /\ n.op # "delete" => n.value \in Bodies
             T == /\ call' \in [Callers -> AnyCall \cup {None}]
                  /\ reply' \in [Callers -> Replies]
                  /\ late' \subseteq AnyCall
                  /\ Signed' /\ Placed'
  <1>2. ASSUME NEW a \in {Done, Failed, Found, Miss} \cup Values,
               Redis!Return(p, a), L
        PROVE  T
    <2>1. call' = [call EXCEPT ![p] = None] /\ reply' = [reply EXCEPT ![p] = a]
      BY <1>2 DEF Redis!Return
    <2>2. a \in Replies /\ a # None /\ a # Waiting
      BY <1>2, CacheValues DEF Replies
    <2> QED
      BY <1>1, <1>2, <2>1, <2>2, AnswerTyped DEF Signed
  <1>3. UNCHANGED late => L
    BY DEF Typed, Shape, Signed
  <1>4. ASSUME Redis!Left(m), ~Redis!Refused(m) PROVE L
    BY <1>1, <1>4, LeftTyped
  <1> HIDE DEF T, L
  <1>5. ASSUME Redis!Serve(p) PROVE T /\ db' \in [Keys -> Kept \cup {None}]
    <2>1. Redis!Answer(m) \in {Done, Failed, Found, Miss} \cup Values
      <3>1. m.key \in Keys
        BY <1>1 DEF AnyCall
      <3>2. db[m.key] # None => db[m.key].value \in Values
        BY <3>1 DEF Typed, Shape, Kept, Values
      <3> QED
        BY <3>2 DEF Redis!Answer, Redis!Kept
    <2>2. m.op \in {"set", "setAt"} => m.value \in Bodies
      BY <1>1, <1>5 DEF Redis!Serve, Redis!Refused, AnyCall, Values, m
    <2>3. db' \in [Keys -> Kept \cup {None}]
      BY <1>1, <1>5, <2>2, ApplyTyped DEF Redis!Serve, m
    <2>4. Redis!Return(p, Redis!Answer(m)) /\ UNCHANGED late
      BY <1>5 DEF Redis!Serve, m
    <2> QED
      BY <1>2, <1>3, <2>1, <2>3, <2>4
  <1>6. ASSUME Redis!Retry(p) PROVE T /\ db' \in [Keys -> Kept \cup {None}]
    <2>1. L
      BY <1>4, <1>6 DEF Redis!Retry, m
    <2>2. UNCHANGED <<call, reply, db>>
      BY <1>6 DEF Redis!Retry
    <2> QED
      BY <2>1, <2>2 DEF Typed, Shape, Signed, Placed, L, T
  <1>7. ASSUME Redis!Refuse(p) PROVE T /\ db' \in [Keys -> Kept \cup {None}]
    <2>1. Redis!Return(p, Failed) /\ UNCHANGED <<late, db>>
      BY <1>7 DEF Redis!Refuse
    <2> QED
      BY <1>2, <1>3, <2>1 DEF Typed, Shape
  <1>8. ASSUME Redis!GiveUp(p) PROVE T /\ db' \in [Keys -> Kept \cup {None}]
    <2>1. L
      BY <1>4, <1>8 DEF Redis!GiveUp, m
    <2>2. \E a \in {Failed, Miss} : Redis!Return(p, a)
      BY <1>8 DEF Redis!GiveUp
    <2>3. UNCHANGED db
      BY <1>8 DEF Redis!GiveUp
    <2> QED
      BY <1>2, <2>1, <2>2, <2>3 DEF Typed, Shape
  <1> QED
    BY <1>5, <1>6, <1>7, <1>8 DEF T

\* What a delete brings back to at most is a version.
LEMMA DeletedTyped ==
  ASSUME Typed, NEW p \in Callers, reply[p] = Waiting, Deleted(p)
  PROVE  floor' \in [Keys -> Bodies]
  <1>1. call[p].key \in Keys
    BY DEF Typed, Signed, AnyCall
  <1> DEFINE T == {version[call[p].key]} \cup Filling(call[p].key)
  <1>2. Filling(call[p].key) \subseteq Bodies
    BY DEF Filling, Typed, Placed
  <1>3. T \subseteq Bodies /\ T # {} /\ Bodies \subseteq Nat
    BY <1>1, <1>2, CacheAssumption DEF Typed, Shape, Bodies
  <1>4. Min(T) \in Bodies
    BY <1>3, LeastBody
  <1> HIDE DEF T
  <1>5. floor' = floor \/ floor' = [floor EXCEPT ![call[p].key] = Min(T)]
    BY DEF Deleted, T
  <1> QED
    BY <1>1, <1>4, <1>5 DEF Typed, Shape

\* Every step keeps every variable's type.
LEMMA TypedStep == Typed /\ [Next]_vars => Typed'
  <1> SUFFICES ASSUME Typed, [Next]_vars PROVE Typed'
    OBVIOUS
  <1> USE DEF common, inMap, inRedis, app
  <1>Ops. {"get", "exists", "set", "setAt", "delete"} \subseteq Ops
    BY DEF Ops
  <1>Callers. /\ \A r \in Requests : r \in Callers
              /\ \A w \in Writers : w \in Callers /\ w \notin Requests
    BY CacheAssumption DEF Callers
  <1>GetReturns. ASSUME NEW r \in Requests, GetReturns(r) PROVE Typed'
    <2>1. /\ reply' \in [Callers -> Replies] /\ Signed'
          /\ reply'[r] = None
          /\ \A q \in Callers \ {r} : reply'[q] = reply[q]
      BY <1>GetReturns, <1>Callers, ReturnTyped DEF GetReturns
    <2>2. /\ pc[r] = "get"
          /\ \/ pc' = [pc EXCEPT ![r] = "idle"] /\ key' = [key EXCEPT ![r] = None]
             \/ pc' = [pc EXCEPT ![r] = "run"] /\ key' = key
          /\ since' = [since EXCEPT ![r] = None]
          /\ UNCHANGED <<store, now, ttl, call, inMap, inRedis, version, body, floor>>
      BY <1>GetReturns DEF GetReturns, Return, End
    <2>3. Shape'
      BY <2>1, <2>2 DEF Typed, Shape
    <2>4. Placed'
      BY <1>Callers, <2>1, <2>2 DEF Typed, Shape, Placed
    <2> QED
      BY <2>1, <2>3, <2>4 DEF Typed
  <1>Make. ASSUME NEW r \in Requests, Make(r) PROVE Typed'
    <2>1. pc[r] = "run" /\ key[r] \in Keys /\ version[key[r]] \in Bodies
      BY <1>Make DEF Make, Typed, Shape, Placed
    <2>2. /\ body' = [body EXCEPT ![r] = version[key[r]]]
          /\ pc' = [pc EXCEPT ![r] = "made"]
          /\ UNCHANGED <<store, common, inMap, inRedis, version, key, floor, since>>
      BY <1>Make DEF Make
    <2>3. Shape' /\ Signed'
      BY <2>1, <2>2 DEF Typed, Shape, Signed
    <2>4. Placed'
      BY <2>1, <2>2 DEF Typed, Shape, Placed
    <2> QED
      BY <2>3, <2>4 DEF Typed
  <1>Fill. ASSUME NEW r \in Requests, Fill(r) PROVE Typed'
    <2>1. pc[r] = "made" /\ key[r] \in Keys /\ body[r] \in Values
      BY <1>Fill DEF Fill, Typed, Placed, Values
    <2>2. /\ Issue(r, "set", key[r], body[r], 0)
          /\ pc' = [pc EXCEPT ![r] = "set"]
          /\ body' = [body EXCEPT ![r] = None]
          /\ UNCHANGED <<version, key, floor, since>>
      BY <1>Fill DEF Fill
    <2>3. /\ call' \in [Callers -> AnyCall \cup {None}]
          /\ reply' \in [Callers -> Replies]
          /\ Signed'
          /\ reply'[r] = Waiting
          /\ \A q \in Callers \ {r} : call'[q] = call[q] /\ reply'[q] = reply[q]
      BY <1>Callers, <1>Ops, <2>1, <2>2, IssueTyped
    <2>4. UNCHANGED <<store, now, ttl, inMap, inRedis>>
      BY <2>2 DEF Issue
    <2>5. Shape'
      BY <2>2, <2>3, <2>4 DEF Typed, Shape
    <2>6. Placed'
      BY <1>Callers, <2>1, <2>2, <2>3, CacheValues DEF Typed, Shape, Placed
    <2> QED
      BY <2>3, <2>5, <2>6 DEF Typed
  <1>NoFill. ASSUME NEW r \in Requests, NoFill(r) PROVE Typed'
    <2>1. /\ pc[r] = "made"
          /\ pc' = [pc EXCEPT ![r] = "idle"] /\ key' = [key EXCEPT ![r] = None]
          /\ body' = [body EXCEPT ![r] = None]
          /\ UNCHANGED <<store, common, inMap, inRedis, version, floor, since>>
      BY <1>NoFill DEF NoFill, End
    <2>2. Shape' /\ Signed'
      BY <2>1 DEF Typed, Shape, Signed
    <2>3. Placed'
      BY <2>1 DEF Typed, Shape, Placed
    <2> QED
      BY <2>2, <2>3 DEF Typed
  <1>FillReturns. ASSUME NEW r \in Requests, FillReturns(r) PROVE Typed'
    <2>1. /\ reply' \in [Callers -> Replies] /\ Signed'
          /\ reply'[r] = None
          /\ \A q \in Callers \ {r} : reply'[q] = reply[q]
      BY <1>FillReturns, <1>Callers, ReturnTyped DEF FillReturns
    <2>2. /\ pc' = [pc EXCEPT ![r] = "idle"] /\ key' = [key EXCEPT ![r] = None]
          /\ UNCHANGED <<store, now, ttl, call, inMap, inRedis, version, body, floor,
                         since>>
      BY <1>FillReturns DEF FillReturns, Return, End
    <2>3. Shape'
      BY <2>1, <2>2 DEF Typed, Shape
    <2>4. Placed'
      BY <1>Callers, <2>1, <2>2 DEF Typed, Shape, Placed
    <2> QED
      BY <2>1, <2>3, <2>4 DEF Typed
  <1>Begin. ASSUME NEW r \in Requests, NEW k \in Keys, Begin(r, k) PROVE Typed'
    <2>1. /\ Issue(r, "get", k, Nil, 0) /\ Nil \in Values
          /\ pc' = [pc EXCEPT ![r] = "get"]
          /\ key' = [key EXCEPT ![r] = k]
          /\ since' = [since EXCEPT ![r] = floor[k]]
          /\ UNCHANGED <<version, body, floor>>
      BY <1>Begin DEF Begin, Values
    <2>2. /\ call' \in [Callers -> AnyCall \cup {None}]
          /\ reply' \in [Callers -> Replies]
          /\ Signed'
          /\ call'[r].op = "get" /\ call'[r].key = k
          /\ reply'[r] = Waiting
          /\ \A q \in Callers \ {r} : call'[q] = call[q] /\ reply'[q] = reply[q]
      BY <1>Callers, <1>Ops, <2>1, IssueTyped
    <2>3. UNCHANGED <<store, now, ttl, inMap, inRedis>> /\ floor[k] \in Bodies
      BY <2>1 DEF Issue, Typed, Shape
    <2>4. Shape'
      BY <2>1, <2>2, <2>3 DEF Typed, Shape
    <2>5. Placed'
      BY <1>Callers, <2>1, <2>2, <2>3, CacheValues DEF Typed, Shape, Placed
    <2> QED
      BY <2>2, <2>4, <2>5 DEF Typed
  <1>UseReturns. ASSUME NEW w \in Writers, UseReturns(w) PROVE Typed'
    <2>1. /\ reply' \in [Callers -> Replies] /\ Signed'
          /\ \A q \in Callers \ {w} : reply'[q] = reply[q]
      BY <1>UseReturns, <1>Callers, ReturnTyped DEF UseReturns
    <2>2. UNCHANGED <<store, now, ttl, call, inMap, inRedis, app>>
      BY <1>UseReturns DEF UseReturns, Return
    <2>3. Shape'
      BY <2>1, <2>2 DEF Typed, Shape
    <2>4. Placed'
      BY <1>Callers, <2>1, <2>2 DEF Typed, Placed
    <2> QED
      BY <2>1, <2>3, <2>4 DEF Typed
  <1>Use. ASSUME NEW w \in Writers, NEW k \in Keys, Use(w, k) PROVE Typed'
    <2>0. w \in Callers /\ \A r \in Requests : r \in Callers /\ r # w
      BY CacheAssumption DEF Callers
    <2>1. PICK op \in Ops, v \in Values, e \in Deadlines \cup {0} :
            Issue(w, op, k, v, e)
      BY <1>Use, <1>Ops DEF Use, Values, Typed, Shape
    <2>2. /\ call' \in [Callers -> AnyCall \cup {None}]
          /\ reply' \in [Callers -> Replies]
          /\ Signed'
          /\ \A q \in Callers \ {w} : call'[q] = call[q] /\ reply'[q] = reply[q]
      BY <2>0, <2>1, IssueTyped
    <2>3. Shape'
      BY <1>Use, <2>1, <2>2 DEF Use, Issue, Typed, Shape
    <2>4. Placed'
      BY <1>Use, <2>0, <2>2 DEF Use, Typed, Placed
    <2> QED
      BY <2>2, <2>3, <2>4 DEF Typed
  <1>Map. ASSUME NEW p \in Callers, MapStep(p) PROVE Typed'
    <2>1. reply[p] = Waiting /\ Map!Do(p) /\ UNCHANGED <<pc, key, body, since, late>>
      BY <1>Map DEF MapStep, Map!Do, Deleted
    <2>2. floor' \in [Keys -> Bodies]
      BY <1>Map, <2>1, DeletedTyped DEF MapStep
    <2>3. /\ call' \in [Callers -> AnyCall \cup {None}]
          /\ reply' \in [Callers -> Replies]
          /\ data' \in [Keys -> Slots \cup {None}]
          /\ Signed' /\ Placed'
      BY <2>1, MapTyped
    <2>4. UNCHANGED <<store, now, ttl, cleaner, inRedis, version, pc, key, body, since>>
      BY <1>Map DEF MapStep, Map!Do, Deleted
    <2> QED
      BY <2>2, <2>3, <2>4 DEF Typed, Shape
  <1>Redis. ASSUME NEW p \in Callers, RedisStep(p) \/ RedisGivesUp(p) PROVE Typed'
    <2>1. /\ Redis!Serve(p) \/ Redis!Retry(p) \/ Redis!Refuse(p) \/ Redis!GiveUp(p)
          /\ UNCHANGED <<store, inMap, version, pc, key, body, since>>
          /\ Deleted(p)
      BY <1>Redis DEF RedisStep, RedisGivesUp, Deleted
    <2>2. reply[p] = Waiting /\ UNCHANGED <<now, ttl, closed>>
      BY <2>1 DEF Redis!Serve, Redis!Retry, Redis!Refuse, Redis!GiveUp
    <2>3. floor' \in [Keys -> Bodies]
      BY <2>1, <2>2, DeletedTyped
    <2>4. /\ call' \in [Callers -> AnyCall \cup {None}]
          /\ reply' \in [Callers -> Replies]
          /\ db' \in [Keys -> Kept \cup {None}]
          /\ late' \subseteq AnyCall
          /\ Signed' /\ Placed'
      BY <2>1, RedisTyped
    <2> QED
      BY <2>1, <2>2, <2>3, <2>4 DEF Typed, Shape
  <1>Change. ASSUME NEW k \in Keys, Change(k) PROVE Typed'
    BY <1>Change, CacheAssumption DEF Change, Typed, Shape, Signed, Placed, Bodies
  <1>SetDefaultTTL. CASE SetDefaultTTL
    BY <1>SetDefaultTTL, CacheAssumption DEF SetDefaultTTL, Typed, Shape, Signed, Placed
  <1>CloseStore. CASE CloseStore
    BY <1>CloseStore DEF CloseStore, Map!Close, Redis!Close, Typed, Shape, Signed, Placed
  <1>Clean. CASE Clean
    <2>1. /\ data' \in [Keys -> Slots \cup {None}]
          /\ cleaner' \in {"on", "closing", "off"}
          /\ UNCHANGED <<now, ttl, call, reply>>
      BY <1>Clean DEF Clean, Map!Sweep, Map!StopCleaner, Typed, Shape
    <2> QED
      BY <1>Clean, <2>1 DEF Clean, Typed, Shape, Signed, Placed
  <1>Network. CASE Network
    <2>1. /\ db' \in [Keys -> Kept \cup {None}]
          /\ late' \subseteq late
          /\ UNCHANGED <<now, ttl, call, reply, closed>>
      <3>1. ASSUME NEW m \in late, Redis!ServeLate(m)
            PROVE  db' \in [Keys -> Kept \cup {None}] /\ late' \subseteq late
        <4>1. m \in AnyCall /\ Redis!Apply(m)
              /\ (m.op \in {"set", "setAt"} => m.value \in Bodies)
          BY <3>1 DEF Redis!ServeLate, Typed, Shape, Signed
        <4> QED
          BY <3>1, <4>1, ApplyTyped DEF Redis!ServeLate
      <3>2. ASSUME NEW m \in late, Redis!DropLate(m)
            PROVE  db' \in [Keys -> Kept \cup {None}] /\ late' \subseteq late
        BY <3>2 DEF Redis!DropLate, Typed, Shape
      <3>3. ASSUME NEW k \in Keys, Redis!Lose(k)
            PROVE  db' \in [Keys -> Kept \cup {None}] /\ late' \subseteq late
        BY <3>3 DEF Redis!Lose, Typed, Shape
      <3> QED
        BY <1>Network, <3>1, <3>2, <3>3
           DEF Network, Redis!ServeLate, Redis!DropLate, Redis!Lose
    <2> QED
      BY <1>Network, <2>1 DEF Network, Typed, Shape, Signed, Placed
  <1>Tick. CASE Tick
    BY <1>Tick DEF Tick, Typed, Shape, Signed, Placed
  <1>Stutter. CASE UNCHANGED vars
    BY <1>Stutter DEF vars, Typed, Shape, Signed, Placed
  <1> QED
    BY <1>GetReturns, <1>Make, <1>Fill, <1>NoFill, <1>FillReturns, <1>Begin,
       <1>UseReturns, <1>Use, <1>Map, <1>Redis, <1>Change, <1>SetDefaultTTL,
       <1>CloseStore, <1>Clean, <1>Network, <1>Tick, <1>Stutter
       DEF Next, Request

\* Types hold in every state.
LEMMA TypedAlways == Spec => []Typed
  BY TypedInit, TypedStep, PTL DEF Spec

\* Every variable keeps its type: in particular what a call writes of an entry
\* or sends is a value and a time (extensions/map.go:57, extensions/redis.go:38).
THEOREM TypeCorrect == Spec => []TypeOK
  <1>1. Typed => TypeOK
    BY ShapeTypes DEF Typed
  <1> QED
    BY <1>1, TypedAlways, PTL

-----------------------------------------------------------------------------
(* No body comes back that is older than a delete. Whatever is in a store, *)
(* on its way into it or in a handler is no older than the floor of its    *)
(* key, and a request that waits for an answer began at this floor or a    *)
(* lower one.                                                              *)

Floored(m) == m.op \in {"set", "setAt"} /\ m.value \in Bodies =>
                floor[m.key] <= m.value

Newer ==
  /\ \A k \in Keys : floor[k] <= version[k]
  /\ \A p \in Callers : reply[p] = Waiting => Floored(call[p])
  /\ \A m \in late : Floored(m)
  /\ \A r \in Requests : pc[r] = "made" => floor[key[r]] <= body[r]
  /\ \A k \in Keys : store = "map" /\ data[k] # None /\ data[k].Value \in Bodies =>
                       floor[k] <= data[k].Value
  /\ \A k \in Keys : store = "redis" /\ db[k] # None => floor[k] <= db[k].value
  /\ \A r \in Requests : pc[r] = "get" => since[r] <= floor[key[r]]

FreshInv == Newer /\ Fresh

\* A write that may still take effect is a filling of its key.
LEMMA FillingHas ==
  ASSUME NEW m, m \in late \/ \E q \in Callers : reply[q] = Waiting /\ m = call[q],
         m.op \in {"set", "setAt"}, m.value \in Bodies
  PROVE  m.value \in Filling(m.key)
  <1>1. m \in Sent
    BY DEF Sent
  <1> QED
    BY <1>1 DEF Filling

\* A delete raises the floor of its key, to no more than what is on its way.
LEMMA FloorBound ==
  ASSUME Typed, Newer, NEW p \in Callers, reply[p] = Waiting, Deleted(p)
  PROVE  /\ floor' \in [Keys -> Bodies]
         /\ \A k \in Keys : floor[k] <= floor'[k] /\ floor'[k] <= version[k]
         /\ \A q \in Callers : reply[q] = Waiting /\ call[q].op \in {"set", "setAt"}
                               /\ call[q].value \in Bodies =>
                                 floor'[call[q].key] <= call[q].value
         /\ \A m \in late : m.op \in {"set", "setAt"} /\ m.value \in Bodies =>
                              floor'[m.key] <= m.value
         /\ \A r \in Requests : pc[r] = "made" => floor'[key[r]] <= body[r]
         /\ \A k \in Keys : floor'[k] # floor[k] =>
              call[p].op = "delete" /\ reply'[p] = Done /\ k = call[p].key
  <1>1. floor' \in [Keys -> Bodies]
    BY DeletedTyped
  <1>2. Bodies \subseteq Nat
    BY CacheAssumption DEF Bodies
  <1> DEFINE kp == call[p].key
             T  == {version[kp]} \cup Filling(kp)
             F  == Min(T)
  <1>3. kp \in Keys
    BY DEF Typed, Signed, AnyCall
  <1>4. \A b \in Filling(kp) : b \in Bodies /\ floor[kp] <= b
    <2>1. ASSUME NEW m \in Sent, m.key = kp, m.op # "delete", m.value \in Bodies
          PROVE  floor[kp] <= m.value
      <3>1. m.op \in {"set", "setAt"} /\ Floored(m)
        BY <2>1 DEF Sent, Newer, Typed, Signed, AnyCall, Ops
      <3> QED
        BY <2>1, <3>1 DEF Floored
    <2>2. ASSUME NEW r \in Requests, pc[r] = "made", key[r] = kp
          PROVE  body[r] \in Bodies /\ floor[kp] <= body[r]
      BY <2>2 DEF Newer, Typed, Placed
    <2> HIDE DEF kp
    <2> QED
      BY <2>1, <2>2 DEF Filling
  <1>5. version[kp] \in Bodies /\ floor[kp] <= version[kp] /\ floor[kp] \in Bodies
    BY <1>3 DEF Newer, Typed, Shape
  <1>6. T \subseteq Bodies /\ T # {}
    BY <1>4, <1>5
  <1>7. F \in T /\ \A b \in T : F <= b
    BY <1>2, <1>6, LeastBody
  <1>8. floor[kp] <= F /\ F <= version[kp] /\ \A b \in Filling(kp) : F <= b
    BY <1>4, <1>5, <1>7
  <1>9. floor' = floor \/ ( /\ floor' = [floor EXCEPT ![kp] = F]
                           /\ call[p].op = "delete" /\ reply'[p] = Done)
    BY DEF Deleted
  <1> HIDE DEF F, T, kp
  <1>10. \A k \in Keys : /\ k # kp => floor'[k] = floor[k]
                         /\ k = kp => floor'[k] \in {floor[k], F}
    BY <1>9 DEF Typed, Shape
  <1>11. \A k \in Keys : floor[k] \in Nat /\ version[k] \in Nat
    BY <1>2 DEF Typed, Shape
  <1>12. F \in Nat
    BY <1>2, <1>6, <1>7
  <1>13. \A k \in Keys : floor[k] <= floor'[k] /\ floor'[k] <= version[k]
    BY <1>8, <1>10, <1>11, <1>12 DEF Newer
  <1>14. ASSUME NEW m, m.op \in {"set", "setAt"}, m.value \in Bodies, m \in AnyCall,
                m \in late \/ \E q \in Callers : reply[q] = Waiting /\ m = call[q]
         PROVE  floor'[m.key] <= m.value
    <2>1. m.key \in Keys /\ m.value \in Filling(m.key)
      BY <1>14, FillingHas DEF AnyCall
    <2>2. floor[m.key] <= m.value
      BY <1>14 DEF Newer, Floored
    <2> QED
      BY <1>8, <1>10, <2>1, <2>2
  <1>15. \A q \in Callers : reply[q] = Waiting => call[q] \in AnyCall
    BY DEF Typed, Signed
  <1>16. \A m \in late : m \in AnyCall
    BY DEF Typed, Shape
  <1>17. ASSUME NEW r \in Requests, pc[r] = "made" PROVE floor'[key[r]] <= body[r]
    <2>1. key[r] \in Keys /\ body[r] \in Filling(key[r]) /\ floor[key[r]] <= body[r]
      BY <1>17 DEF Filling, Newer, Typed, Placed
    <2> QED
      BY <1>8, <1>10, <2>1
  <1>18. \A k \in Keys : floor'[k] # floor[k] =>
              call[p].op = "delete" /\ reply'[p] = Done /\ k = call[p].key
    BY <1>9, <1>10 DEF kp
  <1> QED
    BY <1>1, <1>13, <1>14, <1>15, <1>16, <1>17, <1>18

\* A call of a store keeps the bodies above the floor.
LEMMA StoreStep ==
  ASSUME Typed, Typed', FreshInv, NEW p \in Callers, reply[p] = Waiting, Deleted(p),
         \A q \in Callers \ {p} : call'[q] = call[q] /\ reply'[q] = reply[q],
         reply'[p] = Waiting => call'[p] = call[p],
         \A m \in late' : m \in late \/ /\ m.op = call[p].op /\ m.key = call[p].key
                                        /\ m.value = call[p].value,
         store = "map" =>
           /\ \A k \in Keys :
                \/ data'[k] = data[k] \/ data'[k] = None
                \/ /\ k = call[p].key /\ call[p].op \in {"set", "setAt"}
                   /\ data'[k].Value = call[p].value
           /\ call[p].op = "delete" /\ reply'[p] = Done => data'[call[p].key] = None,
         store = "redis" =>
           /\ \A k \in Keys :
                \/ db'[k] = db[k] \/ db'[k] = None
                \/ /\ k = call[p].key /\ call[p].op \in {"set", "setAt"}
                   /\ db'[k].value = call[p].value
           /\ call[p].op = "delete" /\ reply'[p] = Done => db'[call[p].key] = None,
         call[p].op = "get" /\ reply'[p] \in Bodies => floor[call[p].key] <= reply'[p]
  PROVE  FreshInv'
  <1>1. /\ floor' \in [Keys -> Bodies]
        /\ \A k \in Keys : floor[k] <= floor'[k] /\ floor'[k] <= version[k]
        /\ \A q \in Callers : reply[q] = Waiting /\ call[q].op \in {"set", "setAt"}
                              /\ call[q].value \in Bodies =>
                                floor'[call[q].key] <= call[q].value
        /\ \A m \in late : m.op \in {"set", "setAt"} /\ m.value \in Bodies =>
                             floor'[m.key] <= m.value
        /\ \A r \in Requests : pc[r] = "made" => floor'[key[r]] <= body[r]
        /\ \A k \in Keys : floor'[k] # floor[k] =>
             call[p].op = "delete" /\ reply'[p] = Done /\ k = call[p].key
    BY FloorBound DEF FreshInv
  <1>2. UNCHANGED <<store, version, pc, key, body, since>>
    BY DEF Deleted
  <1>3. \A r \in Requests : r \in Callers
    BY DEF Callers
  <1>4. call[p] \in AnyCall /\ call[p].key \in Keys
    BY DEF Typed, Signed, AnyCall
  <1>5. Bodies \subseteq Nat
    BY CacheAssumption DEF Bodies
  <1>6. ASSUME NEW k \in Keys PROVE floor'[k] <= version'[k]
    BY <1>1, <1>2
  <1>7. ASSUME NEW q \in Callers, reply'[q] = Waiting PROVE Floored(call[q])'
    <2>1. reply[q] = Waiting /\ call'[q] = call[q]
      BY <1>7
    <2> QED
      BY <1>1, <2>1 DEF Floored
  <1>8. ASSUME NEW m \in late' PROVE Floored(m)'
    BY <1>1 DEF Floored
  <1>9. ASSUME NEW r \in Requests, pc'[r] = "made" PROVE floor'[key'[r]] <= body'[r]
    BY <1>1, <1>2, <1>9
  <1>10. ASSUME NEW k \in Keys, store' = "map", data'[k] # None, data'[k].Value \in Bodies
         PROVE  floor'[k] <= data'[k].Value
    <2>1. CASE data'[k] = data[k]
      <3>1. floor[k] <= data[k].Value
        BY <1>2, <1>10, <2>1 DEF FreshInv, Newer
      <3>2. floor'[k] = floor[k]
        BY <1>1, <1>2, <1>10
      <3> QED
        BY <2>1, <3>1, <3>2
    <2>2. CASE /\ k = call[p].key /\ call[p].op \in {"set", "setAt"}
               /\ data'[k].Value = call[p].value
      BY <1>1, <1>10, <2>2
    <2> QED
      BY <1>2, <1>10, <2>1, <2>2
  <1>11. ASSUME NEW k \in Keys, store' = "redis", db'[k] # None
         PROVE  floor'[k] <= db'[k].value
    <2>1. CASE db'[k] = db[k]
      <3>1. floor[k] <= db[k].value
        BY <1>2, <1>11, <2>1 DEF FreshInv, Newer
      <3>2. floor'[k] = floor[k]
        BY <1>1, <1>2, <1>11
      <3> QED
        BY <2>1, <3>1, <3>2
    <2>2. CASE /\ k = call[p].key /\ call[p].op \in {"set", "setAt"}
               /\ db'[k].value = call[p].value
      <3>1. db'[k].value \in Bodies
        BY <1>11 DEF Typed, Shape, Kept
      <3> QED
        BY <1>1, <1>11, <2>2, <3>1
    <2> QED
      BY <1>2, <1>11, <2>1, <2>2
  <1>12. ASSUME NEW r \in Requests, pc'[r] = "get" PROVE since'[r] <= floor'[key'[r]]
    <2>1. since[r] <= floor[key[r]] /\ key[r] \in Keys /\ since[r] \in Bodies
      BY <1>2, <1>12 DEF FreshInv, Newer, Typed, Placed
    <2>2. floor[key[r]] \in Nat /\ floor'[key[r]] \in Nat /\ since[r] \in Nat
      BY <1>1, <1>5, <2>1 DEF Typed, Shape
    <2> QED
      BY <1>1, <1>2, <2>1, <2>2
  <1>13. ASSUME NEW r \in Requests, pc'[r] = "get", reply'[r] \in Bodies
         PROVE  reply'[r] >= since'[r]
    <2>1. CASE r = p
      <3>1. call[p].op = "get" /\ call[p].key = key[p]
        BY <1>2, <1>13, <2>1 DEF Typed, Placed
      <3>2. floor[key[p]] <= reply'[p] /\ since[p] <= floor[key[p]] /\ key[p] \in Keys
        BY <1>2, <1>4, <1>13, <2>1, <3>1 DEF FreshInv, Newer
      <3>3. floor[key[p]] \in Nat /\ since[p] \in Nat /\ reply'[p] \in Nat
        BY <1>2, <1>5, <1>13, <2>1, <3>2 DEF Typed, Shape, Placed
      <3> QED
        BY <1>2, <2>1, <3>2, <3>3
    <2>2. CASE r # p
      BY <1>2, <1>3, <1>13, <2>2 DEF FreshInv, Fresh
    <2> QED
      BY <2>1, <2>2
  <1> QED
    BY <1>6, <1>7, <1>8, <1>9, <1>10, <1>11, <1>12, <1>13 DEF FreshInv, Newer, Fresh

\* A call of MapCache stores what was on its way and gets what is stored.
LEMMA MapFresh ==
  ASSUME Typed, Typed', FreshInv, NEW p \in Callers, MapStep(p)
  PROVE  FreshInv'
  <1> DEFINE m == call[p]
  <1>1. /\ store = "map" /\ reply[p] = Waiting /\ Deleted(p) /\ late' = late
        /\ m \in AnyCall
    BY DEF MapStep, Map!Do, Typed, Signed, inRedis
  <1>2. m.key \in Keys
    BY <1>1 DEF AnyCall
  <1> DEFINE D == /\ \A k \in Keys :
                     \/ data'[k] = data[k] \/ data'[k] = None
                     \/ /\ k = m.key /\ m.op \in {"set", "setAt"}
                        /\ data'[k].Value = m.value
                  /\ m.op = "delete" /\ reply'[p] = Done => data'[m.key] = None
             G == m.op = "get" /\ reply'[p] \in Bodies => floor[m.key] <= reply'[p]
  <1> HIDE DEF m
  <1>3. ASSUME NEW a, Map!Return(p, a)
        PROVE  /\ \A q \in Callers \ {p} : call'[q] = call[q] /\ reply'[q] = reply[q]
               /\ reply'[p] = a
    BY <1>3 DEF Map!Return, Typed, Shape
  <1>4. ASSUME Map!Get(p, m.key), m.op = "get"
        PROVE  D /\ G /\ \E a \in Values \cup {Done, Failed, Found, Miss} : Map!Return(p, a)
    <2>1. PICK a : /\ Map!Return(p, a)
                   /\ \/ a = Miss
                      \/ data[m.key] # None /\ a = data[m.key].Value
      BY <1>4 DEF Map!Get
    <2>2. reply'[p] = a /\ data' = data
      BY <1>3, <1>4, <2>1 DEF Map!Get
    <2>3. G
      BY <1>1, <1>2, <2>1, <2>2, CacheValues DEF FreshInv, Newer
    <2>4. a \in Values \cup {Miss}
      BY <1>2, <2>1 DEF Typed, Shape, Slots
    <2> QED
      BY <1>4, <2>1, <2>2, <2>3, <2>4
  <1>5. ASSUME NEW v \in Values, NEW e, Map!Store(m.key, v, e), v = m.value,
               m.op \in {"set", "setAt"}
        PROVE  D
    <2>1. data' = [data EXCEPT ![m.key] = [Value |-> v, ExpiresAt |-> e]]
      BY <1>5 DEF Map!Store
    <2> QED
      BY <1>2, <1>5, <2>1 DEF Typed, Shape
  <1>6. m.value \in Values
    BY <1>1 DEF AnyCall
  <1>7. ASSUME Map!Set(p, m.key, m.value), m.op = "set"
        PROVE  D /\ G /\ \E a \in Values \cup {Done, Failed, Found, Miss} : Map!Return(p, a)
    <2>1. CASE m.value = Nil
      BY <1>7, <2>1 DEF Map!Set
    <2>2. CASE m.value # Nil
      BY <1>5, <1>6, <1>7, <2>2 DEF Map!Set
    <2> QED
      BY <2>1, <2>2
  <1>8. ASSUME Map!SetWithExpiration(p, m.key, m.value, m.exp), m.op = "setAt"
        PROVE  D /\ G /\ \E a \in Values \cup {Done, Failed, Found, Miss} : Map!Return(p, a)
    BY <1>5, <1>6, <1>8 DEF Map!SetWithExpiration
  <1>9. ASSUME Map!Delete(p, m.key), m.op = "delete"
        PROVE  D /\ G /\ \E a \in Values \cup {Done, Failed, Found, Miss} : Map!Return(p, a)
    BY <1>2, <1>9 DEF Map!Delete, Typed, Shape
  <1>10. ASSUME Map!Exists(p, m.key), m.op = "exists"
         PROVE  D /\ G /\ \E a \in Values \cup {Done, Failed, Found, Miss} : Map!Return(p, a)
    BY <1>10 DEF Map!Exists
  <1>11. D /\ G /\ \E a \in Values \cup {Done, Failed, Found, Miss} : Map!Return(p, a)
    <2> HIDE DEF D, G
    <2> QED
      BY <1>4, <1>7, <1>8, <1>9, <1>10 DEF MapStep, Map!Do, m
  <1>12. /\ \A q \in Callers \ {p} : call'[q] = call[q] /\ reply'[q] = reply[q]
         /\ reply'[p] # Waiting
    BY <1>3, <1>11, CacheValues
  <1> QED
    BY <1>1, <1>11, <1>12, StoreStep DEF m

\* What has been sent on is the same write.
LEMMA LeftSame ==
  ASSUME Typed, NEW c \in AnyCall, Redis!Left(c)
  PROVE  \A m \in late' :
           \/ m \in late
           \/ m.op = c.op /\ m.key = c.key /\ m.value = c.value
  BY DEF Redis!Left, AnyCall

\* So does a call of RedisCache, whatever the client leaves on the network.
LEMMA RedisFresh ==
  ASSUME Typed, Typed', FreshInv, NEW p \in Callers, RedisStep(p) \/ RedisGivesUp(p)
  PROVE  FreshInv'
  <1> DEFINE m == call[p]
  <1>1. /\ Redis!Serve(p) \/ Redis!Retry(p) \/ Redis!Refuse(p) \/ Redis!GiveUp(p)
        /\ store = "redis" /\ Deleted(p)
    BY DEF RedisStep, RedisGivesUp
  <1>2. reply[p] = Waiting /\ m \in AnyCall
    BY <1>1 DEF Redis!Serve, Redis!Retry, Redis!Refuse, Redis!GiveUp, Typed, Signed
  <1>3. m.key \in Keys /\ m.op \in Ops
    BY <1>2 DEF AnyCall
  <1> DEFINE D == /\ \A k \in Keys :
                     \/ db'[k] = db[k] \/ db'[k] = None
                     \/ /\ k = m.key /\ m.op \in {"set", "setAt"}
                        /\ db'[k].value = m.value
                  /\ m.op = "delete" /\ reply'[p] = Done => db'[m.key] = None
             G == m.op = "get" /\ reply'[p] \in Bodies => floor[m.key] <= reply'[p]
             L == \A n \in late' : n \in late \/ /\ n.op = m.op /\ n.key = m.key
                                                 /\ n.value = m.value
             R == /\ \A q \in Callers \ {p} : call'[q] = call[q] /\ reply'[q] = reply[q]
                  /\ reply'[p] = Waiting => call'[p] = call[p]
  <1>4. ASSUME NEW a, Redis!Return(p, a), a # Waiting
        PROVE  R /\ reply'[p] = a
    BY <1>4 DEF Redis!Return, Typed, Shape
  <1>5. Redis!Left(m) => L
    BY <1>2, LeftSame
  <1> HIDE DEF m
  <1>6. ASSUME Redis!Serve(p) PROVE D /\ G /\ L /\ R
    <2>1. /\ Redis!Return(p, Redis!Answer(m)) /\ Redis!Apply(m) /\ late' = late
      BY <1>6 DEF Redis!Serve, m
    <2>2. /\ m.op = "get" => \/ Redis!Answer(m) = Miss
                             \/ db[m.key] # None /\ Redis!Answer(m) = db[m.key].value
          /\ m.op = "exists" => Redis!Answer(m) \in {Found, Miss}
          /\ m.op \notin {"get", "exists"} => Redis!Answer(m) = Done
      BY DEF Redis!Answer, Redis!Kept
    <2>3. db[m.key] # None => db[m.key].value \in Bodies
      BY <1>3 DEF Typed, Shape, Kept
    <2>4. Redis!Answer(m) # Waiting
      BY <1>3, <2>2, <2>3, CacheValues DEF Values, Ops
    <2>5. R /\ reply'[p] = Redis!Answer(m)
      BY <1>4, <2>1, <2>4
    <2>6. G
      BY <1>1, <1>3, <2>2, <2>5, CacheValues DEF FreshInv, Newer
    <2>7. D
      <3>1. CASE m.op \in {"set", "setAt"}
        <4>1. db' = [db EXCEPT ![m.key] = [value |-> m.value, until |-> now + m.px]]
          BY <2>1, <3>1 DEF Redis!Apply
        <4> QED
          BY <1>3, <3>1, <4>1 DEF Typed, Shape
      <3>2. CASE m.op \notin {"set", "setAt"}
        BY <1>3, <2>1, <3>2 DEF Redis!Apply, Typed, Shape
      <3> QED
        BY <3>1, <3>2
    <2> QED
      BY <2>1, <2>5, <2>6, <2>7
  <1>7. ASSUME Redis!Retry(p) PROVE D /\ G /\ L /\ R
    <2>1. Redis!Left(m) /\ UNCHANGED <<call, reply, db>>
      BY <1>7 DEF Redis!Retry, m
    <2> QED
      BY <1>2, <1>5, <2>1, CacheValues DEF Values
  <1>8. ASSUME Redis!Refuse(p) PROVE D /\ G /\ L /\ R
    <2>1. Redis!Return(p, Failed) /\ UNCHANGED <<db, late>> /\ m.op \in {"set", "setAt"}
      BY <1>8 DEF Redis!Refuse, Redis!Refused, m
    <2> QED
      BY <1>4, <2>1, CacheValues
  <1>9. ASSUME Redis!GiveUp(p) PROVE D /\ G /\ L /\ R
    <2>1. /\ Redis!Left(m) /\ UNCHANGED db
          /\ Redis!Return(p, IF m.op \in {"get", "exists"} THEN Miss ELSE Failed)
      BY <1>9 DEF Redis!GiveUp, m
    <2>2. R /\ reply'[p] = IF m.op \in {"get", "exists"} THEN Miss ELSE Failed
      BY <1>4, <2>1, CacheValues
    <2> QED
      BY <1>5, <2>1, <2>2, CacheValues
  <1>10. D /\ G /\ L /\ R
    <2> HIDE DEF D, G, L, R
    <2> QED
      BY <1>1, <1>6, <1>7, <1>8, <1>9
  <1> QED
    BY <1>1, <1>2, <1>10, StoreStep DEF m

\* Nothing is stored at first.
LEMMA FreshInit == Init => FreshInv
  <1> SUFFICES ASSUME Init PROVE FreshInv
    OBVIOUS
  <1>1. \A p \in Callers : reply[p] = None /\ None # Waiting
    BY CacheValues DEF Init
  <1>2. \A r \in Requests : pc[r] = "idle"
    BY DEF Init
  <1>3. \A k \in Keys : floor[k] = 1 /\ version[k] = 1 /\ data[k] = None /\ db[k] = None
    BY DEF Init, Map!Init, Redis!Init
  <1>4. late = {}
    BY DEF Init, Redis!Init
  <1> QED
    BY <1>1, <1>2, <1>3, <1>4 DEF FreshInv, Newer, Fresh

\* A caller sends a write of the version of now, or one that it has made.
LEMMA IssueFresh ==
  ASSUME Typed, Newer, NEW p \in Callers, NEW op \in Ops, NEW k \in Keys,
         NEW v \in Values, NEW e \in Deadlines \cup {0}, Issue(p, op, k, v, e),
         op \in {"set", "setAt"} /\ v \in Bodies => floor[k] <= v,
         floor' = floor
  PROVE  /\ \A q \in Callers : reply'[q] = Waiting => Floored(call[q])'
         /\ \A m \in late' : Floored(m)'
         /\ reply'[p] = Waiting
         /\ \A q \in Callers \ {p} : reply'[q] = reply[q]
         /\ UNCHANGED <<store, inMap, inRedis>>
  <1>1. /\ call'[p].op = op /\ call'[p].key = k /\ call'[p].value = v
        /\ reply'[p] = Waiting
        /\ \A q \in Callers \ {p} : call'[q] = call[q] /\ reply'[q] = reply[q]
    BY IssueTyped
  <1>2. UNCHANGED <<store, inMap, inRedis>> /\ late' = late
    BY DEF Issue, inRedis
  <1>3. Floored(call[p])'
    BY <1>1 DEF Floored
  <1>4. \A q \in Callers \ {p} : reply'[q] = Waiting => Floored(call[q])'
    BY <1>1 DEF Newer, Floored
  <1>5. \A m \in late' : Floored(m)'
    BY <1>2 DEF Newer, Floored
  <1> QED
    BY <1>1, <1>2, <1>3, <1>4, <1>5

\* Every step keeps bodies above the floors.
LEMMA FreshStep == Typed /\ Typed' /\ FreshInv /\ [Next]_vars => FreshInv'
  <1> SUFFICES ASSUME Typed, Typed', FreshInv, [Next]_vars PROVE FreshInv'
    OBVIOUS
  <1> USE DEF common, inMap, inRedis, app
  <1>Ops. {"get", "exists", "set", "setAt", "delete"} \subseteq Ops
    BY DEF Ops
  <1>Callers. /\ \A r \in Requests : r \in Callers
              /\ \A w \in Writers : w \in Callers /\ w \notin Requests
    BY CacheAssumption DEF Callers
  <1>Bodies. Bodies \subseteq Nat
    BY CacheAssumption DEF Bodies
  <1>Returns. ASSUME NEW p \in Callers, Return(p), reply[p] # Waiting
              PROVE  /\ \A q \in Callers : reply'[q] = Waiting => reply[q] = Waiting
                     /\ reply'[p] = None
                     /\ \A q \in Callers \ {p} : reply'[q] = reply[q]
                     /\ UNCHANGED <<store, now, ttl, call, inMap, inRedis>>
    <2>1. reply' = [reply EXCEPT ![p] = None] /\ None # Waiting
      BY <1>Returns, CacheValues DEF Return
    <2> QED
      BY <1>Returns, <2>1 DEF Typed, Shape, Return
  <1>None. None \notin Bodies /\ Waiting \notin Bodies
    BY CacheValues DEF Values
  <1>GetReturns. ASSUME NEW r \in Requests, GetReturns(r) PROVE FreshInv'
    <2>1. /\ \A q \in Callers : reply'[q] = Waiting => reply[q] = Waiting
          /\ \A q \in Callers \ {r} : reply'[q] = reply[q]
          /\ UNCHANGED <<store, now, ttl, call, inMap, inRedis>>
      BY <1>GetReturns, <1>Callers, <1>Returns DEF GetReturns
    <2>2. /\ \/ pc' = [pc EXCEPT ![r] = "idle"] /\ key' = [key EXCEPT ![r] = None]
             \/ pc' = [pc EXCEPT ![r] = "run"] /\ key' = key
          /\ since' = [since EXCEPT ![r] = None]
          /\ UNCHANGED <<version, body, floor>>
      BY <1>GetReturns DEF GetReturns, End
    <2>3. \A q \in Requests : /\ q = r => pc'[q] \in {"idle", "run"}
                              /\ q # r => /\ pc'[q] = pc[q] /\ key'[q] = key[q]
                                          /\ since'[q] = since[q]
      BY <2>2 DEF Typed, Shape
    <2>4. Newer'
      BY <2>1, <2>2, <2>3 DEF FreshInv, Newer, Floored
    <2>5. Fresh'
      BY <1>Callers, <2>1, <2>3 DEF FreshInv, Fresh
    <2> QED
      BY <2>4, <2>5 DEF FreshInv
  <1>Make. ASSUME NEW r \in Requests, Make(r) PROVE FreshInv'
    <2>1. /\ key[r] \in Keys
          /\ body' = [body EXCEPT ![r] = version[key[r]]]
          /\ pc' = [pc EXCEPT ![r] = "made"]
          /\ UNCHANGED <<store, common, inMap, inRedis, version, key, floor, since>>
      BY <1>Make DEF Make, Typed, Placed
    <2>2. /\ \A q \in Requests : q # r => pc'[q] = pc[q] /\ body'[q] = body[q]
          /\ body'[r] = version[key[r]] /\ pc'[r] = "made"
      BY <2>1 DEF Typed, Shape
    <2>3. floor[key[r]] <= body'[r]
      BY <2>1, <2>2 DEF FreshInv, Newer
    <2>4. Newer'
      BY <2>1, <2>2, <2>3 DEF FreshInv, Newer, Floored
    <2>5. Fresh'
      BY <2>1, <2>2 DEF FreshInv, Fresh
    <2> QED
      BY <2>4, <2>5 DEF FreshInv
  <1>Fill. ASSUME NEW r \in Requests, Fill(r) PROVE FreshInv'
    <2>1. pc[r] = "made" /\ key[r] \in Keys /\ body[r] \in Bodies /\ body[r] \in Values
      BY <1>Fill DEF Fill, Typed, Placed, Values
    <2>2. /\ Issue(r, "set", key[r], body[r], 0)
          /\ pc' = [pc EXCEPT ![r] = "set"]
          /\ body' = [body EXCEPT ![r] = None]
          /\ UNCHANGED <<version, key, floor, since>>
      BY <1>Fill DEF Fill
    <2>3. floor[key[r]] <= body[r]
      BY <2>1 DEF FreshInv, Newer
    <2>4. /\ \A q \in Callers : reply'[q] = Waiting => Floored(call[q])'
          /\ \A m \in late' : Floored(m)'
          /\ \A q \in Callers \ {r} : reply'[q] = reply[q]
          /\ UNCHANGED <<store, inMap, inRedis>>
      BY <1>Callers, <1>Ops, <2>1, <2>2, <2>3, IssueFresh DEF FreshInv
    <2>5. \A q \in Requests : /\ q = r => pc'[q] = "set"
                              /\ q # r => pc'[q] = pc[q] /\ body'[q] = body[q]
      BY <2>2 DEF Typed, Shape
    <2>6. Newer'
      BY <2>2, <2>4, <2>5 DEF FreshInv, Newer
    <2>7. Fresh'
      BY <1>Callers, <2>2, <2>4, <2>5 DEF FreshInv, Fresh
    <2> QED
      BY <2>6, <2>7 DEF FreshInv
  <1>NoFill. ASSUME NEW r \in Requests, NoFill(r) PROVE FreshInv'
    <2>1. /\ pc' = [pc EXCEPT ![r] = "idle"] /\ key' = [key EXCEPT ![r] = None]
          /\ body' = [body EXCEPT ![r] = None]
          /\ UNCHANGED <<store, common, inMap, inRedis, version, floor, since>>
      BY <1>NoFill DEF NoFill, End
    <2>2. \A q \in Requests : /\ q = r => pc'[q] = "idle"
                              /\ q # r => /\ pc'[q] = pc[q] /\ body'[q] = body[q]
                                          /\ key'[q] = key[q]
      BY <2>1 DEF Typed, Shape
    <2>3. Newer'
      BY <2>1, <2>2 DEF FreshInv, Newer, Floored
    <2>4. Fresh'
      BY <2>1, <2>2 DEF FreshInv, Fresh
    <2> QED
      BY <2>3, <2>4 DEF FreshInv
  <1>FillReturns. ASSUME NEW r \in Requests, FillReturns(r) PROVE FreshInv'
    <2>1. /\ \A q \in Callers : reply'[q] = Waiting => reply[q] = Waiting
          /\ \A q \in Callers \ {r} : reply'[q] = reply[q]
          /\ UNCHANGED <<store, now, ttl, call, inMap, inRedis>>
      BY <1>FillReturns, <1>Callers, <1>Returns DEF FillReturns
    <2>2. /\ pc' = [pc EXCEPT ![r] = "idle"] /\ key' = [key EXCEPT ![r] = None]
          /\ UNCHANGED <<version, body, floor, since>>
      BY <1>FillReturns DEF FillReturns, End
    <2>3. \A q \in Requests : /\ q = r => pc'[q] = "idle"
                              /\ q # r => pc'[q] = pc[q] /\ key'[q] = key[q]
      BY <2>2 DEF Typed, Shape
    <2>4. Newer'
      BY <2>1, <2>2, <2>3 DEF FreshInv, Newer, Floored
    <2>5. Fresh'
      BY <1>Callers, <2>1, <2>2, <2>3 DEF FreshInv, Fresh
    <2> QED
      BY <2>4, <2>5 DEF FreshInv
  <1>Begin. ASSUME NEW r \in Requests, NEW k \in Keys, Begin(r, k) PROVE FreshInv'
    <2>1. /\ Issue(r, "get", k, Nil, 0) /\ Nil \in Values
          /\ pc' = [pc EXCEPT ![r] = "get"]
          /\ key' = [key EXCEPT ![r] = k]
          /\ since' = [since EXCEPT ![r] = floor[k]]
          /\ UNCHANGED <<version, body, floor>>
      BY <1>Begin DEF Begin, Values
    <2>2. /\ \A q \in Callers : reply'[q] = Waiting => Floored(call[q])'
          /\ \A m \in late' : Floored(m)'
          /\ reply'[r] = Waiting
          /\ \A q \in Callers \ {r} : reply'[q] = reply[q]
          /\ UNCHANGED <<store, inMap, inRedis>>
      BY <1>Callers, <1>Ops, <2>1, IssueFresh DEF FreshInv
    <2>3. \A q \in Requests : /\ q = r => /\ pc'[q] = "get" /\ key'[q] = k
                                          /\ since'[q] = floor[k]
                              /\ q # r => /\ pc'[q] = pc[q] /\ key'[q] = key[q]
                                          /\ since'[q] = since[q]
      BY <2>1 DEF Typed, Shape
    <2>4. floor[k] \in Nat
      BY <1>Bodies DEF Typed, Shape
    <2>5. Newer'
      BY <2>1, <2>2, <2>3, <2>4 DEF FreshInv, Newer
    <2>6. Fresh'
      BY <1>Callers, <1>None, <2>2, <2>3 DEF FreshInv, Fresh
    <2> QED
      BY <2>5, <2>6 DEF FreshInv
  <1>UseReturns. ASSUME NEW w \in Writers, UseReturns(w) PROVE FreshInv'
    <2>1. /\ \A q \in Callers : reply'[q] = Waiting => reply[q] = Waiting
          /\ \A q \in Callers \ {w} : reply'[q] = reply[q]
          /\ UNCHANGED <<store, now, ttl, call, inMap, inRedis>>
      BY <1>UseReturns, <1>Callers, <1>Returns DEF UseReturns
    <2>2. UNCHANGED <<version, pc, key, body, floor, since>>
      BY <1>UseReturns DEF UseReturns
    <2>3. Newer'
      BY <2>1, <2>2 DEF FreshInv, Newer, Floored
    <2>4. Fresh'
      BY <1>Callers, <2>1, <2>2 DEF FreshInv, Fresh
    <2> QED
      BY <2>3, <2>4 DEF FreshInv
  <1>Use. ASSUME NEW w \in Writers, NEW k \in Keys, Use(w, k) PROVE FreshInv'
    <2>0. floor[k] <= version[k] /\ floor[k] \in Nat
      BY <1>Bodies DEF FreshInv, Newer, Typed, Shape
    <2>1. PICK op \in Ops, v \in Values, e \in Deadlines \cup {0} :
            /\ Issue(w, op, k, v, e)
            /\ op \in {"set", "setAt"} => v \in {version[k], Nil, Other}
      <3>1. version[k] \in Values /\ Nil \in Values /\ Other \in Values
        BY DEF Values, Typed, Shape
      <3>2. ASSUME NEW op \in {"exists", "delete"}, Issue(w, op, k, Nil, 0)
            PROVE  /\ op \in Ops /\ 0 \in Deadlines \cup {0}
                   /\ ~(op \in {"set", "setAt"})
        BY DEF Ops
      <3> QED
        BY <1>Use, <1>Ops, <3>1, <3>2 DEF Use
    <2>2. UNCHANGED <<version, pc, key, body, floor, since>>
      BY <1>Use DEF Use
    <2>3. op \in {"set", "setAt"} /\ v \in Bodies => floor[k] <= v
      BY <2>0, <2>1, CacheValues
    <2>4. /\ \A q \in Callers : reply'[q] = Waiting => Floored(call[q])'
          /\ \A m \in late' : Floored(m)'
          /\ \A q \in Callers \ {w} : reply'[q] = reply[q]
          /\ UNCHANGED <<store, inMap, inRedis>>
      BY <1>Callers, <2>1, <2>2, <2>3, IssueFresh DEF FreshInv
    <2>5. Newer'
      BY <2>2, <2>4 DEF FreshInv, Newer
    <2>6. Fresh'
      BY <1>Callers, <2>2, <2>4 DEF FreshInv, Fresh
    <2> QED
      BY <2>5, <2>6 DEF FreshInv
  <1>Map. ASSUME NEW p \in Callers, MapStep(p) PROVE FreshInv'
    BY <1>Map, MapFresh
  <1>Redis. ASSUME NEW p \in Callers, RedisStep(p) \/ RedisGivesUp(p) PROVE FreshInv'
    BY <1>Redis, RedisFresh
  <1>Change. ASSUME NEW k \in Keys, Change(k) PROVE FreshInv'
    <2>1. version' = [version EXCEPT ![k] = @ + 1]
          /\ UNCHANGED <<store, common, inMap, inRedis, pc, key, body, floor, since>>
      BY <1>Change DEF Change
    <2>2. \A j \in Keys : floor[j] \in Nat /\ version[j] \in Nat
      BY <1>Bodies DEF Typed, Shape
    <2>3. \A j \in Keys : floor[j] <= version'[j]
      BY <2>1, <2>2 DEF FreshInv, Newer, Typed, Shape
    <2> QED
      BY <2>1, <2>3 DEF FreshInv, Newer, Floored, Fresh
  <1>SetDefaultTTL. CASE SetDefaultTTL
    BY <1>SetDefaultTTL DEF SetDefaultTTL, FreshInv, Newer, Floored, Fresh
  <1>CloseStore. CASE CloseStore
    BY <1>CloseStore DEF CloseStore, Map!Close, Redis!Close, FreshInv, Newer, Floored, Fresh
  <1>Clean. CASE Clean
    <2>1. /\ \A k \in Keys : data'[k] \in {data[k], None}
          /\ UNCHANGED <<store, call, reply, inRedis, app>>
      BY <1>Clean DEF Clean, Map!Sweep, Map!StopCleaner
    <2> QED
      BY <2>1 DEF FreshInv, Newer, Floored, Fresh
  <1>Network. CASE Network
    <2>1. store = "redis" /\ UNCHANGED <<store, call, reply, data, cleaner, app>>
      BY <1>Network DEF Network, Redis!ServeLate, Redis!DropLate, Redis!Lose
    <2>2. late' \subseteq late
          /\ \A k \in Keys : db'[k] # None => floor[k] <= db'[k].value
      <3>1. ASSUME NEW m \in late, Redis!ServeLate(m)
            PROVE  late' \subseteq late
                   /\ \A k \in Keys : db'[k] # None => floor[k] <= db'[k].value
        <4>1. /\ m \in AnyCall /\ Redis!Apply(m) /\ late' \subseteq late
              /\ m.op \in {"set", "setAt"} => m.value \in Bodies
              /\ Floored(m)
          BY <3>1 DEF Redis!ServeLate, Typed, Shape, Signed, FreshInv, Newer
        <4>2. m.key \in Keys
          BY <4>1 DEF AnyCall
        <4>3. CASE m.op \in {"set", "setAt"}
          <5>1. db' = [db EXCEPT ![m.key] = [value |-> m.value, until |-> now + m.px]]
            BY <4>1, <4>3 DEF Redis!Apply
          <5>2. floor[m.key] <= m.value
            BY <4>1, <4>3 DEF Floored
          <5> QED
            BY <2>1, <4>1, <4>2, <5>1, <5>2 DEF FreshInv, Newer, Typed, Shape
        <4>4. CASE m.op \notin {"set", "setAt"}
          <5>1. \A k \in Keys : db'[k] \in {db[k], None}
            BY <4>1, <4>2, <4>4 DEF Redis!Apply, Typed, Shape
          <5> QED
            BY <2>1, <4>1, <5>1 DEF FreshInv, Newer
        <4> QED
          BY <4>3, <4>4
      <3>2. ASSUME NEW m \in late, Redis!DropLate(m)
            PROVE  late' \subseteq late
                   /\ \A k \in Keys : db'[k] # None => floor[k] <= db'[k].value
        BY <2>1, <3>2 DEF Redis!DropLate, FreshInv, Newer
      <3>3. ASSUME NEW j \in Keys, Redis!Lose(j)
            PROVE  late' \subseteq late
                   /\ \A k \in Keys : db'[k] # None => floor[k] <= db'[k].value
        <4>1. late' = late /\ \A k \in Keys : db'[k] \in {db[k], None}
          BY <3>3 DEF Redis!Lose, Typed, Shape
        <4> QED
          BY <2>1, <4>1 DEF FreshInv, Newer
      <3> QED
        BY <1>Network, <3>1, <3>2, <3>3 DEF Network
    <2> QED
      BY <2>1, <2>2 DEF FreshInv, Newer, Floored, Fresh
  <1>Tick. CASE Tick
    BY <1>Tick DEF Tick, FreshInv, Newer, Floored, Fresh
  <1>Stutter. CASE UNCHANGED vars
    BY <1>Stutter DEF vars, FreshInv, Newer, Floored, Fresh
  <1> QED
    BY <1>GetReturns, <1>Make, <1>Fill, <1>NoFill, <1>FillReturns, <1>Begin,
       <1>UseReturns, <1>Use, <1>Map, <1>Redis, <1>Change, <1>SetDefaultTTL,
       <1>CloseStore, <1>Clean, <1>Network, <1>Tick, <1>Stutter
       DEF Next, Request

\* A request does not get a body older than a delete of its key that worked
\* before the request began, unless the body was on its way then: the floor of a
\* key never falls, and nothing below it is in a store, on its way into one or in
\* a handler (the gap between extensions/cache.go:36 and :56).
THEOREM NothingStale == Spec => []Fresh
  <1>1. FreshInv => Fresh
    BY DEF FreshInv
  <1> QED
    BY <1>1, TypedAlways, FreshInit, FreshStep, PTL DEF Spec

-----------------------------------------------------------------------------
(* The times of the calls of Redis. A time to live that was worked out at  *)
(* the call still reaches the deadline when the command arrives, and a     *)
(* command that asks for none has not been sent.                           *)

InTime(m) ==
  m.op = "setAt" => /\ m.exp = 0 => m.px = 0
                    /\ m.px > 0 => m.exp * TicksPerSec <= now + m.px

Timely ==
  /\ now >= TicksPerSec
  /\ store = "redis" => /\ \A p \in Callers : reply[p] = Waiting => InTime(call[p])
                        /\ \A m \in late : InTime(m) /\ ~Redis!Refused(m)

\* Products, which the solver does not multiply out by itself.
LEMMA Distribute ==
  ASSUME NEW a \in Nat, NEW b \in Nat, NEW c \in Nat
  PROVE  /\ (a - b) * c = a * c - b * c
         /\ (a + 1) * c = a * c + c
         /\ a * c = c * a
         /\ a <= b => c * a <= c * b
         /\ a * c \in Nat
  <1>1. a <= b => c * a <= c * b
    <2> SUFFICES ASSUME a <= b PROVE c * a <= c * b
      OBVIOUS
    <2>1. PICK d \in Nat : b = a + d
      <3>1. b - a \in Nat /\ b = a + (b - a)
        OBVIOUS
      <3> QED
        BY <3>1
    <2>2. c * b = c * a + c * d /\ c * d >= 0 /\ c * a \in Nat
      BY <2>1
    <2> QED
      BY <2>2
  <1> QED
    BY <1>1

\* A time to live in whole seconds, from a clock rounded down, reaches the deadline.
LEMMA PxInTime ==
  ASSUME Typed, NEW e \in Nat, Redis!Px("setAt", e) > 0
  PROVE  e > 0 /\ e * TicksPerSec <= now + Redis!Px("setAt", e)
  <1> DEFINE s == now \div TicksPerSec
  <1>1. s \in Nat /\ TicksPerSec * s <= now /\ now \in Nat /\ TicksPerSec \in Nat
    BY WholeSeconds, CacheAssumption DEF Typed, Shape
  <1>2. e > s /\ Redis!Px("setAt", e) = (e - s) * TicksPerSec
    BY DEF Redis!Px, Redis!Seconds
  <1> HIDE DEF s
  <1>3. (e - s) * TicksPerSec = e * TicksPerSec - s * TicksPerSec
        /\ s * TicksPerSec = TicksPerSec * s
        /\ e * TicksPerSec \in Nat /\ s * TicksPerSec \in Nat
    BY <1>1, Distribute
  <1> QED
    BY <1>1, <1>2, <1>3

\* Time only brings a command's end further.
LEMMA TimelyStep == Typed /\ Typed' /\ Timely /\ [Next]_vars => Timely'
  <1> SUFFICES ASSUME Typed, Typed', Timely, [Next]_vars PROVE Timely'
    OBVIOUS
  <1> USE DEF common, inMap, inRedis, app
  <1>Ops. {"get", "exists", "set", "setAt", "delete"} \subseteq Ops
    BY DEF Ops
  <1>Nat. now \in Nat /\ TicksPerSec \in Nat \ {0}
    BY CacheAssumption DEF Typed, Shape
  <1>Callers. \A r \in Requests \cup Writers : r \in Callers
    BY DEF Callers
  <1>Issue. ASSUME NEW p \in Callers, NEW op \in Ops, NEW k \in Keys,
                   NEW v \in Values, NEW e \in Deadlines \cup {0}, Issue(p, op, k, v, e)
            PROVE  Timely'
    <2>1. /\ call'[p].op = op /\ call'[p].exp = e
          /\ call'[p].px = IF store = "redis" THEN Redis!Px(op, e) ELSE 0
          /\ reply'[p] = Waiting
          /\ \A q \in Callers \ {p} : call'[q] = call[q] /\ reply'[q] = reply[q]
      BY <1>Issue, IssueTyped
    <2>2. UNCHANGED <<store, now, ttl, inMap, inRedis>>
      BY <1>Issue DEF Issue
    <2>3. store = "redis" => InTime(call[p])'
      <3> SUFFICES ASSUME store = "redis", op = "setAt" PROVE InTime(call[p])'
        BY <2>1 DEF InTime
      <3>1. call'[p].px = Redis!Px("setAt", e) /\ call'[p].exp = e /\ e \in Nat
        BY <2>1, CacheAssumption
      <3>2. call'[p].px \in Nat
        <4>1. call'[p] \in AnyCall
          BY <2>1 DEF Typed, Signed
        <4> QED
          BY <4>1 DEF AnyCall
      <3> QED
        BY <2>2, <3>1, <3>2, PxInTime DEF InTime
    <2> QED
      BY <2>1, <2>2, <2>3 DEF Timely, InTime, Redis!Refused
  <1>Same. ASSUME UNCHANGED <<store, now, late>>,
                  \A q \in Callers : reply'[q] = Waiting =>
                                       reply[q] = Waiting /\ call'[q] = call[q]
           PROVE  Timely'
    BY <1>Same DEF Timely, InTime, Redis!Refused
  <1>Answer. ASSUME NEW p \in Callers, NEW a, a # Waiting, Map!Return(p, a)
             PROVE  \A q \in Callers : reply'[q] = Waiting =>
                                         reply[q] = Waiting /\ call'[q] = call[q]
    BY <1>Answer DEF Map!Return, Typed, Shape
  <1>Return. ASSUME NEW p \in Callers, Return(p) PROVE Timely'
    <2>1. \A q \in Callers : reply'[q] = Waiting =>
                               reply[q] = Waiting /\ call'[q] = call[q]
      BY <1>Return, CacheValues DEF Return, Typed, Shape
    <2> QED
      BY <1>Return, <1>Same, <2>1 DEF Return
  <1>GetReturns. ASSUME NEW r \in Requests, GetReturns(r) PROVE Timely'
    BY <1>GetReturns, <1>Return, <1>Callers DEF GetReturns
  <1>Make. ASSUME NEW r \in Requests, Make(r) PROVE Timely'
    BY <1>Make, <1>Same DEF Make
  <1>Fill. ASSUME NEW r \in Requests, Fill(r) PROVE Timely'
    <2>1. pc[r] = "made" /\ key[r] \in Keys /\ body[r] \in Values
      BY <1>Fill DEF Fill, Typed, Placed, Values
    <2> QED
      BY <1>Fill, <1>Issue, <1>Callers, <1>Ops, <2>1 DEF Fill
  <1>NoFill. ASSUME NEW r \in Requests, NoFill(r) PROVE Timely'
    BY <1>NoFill, <1>Same DEF NoFill
  <1>FillReturns. ASSUME NEW r \in Requests, FillReturns(r) PROVE Timely'
    BY <1>FillReturns, <1>Return, <1>Callers DEF FillReturns
  <1>Begin. ASSUME NEW r \in Requests, NEW k \in Keys, Begin(r, k) PROVE Timely'
    BY <1>Begin, <1>Issue, <1>Callers, <1>Ops DEF Begin, Values
  <1>UseReturns. ASSUME NEW w \in Writers, UseReturns(w) PROVE Timely'
    BY <1>UseReturns, <1>Return, <1>Callers DEF UseReturns
  <1>Use. ASSUME NEW w \in Writers, NEW k \in Keys, Use(w, k) PROVE Timely'
    <2>1. version[k] \in Values /\ Nil \in Values /\ Other \in Values
      BY DEF Values, Typed, Shape
    <2>2. \E op \in Ops, v \in Values, e \in Deadlines \cup {0} : Issue(w, op, k, v, e)
      BY <1>Use, <1>Ops, <2>1 DEF Use
    <2> QED
      BY <1>Issue, <1>Callers, <2>2
  <1>Map. ASSUME NEW p \in Callers, MapStep(p) PROVE Timely'
    BY <1>Map DEF MapStep, Map!Do, Deleted, Timely
  <1>Redis. ASSUME NEW p \in Callers, RedisStep(p) \/ RedisGivesUp(p) PROVE Timely'
    <2>1. /\ Redis!Serve(p) \/ Redis!Retry(p) \/ Redis!Refuse(p) \/ Redis!GiveUp(p)
          /\ store' = store
      BY <1>Redis DEF RedisStep, RedisGivesUp, Deleted
    <2>2. reply[p] = Waiting /\ now' = now /\ call[p] \in AnyCall
      BY <2>1 DEF Redis!Serve, Redis!Retry, Redis!Refuse, Redis!GiveUp, Typed, Signed
    <2>3. \A q \in Callers : q # p \/ reply'[q] = Waiting =>
                               call'[q] = call[q] /\ reply'[q] = reply[q]
      <3>1. ASSUME NEW a, a # Waiting, Redis!Return(p, a)
            PROVE  \A q \in Callers : q # p \/ reply'[q] = Waiting =>
                                        call'[q] = call[q] /\ reply'[q] = reply[q]
        BY <3>1 DEF Redis!Return, Typed, Shape
      <3>2. CASE Redis!Serve(p)
        <4>1. Redis!Answer(call[p]) # Waiting
          <5>1. call[p].key \in Keys
            BY <2>2 DEF AnyCall
          <5>2. db[call[p].key] # None => db[call[p].key].value \in Values
            BY <5>1 DEF Typed, Shape, Kept, Values
          <5> QED
            BY <5>2, CacheValues DEF Redis!Answer, Redis!Kept
        <4> QED
          BY <3>1, <3>2, <4>1 DEF Redis!Serve
      <3>3. CASE Redis!Retry(p)
        BY <3>3 DEF Redis!Retry
      <3>4. CASE Redis!Refuse(p)
        BY <3>1, <3>4, CacheValues DEF Redis!Refuse
      <3>5. CASE Redis!GiveUp(p)
        BY <3>1, <3>5, CacheValues DEF Redis!GiveUp
      <3> QED
        BY <2>1, <3>2, <3>3, <3>4, <3>5
    <2>4. \A m \in late' :
            \/ m \in late
            \/ m = [call[p] EXCEPT !.by = Nobody] /\ ~Redis!Refused(call[p])
      BY <2>1 DEF Redis!Serve, Redis!Retry, Redis!Refuse, Redis!GiveUp, Redis!Left
    <2>5. \A q \in Callers : reply'[q] = Waiting =>
                               reply[q] = Waiting /\ call'[q] = call[q]
      BY <2>3
    <2>6. store = "redis" => \A m \in late' : InTime(m) /\ ~Redis!Refused(m)
      <3> SUFFICES ASSUME store = "redis", NEW m \in late', m \notin late
                   PROVE  InTime(m) /\ ~Redis!Refused(m)
        BY DEF Timely
      <3>1. m = [call[p] EXCEPT !.by = Nobody] /\ ~Redis!Refused(call[p])
        BY <2>4
      <3>2. /\ m.op = call[p].op /\ m.value = call[p].value
            /\ m.exp = call[p].exp /\ m.px = call[p].px
        BY <2>2, <3>1 DEF AnyCall
      <3>3. InTime(call[p])
        BY <2>2 DEF Timely
      <3> QED
        BY <3>1, <3>2, <3>3 DEF InTime, Redis!Refused
    <2> QED
      BY <2>1, <2>2, <2>5, <2>6 DEF Timely, InTime, Redis!Refused
  <1>Change. ASSUME NEW k \in Keys, Change(k) PROVE Timely'
    BY <1>Change, <1>Same DEF Change
  <1>SetDefaultTTL. CASE SetDefaultTTL
    BY <1>SetDefaultTTL, <1>Same DEF SetDefaultTTL
  <1>CloseStore. CASE CloseStore
    BY <1>CloseStore, <1>Same DEF CloseStore, Map!Close, Redis!Close
  <1>Clean. CASE Clean
    BY <1>Clean, <1>Same DEF Clean, Map!Sweep, Map!StopCleaner
  <1>Network. CASE Network
    <2>1. late' \subseteq late /\ UNCHANGED <<store, now, call, reply>>
      BY <1>Network DEF Network, Redis!ServeLate, Redis!DropLate, Redis!Lose
    <2> QED
      BY <2>1 DEF Timely, InTime, Redis!Refused
  <1>Tick. CASE Tick
    <2>1. now' = now + 1 /\ UNCHANGED <<store, call, reply, late>>
      BY <1>Tick DEF Tick
    <2>2. ASSUME NEW m \in AnyCall, InTime(m) PROVE InTime(m)'
      <3>1. m.px \in Nat /\ m.exp \in Nat /\ m.exp * TicksPerSec \in Nat
        <4>1. m.px \in Nat /\ m.exp \in Nat
          BY CallParts
        <4> QED
          BY <1>Nat, <4>1, Distribute
      <3> QED
        BY <1>Nat, <2>1, <2>2, <3>1 DEF InTime
    <2>3. now' >= TicksPerSec
      BY <1>Nat, <2>1 DEF Timely
    <2>4. store' = "redis" => \A p \in Callers : reply'[p] = Waiting => InTime(call[p])'
      <3> SUFFICES ASSUME store = "redis", NEW p \in Callers, reply[p] = Waiting
                   PROVE  InTime(call[p])'
        BY <2>1
      <3>1. call[p] \in AnyCall /\ InTime(call[p])
        BY DEF Timely, Typed, Signed
      <3> QED
        BY <2>1, <2>2, <3>1 DEF InTime
    <2>5. store' = "redis" => \A m \in late' : InTime(m)' /\ ~Redis!Refused(m)'
      <3> SUFFICES ASSUME store = "redis", NEW m \in late
                   PROVE  InTime(m)' /\ ~Redis!Refused(m)'
        BY <2>1
      <3>1. m \in AnyCall /\ InTime(m) /\ ~Redis!Refused(m)
        BY DEF Timely, Typed, Shape
      <3> QED
        BY <2>2, <3>1 DEF Redis!Refused
    <2> QED
      BY <2>3, <2>4, <2>5 DEF Timely
  <1>Stutter. CASE UNCHANGED vars
    BY <1>Stutter, <1>Same DEF vars
  <1> QED
    BY <1>GetReturns, <1>Make, <1>Fill, <1>NoFill, <1>FillReturns, <1>Begin,
       <1>UseReturns, <1>Use, <1>Map, <1>Redis, <1>Change, <1>SetDefaultTTL,
       <1>CloseStore, <1>Clean, <1>Network, <1>Tick, <1>Stutter
       DEF Next, Request

-----------------------------------------------------------------------------
(* Either store implements CacheAbs: its entries are those of the store    *)
(* with the last tick they can be got, its writes the calls that wait and  *)
(* the commands on the network.                                            *)

\* There are no commands at first.
LEMMA TimelyInit == Init => Timely
  <1> SUFFICES ASSUME Init PROVE Timely
    OBVIOUS
  <1>1. \A p \in Callers : reply[p] # Waiting
    BY CacheValues DEF Init
  <1>2. late = {} /\ now = TicksPerSec
    BY DEF Init, Redis!Init
  <1> QED
    BY <1>1, <1>2, CacheAssumption DEF Timely

\* The last tick of an entry of MapCache that expires at second e.
LEMMA MapTimes ==
  ASSUME NEW e \in Nat, NEW n \in Nat
  PROVE  /\ (e + 1) * TicksPerSec - 1 = e * TicksPerSec + (TicksPerSec - 1)
         /\ (e + 1) * TicksPerSec - 1 \in Nat /\ e * TicksPerSec \in Nat
         /\ e > 0 => (e + 1) * TicksPerSec - 1 > 0
         /\ n \div TicksPerSec > e <=> n > (e + 1) * TicksPerSec - 1
         /\ n \div TicksPerSec = e =>
              (e + 1) * TicksPerSec - 1 \in n..(n + (TicksPerSec - 1))
  <1> DEFINE s == n \div TicksPerSec
  <1>1. s \in Nat /\ TicksPerSec * s <= n /\ n < TicksPerSec * s + TicksPerSec
        /\ TicksPerSec \in Nat \ {0}
    BY WholeSeconds, CacheAssumption
  <1>2. (e + 1) * TicksPerSec = e * TicksPerSec + TicksPerSec
        /\ e * TicksPerSec \in Nat /\ e * TicksPerSec = TicksPerSec * e
    BY <1>1, Distribute
  <1>3. e > 0 => e * TicksPerSec >= TicksPerSec
    <2>1. 1 <= e => TicksPerSec * 1 <= TicksPerSec * e
      BY <1>1, Distribute
    <2> QED
      BY <1>1, <1>2, <2>1
  <1>4. e + 1 <= s => TicksPerSec * (e + 1) <= TicksPerSec * s
    BY <1>1, Distribute
  <1>5. s <= e => TicksPerSec * s <= TicksPerSec * e
    BY <1>1, Distribute
  <1>6. TicksPerSec * (e + 1) = (e + 1) * TicksPerSec /\ TicksPerSec * s \in Nat
    BY <1>1, Distribute
  <1> HIDE DEF s
  <1> DEFINE te == e * TicksPerSec
             te1 == (e + 1) * TicksPerSec
             ts == TicksPerSec * s
  <1>7. /\ te \in Nat /\ ts \in Nat /\ te1 = te + TicksPerSec
        /\ e > 0 => te >= TicksPerSec
        /\ e + 1 <= s => te1 <= ts
        /\ s <= e => ts <= te
        /\ s = e => ts = te
        /\ ts <= n /\ n < ts + TicksPerSec
    BY <1>1, <1>2, <1>3, <1>4, <1>5, <1>6
  <1> HIDE DEF te, te1, ts
  <1>8. /\ te1 - 1 = te + (TicksPerSec - 1)
        /\ te1 - 1 \in Nat
        /\ e > 0 => te1 - 1 > 0
        /\ s > e <=> n > te1 - 1
        /\ s = e => te1 - 1 \in n..(n + (TicksPerSec - 1))
    BY <1>1, <1>7
  <1> QED
    BY <1>2, <1>8 DEF te, te1, s

\* What both stores have of a key, as an entry of CacheAbs.
LEMMA EntryTyped ==
  ASSUME Typed, NEW k \in Keys
  PROVE  /\ store = "redis" => Entry(k) = db[k]
         /\ store = "map" /\ data[k] = None => Entry(k) = None
         /\ store = "map" /\ data[k] # None =>
              /\ data[k].Value \in Values /\ data[k].ExpiresAt \in Nat
              /\ Entry(k) # None /\ Entry(k).value = data[k].Value
              /\ Entry(k).until =
                   IF data[k].ExpiresAt = 0 THEN 0
                   ELSE (data[k].ExpiresAt + 1) * TicksPerSec - 1
  <1>1. store = "redis" => Entry(k) = db[k]
    BY DEF Entry
  <1>2. store = "map" /\ data[k] = None => Entry(k) = None
    BY DEF Entry
  <1>3. ASSUME store = "map", data[k] # None
        PROVE  /\ data[k].Value \in Values /\ data[k].ExpiresAt \in Nat
               /\ Entry(k) # None /\ Entry(k).value = data[k].Value
               /\ Entry(k).until = IF data[k].ExpiresAt = 0 THEN 0
                                   ELSE (data[k].ExpiresAt + 1) * TicksPerSec - 1
    <2> DEFINE u == IF data[k].ExpiresAt = 0 THEN 0
                    ELSE (data[k].ExpiresAt + 1) * TicksPerSec - 1
    <2>1. data[k].Value \in Values /\ data[k].ExpiresAt \in Nat
      BY <1>3 DEF Typed, Shape, Slots
    <2>2. u \in Nat
      BY <2>1, MapTimes
    <2>3. Entry(k) = [value |-> data[k].Value, until |-> u]
      BY <1>3 DEF Entry
    <2> HIDE DEF u
    <2>4. Entry(k) \in [value : Values, until : Nat]
      BY <2>1, <2>2, <2>3
    <2>5. Entry(k) # None /\ Entry(k).value = data[k].Value /\ Entry(k).until = u
      BY <2>3, <2>4, CacheValues
    <2> QED
      BY <2>1, <2>5 DEF u
  <1> QED
    BY <1>1, <1>2, <1>3

\* What can be got is what CacheAbs lets one get.
LEMMA SeenAlike ==
  ASSUME Typed, NEW k \in Keys
  PROVE  /\ store = "map" =>
              (Abs!Visible(k) <=> data[k] # None /\ ~Map!Expired(data[k]))
         /\ store = "redis" => (Redis!Kept(k) => Abs!Visible(k))
  <1>1. [j \in Keys |-> Entry(j)][k] = Entry(k)
    OBVIOUS
  <1>2. Abs!Visible(k) <=>
          Entry(k) # None /\ ~(Entry(k) # None /\ Entry(k).until > 0 /\ now > Entry(k).until)
    BY <1>1 DEF Abs!Visible, Abs!Gone
  <1>3. ASSUME store = "map", data[k] # None
        PROVE  Abs!Visible(k) <=> ~Map!Expired(data[k])
    <2>1. now \in Nat
      BY DEF Typed, Shape
    <2> DEFINE e == data[k].ExpiresAt
               u == (e + 1) * TicksPerSec - 1
    <2>2. /\ e \in Nat /\ Entry(k) # None
          /\ Entry(k).until = IF e = 0 THEN 0 ELSE u
      BY <1>3, EntryTyped
    <2>3. (e > 0 => u > 0) /\ (now \div TicksPerSec > e <=> now > u)
      BY <2>1, <2>2, MapTimes
    <2>4. Map!Expired(data[k]) <=> e > 0 /\ now \div TicksPerSec > e
      BY DEF Map!Expired, Map!Seconds
    <2> HIDE DEF e, u
    <2> QED
      BY <1>2, <2>2, <2>3, <2>4
  <1>4. ASSUME store = "map", data[k] = None PROVE ~Abs!Visible(k)
    BY <1>2, <1>4, EntryTyped
  <1>5. ASSUME store = "redis", Redis!Kept(k) PROVE Abs!Visible(k)
    <2>1. db[k] # None /\ now <= db[k].until /\ Entry(k) = db[k]
      BY <1>5, EntryTyped DEF Redis!Kept
    <2>2. db[k].until \in Nat /\ now \in Nat
      BY <2>1 DEF Typed, Shape, Kept
    <2> QED
      BY <1>2, <2>1, <2>2
  <1> QED
    BY <1>3, <1>4, <1>5

\* A write takes effect on one key.
LEMMA OneEntry ==
  ASSUME NEW k \in Keys, NEW x, Entry(k)' = x,
         \A j \in Keys \ {k} : Entry(j)' = Entry(j)
  PROVE  [j \in Keys |-> Entry(j)]' = [[j \in Keys |-> Entry(j)] EXCEPT ![k] = x]
  OBVIOUS

\* What the store has is what the entries are made of.
LEMMA SameEntries ==
  ASSUME store' = store, \A k \in Keys : data'[k] = data[k] /\ db'[k] = db[k]
  PROVE  [k \in Keys |-> Entry(k)]' = [k \in Keys |-> Entry(k)]
  BY DEF Entry

\* Writes that may take effect before and after the end of a call.
LEMMA SentEnds ==
  ASSUME Typed, NEW p \in Callers, reply[p] = Waiting, reply'[p] # Waiting,
         \A q \in Callers \ {p} : call'[q] = call[q] /\ reply'[q] = reply[q],
         late \subseteq late'
  PROVE  /\ call[p].op \in {"get", "exists"} => Sent' = Sent \cup late'
         /\ call[p].op \notin {"get", "exists"} =>
              /\ call[p] \in Sent /\ call[p].by = p
              /\ {m \in Sent : m.by = p} = {call[p]}
              /\ \A m \in Sent' : m \in late' \/ (m \in Sent /\ m # call[p])
              /\ \A m \in Sent : m # call[p] => m \in Sent'
              /\ late' \subseteq Sent'
  <1> DEFINE W  == {q \in Callers : reply[q] = Waiting
                                    /\ call[q].op \notin {"get", "exists"}}
             W1 == {q \in Callers : reply'[q] = Waiting
                                    /\ call'[q].op \notin {"get", "exists"}}
  <1>1. /\ \A m : m \in Sent <=> m \in late \/ \E q \in W : m = call[q]
        /\ \A m : m \in Sent' <=> m \in late' \/ \E q \in W1 : m = call'[q]
    BY DEF Sent
  <1>2. \A q : q \in W1 <=> q \in W /\ q # p
    OBVIOUS
  <1>3. \A q \in W1 : call'[q] = call[q]
    OBVIOUS
  <1>4. \A q \in W : call[q].by = q
    BY DEF Typed, Signed
  <1>5. \A m \in late : m.by # p
    BY CacheAssumption DEF Typed, Signed, Callers
  <1>6. call[p].op \notin {"get", "exists"} => p \in W
    OBVIOUS
  <1>7. p \in W => call[p].op \notin {"get", "exists"}
    OBVIOUS
  <1> HIDE DEF W, W1
  <1>8. ASSUME call[p].op \in {"get", "exists"} PROVE Sent' = Sent \cup late'
    <2>1. p \notin W
      BY <1>7, <1>8
    <2>2. \A m : m \in Sent' <=> m \in Sent \/ m \in late'
      BY <1>1, <1>2, <1>3, <2>1
    <2> QED
      BY <2>2
  <1>9. ASSUME call[p].op \notin {"get", "exists"}
        PROVE  /\ call[p] \in Sent /\ call[p].by = p
               /\ {m \in Sent : m.by = p} = {call[p]}
               /\ \A m \in Sent' : m \in late' \/ (m \in Sent /\ m # call[p])
               /\ \A m \in Sent : m # call[p] => m \in Sent'
               /\ late' \subseteq Sent'
    <2>1. p \in W /\ call[p] \in Sent /\ call[p].by = p
      BY <1>1, <1>4, <1>6, <1>9
    <2>2. \A m \in Sent : m.by = p => m = call[p]
      BY <1>1, <1>4, <1>5
    <2>3. {m \in Sent : m.by = p} = {call[p]}
      BY <2>1, <2>2
    <2>4. ASSUME NEW m \in Sent', m \notin late' PROVE m \in Sent /\ m # call[p]
      <3>1. PICK q \in W1 : m = call'[q]
        BY <1>1, <2>4
      <3>2. q \in W /\ q # p /\ m = call[q] /\ m.by = q
        BY <1>2, <1>3, <1>4, <3>1
      <3> QED
        BY <1>1, <2>1, <3>2
    <2>5. ASSUME NEW m \in Sent, m # call[p] PROVE m \in Sent'
      BY <1>1, <1>2, <1>3, <2>5
    <2>6. late' \subseteq Sent'
      BY <1>1
    <2> QED
      BY <2>1, <2>3, <2>4, <2>5, <2>6
  <1> QED
    BY <1>8, <1>9

\* A call, and the write it asks for.
LEMMA AbsIssue ==
  ASSUME Typed, Typed', NEW p \in Callers, NEW op \in Ops, NEW k \in Keys,
         NEW v \in Values, NEW e \in Deadlines \cup {0}, Issue(p, op, k, v, e),
         reply[p] = None
  PROVE  Abs!Call(p)
  <1>1. /\ reply' = [reply EXCEPT ![p] = Waiting]
        /\ UNCHANGED <<store, now, ttl, data, db, late>>
    BY DEF Issue, inMap, inRedis
  <1>2. reply'[p] = Waiting /\ None # Waiting
        /\ \A q \in Callers \ {p} : call'[q] = call[q] /\ reply'[q] = reply[q]
    BY IssueTyped, CacheValues
  <1>3. call'[p].by = p
    BY <1>2 DEF Typed, Signed
  <1> DEFINE W  == {q \in Callers : reply[q] = Waiting
                                    /\ call[q].op \notin {"get", "exists"}}
             W1 == {q \in Callers : reply'[q] = Waiting
                                    /\ call'[q].op \notin {"get", "exists"}}
  <1>4. /\ \A m : m \in Sent <=> m \in late \/ \E q \in W : m = call[q]
        /\ \A m : m \in Sent' <=> m \in late' \/ \E q \in W1 : m = call'[q]
    BY DEF Sent
  <1>5. /\ \A q : q # p => (q \in W1 <=> q \in W)
        /\ p \notin W
    BY <1>1, <1>2
  <1>6. /\ \A q \in W : q \in Callers \ {p} /\ call'[q] = call[q]
        /\ \A q \in W1 : q # p => call'[q] = call[q]
    BY <1>2, <1>5
  <1> HIDE DEF W, W1
  <1>7. CASE p \in W1
    <2>1. \A m : m \in Sent' <=> m \in Sent \/ m = call'[p]
      BY <1>1, <1>4, <1>5, <1>6, <1>7
    <2>2. Sent' = Sent \cup {call'[p]} /\ call'[p] \in Sent'
      BY <2>1
    <2>3. \E m \in Sent' : m.by = p /\ Sent' = Sent \cup {m}
      BY <1>3, <2>2
    <2> QED
      BY <1>1, <2>3, SameEntries DEF Abs!Call
  <1>8. CASE p \notin W1
    <2>1. \A m : m \in Sent' <=> m \in Sent
      BY <1>1, <1>4, <1>5, <1>6, <1>8
    <2>2. Sent' = Sent
      BY <2>1
    <2> QED
      BY <1>1, <2>2, SameEntries DEF Abs!Call
  <1> QED
    BY <1>7, <1>8

\* Nothing that CacheAbs sees but the answers.
LEMMA SentSame ==
  ASSUME late' = late,
         \A q \in Callers : reply'[q] = Waiting <=> reply[q] = Waiting,
         \A q \in Callers : reply[q] = Waiting => call'[q] = call[q]
  PROVE  Sent' = Sent
  <1>1. \A m : m \in Sent' <=> m \in Sent
    BY DEF Sent
  <1> QED
    BY <1>1

\* The end of a call.
LEMMA AbsReturn ==
  ASSUME Typed, NEW p \in Callers, Return(p), reply[p] \notin {None, Waiting}
  PROVE  Abs!Return(p)
  <1>1. /\ reply' = [reply EXCEPT ![p] = None] /\ call' = call
        /\ UNCHANGED <<store, now, ttl, data, db, late>>
    BY DEF Return, inMap, inRedis
  <1>2. \A q \in Callers : reply'[q] = Waiting <=> reply[q] = Waiting
    BY <1>1, CacheValues DEF Typed, Shape
  <1>3. Sent' = Sent
    BY <1>1, <1>2, SentSame
  <1> QED
    BY <1>1, <1>3, SameEntries DEF Abs!Return

\* Nothing at all.
LEMMA AbsStutter ==
  ASSUME UNCHANGED <<store, now, ttl, call, reply, data, db, late>>
  PROVE  UNCHANGED Abs!vars
  <1>1. Sent' = Sent
    BY SentSame
  <1> QED
    BY <1>1, SameEntries DEF Abs!vars

\* A write of CacheAbs has a value and a time.
LEMMA AbsWrites ==
  ASSUME NEW m, m.key \in Keys, NEW u, u \in Abs!Untils(m), m.op # "delete",
         Entry(m.key)' = [value |-> m.value, until |-> u],
         \A j \in Keys \ {m.key} : Entry(j)' = Entry(j)
  PROVE  Abs!Write(m)
  <1> DEFINE x == [value |-> m.value, until |-> u]
  <1>1. [j \in Keys |-> Entry(j)]' = [[j \in Keys |-> Entry(j)] EXCEPT ![m.key] = x]
    BY OneEntry
  <1> QED
    BY <1>1 DEF Abs!Write

\* A delete of CacheAbs.
LEMMA AbsDeletes ==
  ASSUME NEW m, m.key \in Keys, m.op = "delete", Entry(m.key)' = None,
         \A j \in Keys \ {m.key} : Entry(j)' = Entry(j)
  PROVE  Abs!Write(m)
  <1>1. [j \in Keys |-> Entry(j)]' = [[j \in Keys |-> Entry(j)] EXCEPT ![m.key] = None]
    BY OneEntry
  <1> QED
    BY <1>1 DEF Abs!Write

\* A step of the store in memory.
LEMMA AbsMap ==
  ASSUME Typed, Typed', Timely, NEW p \in Callers, MapStep(p)
  PROVE  Abs!Next
  <1>0. PICK m \in AnyCall : m = call[p] /\ m.by = p
    BY DEF MapStep, Map!Do, Typed, Signed
  <1>1. /\ store = "map" /\ store' = "map" /\ reply[p] = Waiting /\ late' = late
        /\ UNCHANGED <<store, now, ttl, db>> /\ m \in AnyCall /\ m.by = p
    BY <1>0 DEF MapStep, Map!Do, inRedis, Deleted
  <1>2. m.key \in Keys /\ m.value \in Values /\ m.exp \in Nat
    BY <1>1, CallParts
  <1>3. now \in Nat /\ ttl \in Nat /\ TicksPerSec \in Nat \ {0}
    BY CacheAssumption DEF Typed, Shape
  <1>4. ASSUME NEW a, a # Waiting, Map!Return(p, a)
        PROVE  /\ reply' = [reply EXCEPT ![p] = a]
               /\ m.op \in {"get", "exists"} => Sent' = Sent
               /\ m.op \notin {"get", "exists"} =>
                    m \in Sent /\ Sent' = Sent \ {m} /\ {n \in Sent : n.by = p} = {m}
    <2>1. /\ reply' = [reply EXCEPT ![p] = a] /\ reply'[p] # Waiting
          /\ \A q \in Callers \ {p} : call'[q] = call[q] /\ reply'[q] = reply[q]
      BY <1>4 DEF Map!Return, Typed, Shape
    <2>2. /\ m.op \in {"get", "exists"} => Sent' = Sent \cup late'
          /\ m.op \notin {"get", "exists"} =>
              /\ m \in Sent /\ m.by = p
              /\ {n \in Sent : n.by = p} = {m}
              /\ \A n \in Sent' : n \in late' \/ (n \in Sent /\ n # m)
              /\ \A n \in Sent : n # m => n \in Sent'
      BY <1>0, <1>1, <2>1, SentEnds
    <2>3. late \subseteq Sent
      BY DEF Sent
    <2>4. m \notin late
      BY <1>1, CacheAssumption DEF Typed, Signed, Callers
    <2>5. ASSUME m.op \in {"get", "exists"} PROVE Sent' = Sent
      BY <1>1, <2>2, <2>3, <2>5
    <2>6. ASSUME m.op \notin {"get", "exists"} PROVE Sent' = Sent \ {m}
      <3>1. \A n : n \in Sent' <=> n \in Sent /\ n # m
        BY <1>1, <2>2, <2>3, <2>4, <2>6
      <3> QED
        BY <3>1
    <2> QED
      BY <2>1, <2>2, <2>5, <2>6
  <1>5. ASSUME data' = data
        PROVE  [k \in Keys |-> Entry(k)]' = [k \in Keys |-> Entry(k)]
    BY <1>1, <1>5, SameEntries
  <1>6. ASSUME Map!Get(p, m.key), m.op = "get" PROVE Abs!Next
    <2>1. [k \in Keys |-> Entry(k)][m.key] = Entry(m.key)
      BY <1>2
    <2>2. CASE data[m.key] = None \/ Map!Expired(data[m.key])
      <3>1. ~Abs!Visible(m.key)
        BY <1>1, <1>2, <2>2, SeenAlike
      <3>2. Map!Return(p, Miss) /\ data' = data /\ Miss # Waiting
        BY <1>6, <2>2, CacheValues DEF Map!Get
      <3>3. Abs!Answer(p, Miss)
        BY <1>1, <1>4, <1>5, <1>6, <3>2 DEF Abs!Answer
      <3>4. Abs!Get(p, m.key)
        BY <3>1, <3>3 DEF Abs!Get
      <3> QED
        BY <1>2, <3>4 DEF Abs!Next
    <2>3. CASE ~(data[m.key] = None \/ Map!Expired(data[m.key]))
      <3>1. Abs!Visible(m.key)
        BY <1>1, <1>2, <2>3, SeenAlike
      <3>2. Map!Return(p, data[m.key].Value) /\ data' = data
        BY <1>6, <2>3 DEF Map!Get
      <3>3. data[m.key].Value \in Values /\ Entry(m.key).value = data[m.key].Value
        BY <1>1, <1>2, <2>3, EntryTyped
      <3>4. data[m.key].Value # Waiting
        BY <3>3, CacheValues
      <3>5. Abs!Answer(p, data[m.key].Value)
        BY <1>1, <1>4, <1>5, <1>6, <3>2, <3>4 DEF Abs!Answer
      <3>6. Abs!Get(p, m.key)
        BY <2>1, <3>1, <3>3, <3>5 DEF Abs!Get
      <3> QED
        BY <1>2, <3>6 DEF Abs!Next
    <2> QED
      BY <2>2, <2>3
  <1>7. ASSUME Map!Exists(p, m.key), m.op = "exists" PROVE Abs!Next
    <2>1. [k \in Keys |-> Entry(k)][m.key] = Entry(m.key)
      BY <1>2
    <2>2. (data[m.key] = None) <=> (Entry(m.key) = None)
      BY <1>1, <1>2, EntryTyped
    <2>3. data[m.key] = None => ~Abs!Visible(m.key)
      BY <1>1, <1>2, SeenAlike
    <2>4. PICK a \in {Miss, Found} :
            /\ Map!Return(p, a) /\ data' = data
            /\ a = IF data[m.key] = None THEN Miss ELSE Found
      BY <1>7 DEF Map!Exists
    <2>5. Abs!Answer(p, a)
      BY <1>1, <1>4, <1>5, <1>7, <2>4, CacheValues DEF Abs!Answer
    <2>6. Abs!Exists(p, m.key)
      BY <2>1, <2>2, <2>3, <2>4, <2>5 DEF Abs!Exists
    <2> QED
      BY <1>2, <2>6 DEF Abs!Next
  <1>8. ASSUME m.op \notin {"get", "exists"}, Map!Return(p, Done), Abs!Write(m)
        PROVE  Abs!Next
    <2>1. m \in Sent /\ Sent' = Sent \ {m} /\ reply' = [reply EXCEPT ![p] = Done]
      BY <1>4, <1>8, CacheValues
    <2>2. m.by # Nobody /\ m.by = p
      BY <1>1, CacheAssumption DEF Callers
    <2>3. Abs!Finish(m)
      BY <1>1, <1>8, <2>1, <2>2 DEF Abs!Finish
    <2> QED
      BY <2>1, <2>3 DEF Abs!Next
  <1>9. ASSUME NEW x \in Nat, Map!Store(m.key, m.value, x)
        PROVE  /\ Entry(m.key)' = [value |-> m.value,
                                   until |-> IF x = 0 THEN 0
                                             ELSE (x + 1) * TicksPerSec - 1]
               /\ \A j \in Keys \ {m.key} : Entry(j)' = Entry(j)
    <2> DEFINE y == [Value |-> m.value, ExpiresAt |-> x]
    <2>1. y \in Slots /\ y.Value = m.value /\ y.ExpiresAt = x
      BY <1>2, <1>9 DEF Slots
    <2>2. data' = [data EXCEPT ![m.key] = y]
      BY <1>9 DEF Map!Store
    <2> HIDE DEF y
    <2>3. y # None
      BY <2>1, CacheValues DEF Slots
    <2>4. data'[m.key] = y /\ \A j \in Keys \ {m.key} : data'[j] = data[j]
      BY <1>2, <2>2 DEF Typed, Shape
    <2> QED
      BY <1>1, <2>1, <2>3, <2>4 DEF Entry
  <1>10. ASSUME Map!Set(p, m.key, m.value), m.op = "set" PROVE Abs!Next
    <2>1. CASE m.value = Nil
      <3>1. Map!Return(p, Failed) /\ data' = data
        BY <1>10, <2>1 DEF Map!Set
      <3>2. /\ m \in Sent /\ Sent' = Sent \ {m} /\ {n \in Sent : n.by = p} = {m}
            /\ reply' = [reply EXCEPT ![p] = Failed]
        BY <1>4, <1>10, <3>1, CacheValues
      <3>3. Abs!Fail(p)
        BY <1>1, <1>5, <2>1, <3>1, <3>2 DEF Abs!Fail
      <3> QED
        BY <3>3 DEF Abs!Next
    <2>2. CASE m.value # Nil
      <3> DEFINE x == (now + ttl) \div TicksPerSec
                 u == (x + 1) * TicksPerSec - 1
      <3>1. Map!Return(p, Done) /\ Map!Store(m.key, m.value, x)
        BY <1>10, <2>2 DEF Map!Set, Map!Seconds
      <3>2. x \in Nat /\ x > 0
        BY <1>3, WholeSeconds DEF Timely
      <3>3. u \in (now + ttl)..(now + ttl + (TicksPerSec - 1))
        <4>1. now + ttl \in Nat
          BY <1>3
        <4> QED
          BY <3>2, <4>1, MapTimes
      <3> HIDE DEF x
      <3>4. /\ Entry(m.key)' = [value |-> m.value, until |-> u]
            /\ \A j \in Keys \ {m.key} : Entry(j)' = Entry(j)
        BY <1>9, <3>1, <3>2
      <3> HIDE DEF u
      <3>5. u \in Abs!Untils(m)
        BY <1>1, <1>10, <3>3 DEF Abs!Untils
      <3>6. Abs!Write(m)
        BY <1>2, <1>10, <3>4, <3>5, AbsWrites
      <3> QED
        BY <1>8, <1>10, <3>1, <3>6
    <2> QED
      BY <2>1, <2>2
  <1>11. ASSUME Map!SetWithExpiration(p, m.key, m.value, m.exp), m.op = "setAt"
         PROVE  Abs!Next
    <2> DEFINE u == IF m.exp = 0 THEN 0 ELSE (m.exp + 1) * TicksPerSec - 1
    <2>1. Map!Return(p, Done) /\ Map!Store(m.key, m.value, m.exp)
      BY <1>11 DEF Map!SetWithExpiration
    <2>2. /\ Entry(m.key)' = [value |-> m.value, until |-> u]
          /\ \A j \in Keys \ {m.key} : Entry(j)' = Entry(j)
      BY <1>2, <1>9, <2>1
    <2>3. m.exp # 0 =>
            u \in (m.exp * TicksPerSec)..(m.exp * TicksPerSec + (TicksPerSec - 1))
      <3>1. /\ (m.exp + 1) * TicksPerSec - 1 = m.exp * TicksPerSec + (TicksPerSec - 1)
            /\ m.exp * TicksPerSec \in Nat
        BY <1>2, MapTimes
      <3> DEFINE t  == m.exp * TicksPerSec
                 t1 == (m.exp + 1) * TicksPerSec
      <3>2. t1 - 1 = t + (TicksPerSec - 1) /\ t \in Nat
        BY <3>1
      <3>3. m.exp # 0 => u = t1 - 1
        OBVIOUS
      <3> HIDE DEF t, t1, u
      <3>4. m.exp # 0 => u \in t..(t + (TicksPerSec - 1))
        BY <1>3, <3>2, <3>3
      <3> QED
        BY <3>4 DEF t
    <2>4. m.exp = 0 => u = 0
      OBVIOUS
    <2> HIDE DEF u
    <2>5. u \in Abs!Untils(m)
      <3>1. CASE m.exp = 0
        <4>1. Abs!Untils(m) = {0}
          BY <1>11, <3>1 DEF Abs!Untils
        <4> QED
          BY <2>4, <3>1, <4>1
      <3>2. CASE m.exp # 0
        <4>1. Abs!Untils(m) =
                (m.exp * TicksPerSec)..(m.exp * TicksPerSec + (TicksPerSec - 1))
          BY <1>1, <1>11, <3>2 DEF Abs!Untils
        <4> QED
          BY <2>3, <3>2, <4>1
      <3> QED
        BY <3>1, <3>2
    <2>6. Abs!Write(m)
      BY <1>2, <1>11, <2>2, <2>5, AbsWrites
    <2> QED
      BY <1>8, <1>11, <2>1, <2>6
  <1>12. ASSUME Map!Delete(p, m.key), m.op = "delete" PROVE Abs!Next
    <2>1. Map!Return(p, Done) /\ data' = [data EXCEPT ![m.key] = None]
      BY <1>12 DEF Map!Delete
    <2>2. data'[m.key] = None /\ \A j \in Keys \ {m.key} : data'[j] = data[j]
      BY <1>2, <2>1 DEF Typed, Shape
    <2>3. Entry(m.key)' = None /\ \A j \in Keys \ {m.key} : Entry(j)' = Entry(j)
      BY <1>1, <2>2 DEF Entry
    <2>4. Abs!Write(m)
      BY <1>2, <1>12, <2>3, AbsDeletes
    <2> QED
      BY <1>8, <1>12, <2>1, <2>4
  <1> QED
    BY <1>0, <1>6, <1>7, <1>10, <1>11, <1>12 DEF MapStep, Map!Do

\* A command takes effect on the server.
LEMMA AbsApply ==
  ASSUME Typed, store = "redis", UNCHANGED <<store, now>>, NEW m \in AnyCall,
         m.op \in {"set", "setAt", "delete"}, InTime(m), ~Redis!Refused(m),
         Redis!Apply(m)
  PROVE  Abs!Write(m)
  <1>1. m.key \in Keys /\ m.px \in Nat /\ m.exp \in Nat /\ now \in Nat
    BY CallParts DEF Typed, Shape
  <1>2. \A j \in Keys : Entry(j) = db[j] /\ Entry(j)' = db'[j]
    BY DEF Entry
  <1>3. CASE m.op = "delete"
    <2>1. db' = [db EXCEPT ![m.key] = None]
      BY <1>3 DEF Redis!Apply
    <2>2. Entry(m.key)' = None /\ \A j \in Keys \ {m.key} : Entry(j)' = Entry(j)
      BY <1>1, <1>2, <2>1 DEF Typed, Shape
    <2> QED
      BY <1>1, <1>3, <2>2, AbsDeletes
  <1>4. CASE m.op \in {"set", "setAt"}
    <2>1. PICK u : u = now + m.px
      OBVIOUS
    <2>2. db' = [db EXCEPT ![m.key] = [value |-> m.value, until |-> u]]
      BY <1>4, <2>1 DEF Redis!Apply
    <2>3. /\ Entry(m.key)' = [value |-> m.value, until |-> u]
          /\ \A j \in Keys \ {m.key} : Entry(j)' = Entry(j)
      BY <1>1, <1>2, <2>2 DEF Typed, Shape
    <2>4. m.px # 0 /\ m.px > 0
      BY <1>1, <1>4 DEF Redis!Refused
    <2>5. u \in Abs!Untils(m)
      <3>1. CASE m.op = "set"
        <4>1. Abs!Untils(m) = {now + m.px}
          BY <3>1 DEF Abs!Untils
        <4> QED
          BY <2>1, <4>1
      <3>2. CASE m.op = "setAt"
        <4>1. m.exp # 0 /\ m.exp * TicksPerSec <= now + m.px
          BY <2>4, <3>2 DEF InTime
        <4>2. Abs!Untils(m) = (m.exp * TicksPerSec)..(now + m.px)
          BY <3>2, <4>1 DEF Abs!Untils
        <4>3. m.exp * TicksPerSec \in Nat
          BY <1>1, Distribute, CacheAssumption
        <4> DEFINE t == m.exp * TicksPerSec
        <4>4. t <= u /\ t \in Nat /\ u \in Nat /\ Abs!Untils(m) = t..u
          BY <1>1, <2>1, <4>1, <4>2, <4>3
        <4> HIDE DEF t
        <4>5. u \in t..u
          BY <4>4
        <4> QED
          BY <4>4, <4>5
      <3> QED
        BY <1>4, <3>1, <3>2
    <2> QED
      BY <1>1, <1>4, <2>3, <2>5, AbsWrites
  <1> QED
    BY <1>3, <1>4

\* A step of the Redis client.
LEMMA AbsRedis ==
  ASSUME Typed, Typed', Timely, NEW p \in Callers, RedisStep(p) \/ RedisGivesUp(p)
  PROVE  Abs!Next \/ UNCHANGED Abs!vars
  <1>1. /\ Redis!Serve(p) \/ Redis!Retry(p) \/ Redis!Refuse(p) \/ Redis!GiveUp(p)
        /\ store = "redis" /\ UNCHANGED <<store, data>>
    BY DEF RedisStep, RedisGivesUp, Deleted, inMap
  <1>2. reply[p] = Waiting /\ UNCHANGED <<now, ttl>>
    BY <1>1 DEF Redis!Serve, Redis!Retry, Redis!Refuse, Redis!GiveUp
  <1>3. PICK m \in AnyCall : m = call[p] /\ m.by = p /\ InTime(m)
    BY <1>1, <1>2 DEF Typed, Signed, Timely
  <1>4. m.key \in Keys /\ m.op \in Ops /\ m.by # Nobody
    BY <1>3, CallParts, CacheAssumption DEF Callers
  <1>5. \A n \in late \cup late' : n.by = Nobody
    BY DEF Typed, Signed
  <1>6. late \subseteq Sent
    BY DEF Sent
  <1>7. db' = db => [k \in Keys |-> Entry(k)]' = [k \in Keys |-> Entry(k)]
    BY <1>1, SameEntries
  <1>8. ASSUME NEW a, a # Waiting, Redis!Return(p, a), late \subseteq late'
        PROVE  /\ reply' = [reply EXCEPT ![p] = a]
               /\ m.op \in {"get", "exists"} => Sent' = Sent \cup late'
               /\ m.op \notin {"get", "exists"} =>
                    /\ m \in Sent /\ Sent' = (Sent \ {m}) \cup late'
                    /\ {n \in Sent : n.by = p} = {m}
    <2>1. /\ reply' = [reply EXCEPT ![p] = a] /\ reply'[p] # Waiting
          /\ \A q \in Callers \ {p} : call'[q] = call[q] /\ reply'[q] = reply[q]
      BY <1>8 DEF Redis!Return, Typed, Shape
    <2>2. /\ m.op \in {"get", "exists"} => Sent' = Sent \cup late'
          /\ m.op \notin {"get", "exists"} =>
              /\ m \in Sent
              /\ {n \in Sent : n.by = p} = {m}
              /\ \A n \in Sent' : n \in late' \/ (n \in Sent /\ n # m)
              /\ \A n \in Sent : n # m => n \in Sent'
              /\ late' \subseteq Sent'
      BY <1>2, <1>3, <1>8, <2>1, SentEnds
    <2>3. ASSUME m.op \notin {"get", "exists"} PROVE Sent' = (Sent \ {m}) \cup late'
      <3>1. \A n : n \in Sent' <=> n \in (Sent \ {m}) \cup late'
        BY <2>2, <2>3
      <3> QED
        BY <3>1
    <2> QED
      BY <2>1, <2>2, <2>3
  <1>9. ASSUME NEW a, Redis!Return(p, a), a # Waiting, late' = late, db' = db,
               m.op \in {"get", "exists"}
        PROVE  Abs!Answer(p, a)
    <2>1. Sent' = Sent /\ reply' = [reply EXCEPT ![p] = a]
      BY <1>6, <1>8, <1>9
    <2> QED
      BY <1>1, <1>2, <1>7, <1>9, <2>1 DEF Abs!Answer
  <1>10. ASSUME Redis!Return(p, Miss), late' = late, db' = db, m.op \in {"get", "exists"}
         PROVE  Abs!Next
    <2>1. Abs!Answer(p, Miss)
      BY <1>9, <1>10, CacheValues
    <2>2. Abs!Get(p, m.key)
      BY <1>1, <2>1 DEF Abs!Get
    <2> QED
      BY <1>4, <2>2 DEF Abs!Next
  <1>11. ASSUME Redis!Serve(p) PROVE Abs!Next
    <2>1. /\ Redis!Return(p, Redis!Answer(m)) /\ Redis!Apply(m) /\ late' = late
          /\ ~Redis!Refused(m)
      BY <1>3, <1>11 DEF Redis!Serve
    <2>2. CASE m.op \in {"get", "exists"}
      <3>1. db' = db
        BY <2>1, <2>2 DEF Redis!Apply
      <3>2. CASE Redis!Answer(m) = Miss
        BY <1>10, <2>1, <2>2, <3>1, <3>2
      <3>3. CASE Redis!Answer(m) # Miss
        <4>1. Redis!Kept(m.key) /\ Redis!Answer(m) =
                IF m.op = "get" THEN db[m.key].value ELSE Found
          BY <2>2, <3>3 DEF Redis!Answer
        <4>2. db[m.key] # None /\ Entry(m.key) = db[m.key] /\ Abs!Visible(m.key)
          BY <1>1, <1>4, <4>1, SeenAlike, EntryTyped DEF Redis!Kept
        <4>3. db[m.key].value \in Values
          BY <1>4, <4>2 DEF Typed, Shape, Kept, Values
        <4>4. Redis!Answer(m) # Waiting
          BY <4>1, <4>3, CacheValues
        <4>5. Abs!Answer(p, Redis!Answer(m))
          <5>1. PICK a : a = Redis!Answer(m)
            OBVIOUS
          <5> QED
            BY <1>9, <2>1, <2>2, <3>1, <4>4, <5>1
        <4>6. [k \in Keys |-> Entry(k)][m.key] = db[m.key]
          BY <1>4, <4>2
        <4>7. Abs!Get(p, m.key) \/ Abs!Exists(p, m.key)
          BY <2>2, <4>1, <4>2, <4>5, <4>6 DEF Abs!Get, Abs!Exists
        <4> QED
          BY <1>4, <4>7 DEF Abs!Next
      <3> QED
        BY <3>2, <3>3
    <2>3. CASE m.op \notin {"get", "exists"}
      <3>1. m.op \in {"set", "setAt", "delete"} /\ Redis!Answer(m) = Done
        BY <1>4, <2>3 DEF Ops, Redis!Answer
      <3>2. /\ m \in Sent /\ Sent' = (Sent \ {m}) \cup late
            /\ reply' = [reply EXCEPT ![p] = Done]
        BY <1>8, <2>1, <2>3, <3>1, CacheValues
      <3>3. Sent' = Sent \ {m}
        BY <1>4, <1>5, <1>6, <3>2
      <3>4. Abs!Write(m)
        BY <1>1, <1>2, <1>3, <2>1, <3>1, AbsApply
      <3>5. Abs!Finish(m)
        BY <1>1, <1>2, <1>3, <1>4, <3>2, <3>3, <3>4 DEF Abs!Finish
      <3> QED
        BY <3>2, <3>5 DEF Abs!Next
    <2> QED
      BY <2>2, <2>3
  <1>12. ASSUME Redis!Refuse(p) PROVE Abs!Next
    <2>1. /\ Redis!Return(p, Failed) /\ db' = db /\ late' = late
          /\ m.op \in {"set", "setAt"}
      BY <1>3, <1>12 DEF Redis!Refuse, Redis!Refused
    <2>2. /\ Sent' = (Sent \ {m}) \cup late /\ {n \in Sent : n.by = p} = {m}
          /\ reply' = [reply EXCEPT ![p] = Failed]
      BY <1>8, <2>1, CacheValues
    <2>3. Sent' = Sent \ {m}
      BY <1>4, <1>5, <1>6, <2>2
    <2>4. Abs!Fail(p)
      BY <1>1, <1>2, <1>7, <2>1, <2>2, <2>3 DEF Abs!Fail
    <2> QED
      BY <2>4 DEF Abs!Next
  <1>13. ASSUME Redis!GiveUp(p) PROVE Abs!Next
    <2>1. /\ Redis!Left(m) /\ db' = db
          /\ Redis!Return(p, IF m.op \in {"get", "exists"} THEN Miss ELSE Failed)
      BY <1>3, <1>13 DEF Redis!GiveUp
    <2>2. CASE m.op \in {"get", "exists"}
      BY <1>10, <2>1, <2>2 DEF Redis!Left
    <2>3. CASE m.op \notin {"get", "exists"}
      <3>1. Redis!Return(p, Failed)
        BY <2>1, <2>3
      <3>2. PICK c : c = [m EXCEPT !.by = Nobody]
        OBVIOUS
      <3>3. late' = late \/ late' = late \cup {c}
        BY <2>1, <3>2 DEF Redis!Left
      <3>4. /\ Sent' = (Sent \ {m}) \cup late' /\ {n \in Sent : n.by = p} = {m}
            /\ reply' = [reply EXCEPT ![p] = Failed]
        BY <1>8, <2>3, <3>1, <3>3, CacheValues
      <3>5. m \notin late
        BY <1>4, <1>5
      <3>6. Sent' = Sent \ {m} \/ Sent' = (Sent \ {m}) \cup {c}
        BY <1>6, <3>3, <3>4, <3>5
      <3>7. {[n EXCEPT !.by = Nobody] : n \in {n \in Sent : n.by = p}} = {c}
        BY <3>2, <3>4
      <3>8. Abs!Fail(p)
        BY <1>1, <1>2, <1>7, <2>1, <3>4, <3>6, <3>7 DEF Abs!Fail
      <3> QED
        BY <3>8 DEF Abs!Next
    <2> QED
      BY <2>2, <2>3
  <1>14. ASSUME Redis!Retry(p) PROVE Abs!Next \/ UNCHANGED Abs!vars
    <2>1. Redis!Left(m) /\ UNCHANGED <<call, reply, db>>
      BY <1>3, <1>14 DEF Redis!Retry
    <2>2. CASE late' = late
      BY <1>1, <1>2, <2>1, <2>2, AbsStutter
    <2>3. CASE late' # late
      <3>1. PICK c : c = [m EXCEPT !.by = Nobody]
        OBVIOUS
      <3>2. late' = late \cup {c} /\ m.op \in {"set", "setAt", "delete"}
        BY <2>1, <2>3, <3>1 DEF Redis!Left
      <3>3. m \in Sent
        BY <1>2, <1>3, <3>2 DEF Sent
      <3>4. \A n : n \in Sent' <=> n \in Sent \/ n = c
        BY <2>1, <3>2 DEF Sent
      <3>5. Sent' = Sent \cup {c}
        BY <3>4
      <3>6. Abs!Copy(m)
        BY <1>1, <1>2, <1>7, <2>1, <3>1, <3>5 DEF Abs!Copy
      <3> QED
        BY <3>3, <3>6 DEF Abs!Next
    <2> QED
      BY <2>2, <2>3
  <1> QED
    BY <1>1, <1>11, <1>12, <1>13, <1>14

\* What goes on by itself.
LEMMA AbsNetwork ==
  ASSUME Typed, Typed', Timely, Network
  PROVE  Abs!Next
  <1>1. store = "redis" /\ UNCHANGED <<store, now, ttl, call, reply, data>>
    BY DEF Network, Redis!ServeLate, Redis!DropLate, Redis!Lose, inMap, app
  <1>2. ASSUME NEW m \in late, late' = late \ {m}
        PROVE  m \in Sent /\ Sent' = Sent \ {m} /\ m.by = Nobody
    <2>1. m.by = Nobody
      BY DEF Typed, Signed
    <2>2. \A q \in Callers : reply[q] = Waiting => call[q] # m
      BY <2>1, CacheAssumption DEF Typed, Signed, Callers
    <2>3. \A n : n \in Sent' <=> n \in Sent /\ n # m
      BY <1>1, <1>2, <2>2 DEF Sent
    <2>4. Sent' = Sent \ {m}
      BY <2>3
    <2> QED
      BY <2>1, <2>4 DEF Sent
  <1>3. ASSUME NEW m \in late, Redis!ServeLate(m) PROVE Abs!Next
    <2>1. /\ late' = late \ {m} /\ Redis!Apply(m) /\ m \in AnyCall
          /\ InTime(m) /\ ~Redis!Refused(m) /\ m.op \in {"set", "setAt", "delete"}
      BY <1>1, <1>3 DEF Redis!ServeLate, Typed, Shape, Signed, Timely
    <2>2. m \in Sent /\ Sent' = Sent \ {m} /\ m.by = Nobody
      BY <1>2, <2>1
    <2>3. Abs!Write(m)
      BY <1>1, <2>1, AbsApply
    <2>4. Abs!Finish(m)
      BY <1>1, <2>2, <2>3 DEF Abs!Finish
    <2> QED
      BY <2>2, <2>4 DEF Abs!Next
  <1>4. ASSUME NEW m \in late, Redis!DropLate(m) PROVE Abs!Next
    <2>1. late' = late \ {m} /\ db' = db
      BY <1>4 DEF Redis!DropLate
    <2>2. m \in Sent /\ Sent' = Sent \ {m} /\ m.by = Nobody
      BY <1>2, <2>1
    <2>3. Abs!Drop(m)
      BY <1>1, <2>1, <2>2, SameEntries DEF Abs!Drop
    <2> QED
      BY <2>2, <2>3 DEF Abs!Next
  <1>5. ASSUME NEW k \in Keys, Redis!Lose(k) PROVE Abs!Next
    <2>1. db' = [db EXCEPT ![k] = None] /\ late' = late
      BY <1>5 DEF Redis!Lose
    <2>2. \A j \in Keys : Entry(j)' = IF j \in {k} THEN None ELSE Entry(j)
      BY <1>1, <2>1 DEF Entry, Typed, Shape
    <2>3. Sent' = Sent
      BY <1>1, <2>1, SentSame
    <2>4. [j \in Keys |-> Entry(j)]' =
            [j \in Keys |-> IF j \in {k} THEN None ELSE [i \in Keys |-> Entry(i)][j]]
      BY <2>2
    <2>5. Abs!Sweep({k})
      BY <1>1, <2>3, <2>4 DEF Abs!Sweep
    <2> QED
      BY <2>5 DEF Abs!Next
  <1> QED
    BY <1>3, <1>4, <1>5 DEF Network

\* The cleaner's step takes what cannot be got.
LEMMA AbsSweep ==
  ASSUME Typed, store = "map", store' = store, UNCHANGED <<db, late>>, Map!Sweep
  PROVE  Abs!Next
  <1> DEFINE T == {k \in Keys : data[k] # None /\ Map!Expired(data[k])}
  <1>1. UNCHANGED <<now, ttl, call, reply>>
    BY DEF Map!Sweep
  <1>2. \A k \in Keys : data'[k] = IF k \in T THEN None ELSE data[k]
    BY DEF Map!Sweep
  <1>3. \A k \in T : ~Abs!Visible(k)
    BY SeenAlike
  <1>4. T \in SUBSET Keys
    OBVIOUS
  <1> HIDE DEF T
  <1>5. \A k \in Keys : Entry(k)' = IF k \in T THEN None ELSE Entry(k)
    BY <1>2 DEF Entry
  <1>6. [k \in Keys |-> Entry(k)]' =
          [k \in Keys |-> IF k \in T THEN None ELSE [i \in Keys |-> Entry(i)][k]]
    BY <1>5
  <1>7. Sent' = Sent
    BY <1>1, SentSame
  <1>8. Abs!Sweep(T)
    BY <1>1, <1>3, <1>6, <1>7 DEF Abs!Sweep
  <1> QED
    BY <1>4, <1>8 DEF Abs!Next

\* The first states are first states of CacheAbs.
LEMMA AbsInit == Init => Abs!Init
  <1> SUFFICES ASSUME Init PROVE Abs!Init
    OBVIOUS
  <1>1. \A k \in Keys : Entry(k) = None
    BY DEF Init, Map!Init, Redis!Init, Entry
  <1>2. Sent = {}
    BY CacheValues DEF Init, Redis!Init, Sent
  <1>3. now \in Nat /\ ttl \in Nat /\ (store = "redis") \in BOOLEAN
    BY CacheAssumption DEF Init
  <1>4. reply = [p \in Callers |-> None]
    BY DEF Init
  <1> QED
    BY <1>1, <1>2, <1>3, <1>4 DEF Abs!Init

\* Every step is one of CacheAbs, or none.
LEMMA AbsStep ==
  Typed /\ Typed' /\ Timely /\ [Next]_vars => [Abs!Next]_(Abs!vars)
  <1> SUFFICES ASSUME Typed, Typed', Timely, [Next]_vars
               PROVE  Abs!Next \/ UNCHANGED Abs!vars
    OBVIOUS
  <1> USE DEF common, inMap, inRedis, app
  <1>Ops. {"get", "exists", "set", "setAt", "delete"} \subseteq Ops
    BY DEF Ops
  <1>Callers. \A r \in Requests \cup Writers : r \in Callers
    BY DEF Callers
  <1>Issue. ASSUME NEW p \in Callers, NEW op \in Ops, NEW k \in Keys,
                   NEW v \in Values, NEW e \in Deadlines \cup {0}, Issue(p, op, k, v, e),
                   reply[p] = None
            PROVE  Abs!Next
    BY <1>Issue, AbsIssue DEF Abs!Next
  <1>Return. ASSUME NEW p \in Callers, Return(p), reply[p] \notin {None, Waiting}
             PROVE  Abs!Next
    BY <1>Return, AbsReturn DEF Abs!Next
  <1>GetReturns. ASSUME NEW r \in Requests, GetReturns(r) PROVE Abs!Next
    BY <1>GetReturns, <1>Return, <1>Callers DEF GetReturns, Typed, Placed
  <1>Make. ASSUME NEW r \in Requests, Make(r) PROVE UNCHANGED Abs!vars
    BY <1>Make, AbsStutter DEF Make
  <1>Fill. ASSUME NEW r \in Requests, Fill(r) PROVE Abs!Next
    <2>1. key[r] \in Keys /\ body[r] \in Values /\ reply[r] = None
      BY <1>Fill DEF Fill, Typed, Placed, Values
    <2> QED
      BY <1>Fill, <1>Issue, <1>Callers, <1>Ops, <2>1 DEF Fill
  <1>NoFill. ASSUME NEW r \in Requests, NoFill(r) PROVE UNCHANGED Abs!vars
    BY <1>NoFill, AbsStutter DEF NoFill
  <1>FillReturns. ASSUME NEW r \in Requests, FillReturns(r) PROVE Abs!Next
    BY <1>FillReturns, <1>Return, <1>Callers DEF FillReturns, Typed, Placed
  <1>Begin. ASSUME NEW r \in Requests, NEW k \in Keys, Begin(r, k) PROVE Abs!Next
    <2>1. reply[r] = None
      BY <1>Begin DEF Begin, Typed, Placed
    <2> QED
      BY <1>Begin, <1>Issue, <1>Callers, <1>Ops, <2>1 DEF Begin, Values
  <1>UseReturns. ASSUME NEW w \in Writers, UseReturns(w) PROVE Abs!Next
    BY <1>UseReturns, <1>Return, <1>Callers DEF UseReturns
  <1>Use. ASSUME NEW w \in Writers, NEW k \in Keys, Use(w, k) PROVE Abs!Next
    <2>1. version[k] \in Values /\ Nil \in Values /\ Other \in Values
      BY DEF Values, Typed, Shape
    <2>2. \E op \in Ops, v \in Values, e \in Deadlines \cup {0} : Issue(w, op, k, v, e)
      BY <1>Use, <1>Ops, <2>1 DEF Use
    <2>3. reply[w] = None
      BY <1>Use DEF Use
    <2> QED
      BY <1>Issue, <1>Callers, <2>2, <2>3
  <1>Map. ASSUME NEW p \in Callers, MapStep(p) PROVE Abs!Next
    BY <1>Map, AbsMap
  <1>Redis. ASSUME NEW p \in Callers, RedisStep(p) \/ RedisGivesUp(p)
            PROVE  Abs!Next \/ UNCHANGED Abs!vars
    BY <1>Redis, AbsRedis
  <1>Change. ASSUME NEW k \in Keys, Change(k) PROVE UNCHANGED Abs!vars
    BY <1>Change, AbsStutter DEF Change
  <1>SetDefaultTTL. CASE SetDefaultTTL
    <2>1. /\ UNCHANGED <<store, now, call, reply, data, db, late>>
          /\ ttl' \in Nat
      BY <1>SetDefaultTTL, CacheAssumption DEF SetDefaultTTL
    <2>2. Sent' = Sent
      BY <2>1, SentSame
    <2>3. Abs!SetDefaultTTL
      BY <2>1, <2>2, SameEntries DEF Abs!SetDefaultTTL
    <2> QED
      BY <2>3 DEF Abs!Next
  <1>CloseStore. CASE CloseStore
    BY <1>CloseStore, AbsStutter DEF CloseStore, Map!Close, Redis!Close
  <1>Clean. CASE Clean
    <2>1. CASE Map!Sweep
      BY <1>Clean, <2>1, AbsSweep DEF Clean
    <2>2. CASE Map!StopCleaner
      BY <1>Clean, <2>2, AbsStutter DEF Clean, Map!StopCleaner
    <2> QED
      BY <1>Clean, <2>1, <2>2 DEF Clean
  <1>Network. CASE Network
    BY <1>Network, AbsNetwork
  <1>Tick. CASE Tick
    <2>1. UNCHANGED <<store, ttl, call, reply, data, db, late>> /\ now' = now + 1
      BY <1>Tick DEF Tick
    <2>2. Sent' = Sent
      BY <2>1, SentSame
    <2>3. Abs!Tick
      BY <2>1, <2>2, SameEntries DEF Abs!Tick
    <2> QED
      BY <2>3 DEF Abs!Next
  <1>Stutter. CASE UNCHANGED vars
    BY <1>Stutter, AbsStutter DEF vars
  <1> QED
    BY <1>GetReturns, <1>Make, <1>Fill, <1>NoFill, <1>FillReturns, <1>Begin,
       <1>UseReturns, <1>Use, <1>Map, <1>Redis, <1>Change, <1>SetDefaultTTL,
       <1>CloseStore, <1>Clean, <1>Network, <1>Tick, <1>Stutter
       DEF Next, Request

\* Both stores, the one in memory and the one on a Redis server, do what the
\* Cache interface promises (extensions/cache.go:9): a write takes effect between
\* its call and its return, with the time asked for, and is there to that time.
\* On Redis that is what a lossy store promises: the late commands included.
THEOREM ImplementsCacheAbs == Spec => KeepsPromise
  <1>1. Init => Timely
    BY TimelyInit
  <1>2. Spec => []Timely
    BY <1>1, TypedAlways, TimelyStep, PTL DEF Spec
  <1>3. Init => Abs!Init
    BY AbsInit
  <1> QED
    BY <1>2, <1>3, TypedAlways, AbsStep, PTL DEF Spec, KeepsPromise, Abs!Spec
===============================================================================
