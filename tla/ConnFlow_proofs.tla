---------------------------- MODULE ConnFlow_proofs ----------------------------
(***************************************************************************)
(* Theorems about the control flow of a connection of Connection, for every *)
(* set of connections, framework and chain: where the request is in the     *)
(* chain, who has handled its panic, and what the metrics count of it.      *)
(***************************************************************************)
EXTENDS Connection_proofs, FiniteSetTheorems

\* The steps of handleConnection before the deferred conn.Close.
Before == {"idle", "read", "down", "handler", "up", "panic", "flush"}

\* Where the goroutine of a connection is says how deep the request is in the
\* chain and that its exchange has not ended, and an error is returned only
\* by a handleConnection whose recover did not run.
Flow(c) ==
  /\ pc[c] = "down" => depth[c] < N
  /\ pc[c] = "handler" => depth[c] = N
  /\ pc[c] = "up" => depth[c] > 0
  /\ pc[c] \notin {"down", "handler", "up", "panic"} => depth[c] = 0
  /\ pc[c] \in Before =>
       outcome[c] = "none" /\ errs[c] = 0 /\ ret[c] = "nil" /\ ~closed[c]
  /\ pc[c] \notin Before => outcome[c] # "none"
  /\ pc[c] = "close" => ~closed[c]
  /\ pc[c] \in {"close", "report"} /\ ret[c] = "err" => errs[c] = 0
  /\ pc[c] = "report" => ret[c] = "err"
  /\ errs[c] \in {0, 1}

FlowInv == TypeOK /\ \A c \in Conns : Flow(c)

\* No connection is under way at first.
LEMMA FlowInit == Init => FlowInv
  <1> SUFFICES ASSUME Init PROVE \A c \in Conns : Flow(c)
    BY TypeInit DEF FlowInv
  <1> QED
    BY DEF Init, Flow, Before

\* Every step keeps the connections' places in the chain.
LEMMA FlowStep == FlowInv /\ [Next]_vars => FlowInv'
  <1> SUFFICES ASSUME FlowInv, [Next]_vars, NEW d \in Conns PROVE Flow(d)'
    BY TypeStep DEF FlowInv
  <1>1. /\ pc \in [Conns -> PCs] /\ depth \in [Conns -> 0..N]
        /\ outcome \in [Conns -> {"none", "unread", "returned", "panicked"}]
        /\ ret \in [Conns -> {"nil", "err"}] /\ errs \in [Conns -> Nat]
        /\ closed \in [Conns -> BOOLEAN] /\ N \in Nat
    BY ChainType DEF FlowInv, TypeOK
  <1>2. Flow(d)
    BY DEF FlowInv
  <1> USE <1>1, <1>2 DEF sys, net, mw, shr, hist, Flow, Before, PCs
  <1>Before. ASSUME NEW c \in Conns,
                    \/ Accept(c) \/ Peer(c) \/ ReadRequest(c)
             PROVE  Flow(d)'
    BY <1>Before DEF Accept, Peer, PeerStalls, PeerReads, PeerLeaves,
       ReadRequest, Inward
  <1>Down. ASSUME NEW c \in Conns,
                  PassThrough(c) \/ EnterMetrics(c) \/ CacheMiss(c)
           PROVE  Flow(d)'
    BY <1>Down DEF PassThrough, EnterMetrics, CacheMiss, Wrap, At, Inward
  <1>Turn. ASSUME NEW c \in Conns,
                  RejectCORS(c) \/ RejectRateLimit(c) \/ CacheHit(c)
           PROVE  Flow(d)'
    BY <1>Turn DEF RejectCORS, RejectRateLimit, CacheHit, At, Outward
  <1>Handler. ASSUME NEW c \in Conns,
                     \/ HandlerWriteHeader(c) \/ HandlerWrite(c)
                     \/ HandlerHijack(c) \/ HandlerRaw(c)
              PROVE  Flow(d)'
    BY <1>Handler DEF HandlerWriteHeader, HandlerWrite, HandlerHijack,
       HandlerRaw
  <1>Panic. ASSUME NEW c \in Conns,
                   RejectValidation(c) \/ HandlerPanic(c) \/ Unwind(c)
            PROVE  Flow(d)'
    BY <1>Panic DEF RejectValidation, HandlerPanic, Unwind, At
  <1>HandlerReturn. ASSUME NEW c \in Conns, HandlerReturn(c) PROVE Flow(d)'
    BY <1>HandlerReturn DEF HandlerReturn, Outward
  <1>Up. ASSUME NEW c \in Conns, ExitPlain(c) \/ ExitMetrics(c) \/ ExitCache(c)
         PROVE  Flow(d)'
    BY <1>Up DEF ExitPlain, ExitMetrics, ExitCache, Leaving, Ascend, Outward
  <1>ReadFails. ASSUME NEW c \in Conns, ReadFails(c) PROVE Flow(d)'
    BY <1>ReadFails DEF ReadFails
  <1>Recover. ASSUME NEW c \in Conns, Recover(c) PROVE Flow(d)'
    BY <1>Recover DEF Recover
  <1>Finish. ASSUME NEW c \in Conns, Flush(c) \/ StdFinish(c) PROVE Flow(d)'
    BY <1>Finish DEF Flush, StdFinish
  <1>Close. ASSUME NEW c \in Conns, Close(c) PROVE Flow(d)'
    BY <1>Close DEF Close
  <1>Report. ASSUME NEW c \in Conns, Report(c) PROVE Flow(d)'
    BY <1>Report DEF Report
  <1>Rest. CASE ListenerFails \/ CacheExpires \/ UNCHANGED vars
    BY <1>Rest DEF ListenerFails, CacheExpires, vars
  <1> QED
    BY <1>Before, <1>Down, <1>Turn, <1>Handler, <1>Panic, <1>HandlerReturn,
       <1>Up, <1>ReadFails, <1>Recover, <1>Finish, <1>Close, <1>Report, <1>Rest
    DEF Next, Serve, Middleware, Handler, Quiet

\* The connections' places hold in every state.
LEMMA FlowCorrect == Spec => []FlowInv
  BY FlowInit, FlowStep, PTL DEF Spec

\* A panic that the deferred recover has given to the ErrorHandler is never
\* given to it again as an error handleConnection returns, and a returned
\* error is reported once: with every framework, chain and ErrorHandler.
THEOREM HandledOnce == Spec => []ErrorHandledOnce
  <1>1. FlowInv => ErrorHandledOnce
    BY DEF FlowInv, Flow, ErrorHandledOnce
  <1> QED
    BY <1>1, FlowCorrect, PTL

-----------------------------------------------------------------------------
(* The metrics middleware's gauge and counters. *)

\* The gauge's meaning: every metrics middleware some request is inside of.
\* At no time are there infinitely many, however many connections there are.
Inside == {x \in Conns \X (1..N) :
             x[2] <= depth[x[1]] /\ Chain[x[2]] = "metrics"}

GaugeInv == FlowInv /\ IsFiniteSet(Inside) /\ inflight = Cardinality(Inside)

\* One middleware further in.
LEMMA InsideDeeper ==
  ASSUME FlowInv, NEW c \in Conns, depth[c] + 1 \in 1..N,
         depth' = [depth EXCEPT ![c] = depth[c] + 1]
  PROVE  LET x == <<c, depth[c] + 1>> IN
         /\ x \notin Inside
         /\ Inside' = IF Chain[depth[c] + 1] = "metrics" THEN Inside \cup {x}
                      ELSE Inside
  <1> DEFINE k == depth[c] + 1
  <1>1. depth \in [Conns -> 0..N] /\ N \in Nat
    BY ChainType DEF FlowInv, TypeOK
  <1>2. <<c, k>> \notin Inside
    BY <1>1 DEF Inside
  <1>3. ASSUME NEW e \in Conns, NEW i \in 1..N
        PROVE  i <= depth'[e] <=> i <= depth[e] \/ (e = c /\ i = k)
    BY <1>1
  <1>4. ASSUME NEW x
        PROVE  x \in Inside' <=>
                 x \in Inside \/ (x = <<c, k>> /\ Chain[k] = "metrics")
    <2>1. CASE x \in Conns \X (1..N)
      <3>1. PICK e \in Conns, i \in 1..N : x = <<e, i>>
        BY <2>1
      <3> QED
        BY <1>3, <3>1 DEF Inside
    <2>2. CASE x \notin Conns \X (1..N)
      BY <2>2 DEF Inside
    <2> QED
      BY <2>1, <2>2
  <1> QED
    BY <1>2, <1>4

\* One middleware further out, by a return or by a panic.
LEMMA InsideShallower ==
  ASSUME FlowInv, NEW c \in Conns, depth[c] \in 1..N,
         depth' = [depth EXCEPT ![c] = depth[c] - 1]
  PROVE  LET x == <<c, depth[c]>> IN
         /\ x \in Inside <=> Chain[depth[c]] = "metrics"
         /\ Inside' = Inside \ {x}
  <1> DEFINE k == depth[c]
  <1>1. depth \in [Conns -> 0..N] /\ N \in Nat
    BY ChainType DEF FlowInv, TypeOK
  <1>2. <<c, k>> \in Inside <=> Chain[k] = "metrics"
    BY <1>1 DEF Inside
  <1>3. ASSUME NEW e \in Conns, NEW i \in 1..N
        PROVE  i <= depth'[e] <=> i <= depth[e] /\ ~(e = c /\ i = k)
    BY <1>1
  <1>4. ASSUME NEW x
        PROVE  x \in Inside' <=> x \in Inside /\ x # <<c, k>>
    <2>1. CASE x \in Conns \X (1..N)
      <3>1. PICK e \in Conns, i \in 1..N : x = <<e, i>>
        BY <2>1
      <3> QED
        BY <1>3, <3>1 DEF Inside
    <2>2. CASE x \notin Conns \X (1..N)
      BY <2>2 DEF Inside
    <2> QED
      BY <2>1, <2>2
  <1> QED
    BY <1>2, <1>4

\* The gauge is 0 at first.
LEMMA GaugeInit == Init => GaugeInv
  <1> SUFFICES ASSUME Init PROVE Inside = {} /\ inflight = 0
    BY FlowInit, FS_EmptySet DEF GaugeInv
  <1>1. \A x \in Conns \X (1..N) : x[1] \in Conns /\ x[2] \in 1..N
    OBVIOUS
  <1>2. \A e \in Conns, i \in 1..N : ~(i <= depth[e])
    BY ChainType DEF Init
  <1> QED
    BY <1>1, <1>2 DEF Init, Inside

\* Every step moves the gauge with the requests.
LEMMA GaugeStep == GaugeInv /\ [Next]_vars => GaugeInv'
  <1> SUFFICES ASSUME GaugeInv, [Next]_vars
               PROVE  IsFiniteSet(Inside') /\ inflight' = Cardinality(Inside')
    BY FlowStep DEF GaugeInv
  <1>1. /\ FlowInv /\ TypeOK /\ N \in Nat /\ depth \in [Conns -> 0..N]
        /\ IsFiniteSet(Inside) /\ inflight = Cardinality(Inside)
        /\ Cardinality(Inside) \in Nat
    BY ChainType, FS_CardinalityType DEF GaugeInv, FlowInv, TypeOK
  <1> USE <1>1 DEF sys, net, mw, shr, hist
  <1>In. ASSUME NEW c \in Conns,
                PassThrough(c) \/ EnterMetrics(c) \/ CacheMiss(c)
         PROVE  IsFiniteSet(Inside') /\ inflight' = Cardinality(Inside')
    <2>1. /\ depth[c] + 1 \in 1..N
          /\ depth' = [depth EXCEPT ![c] = depth[c] + 1]
          /\ IF Chain[depth[c] + 1] = "metrics" THEN inflight' = inflight + 1
             ELSE inflight' = inflight
      BY <1>In DEF PassThrough, EnterMetrics, CacheMiss, At, Wrap
    <2> DEFINE x == <<c, depth[c] + 1>>
    <2>2. /\ x \notin Inside
          /\ Inside' = IF Chain[depth[c] + 1] = "metrics" THEN Inside \cup {x}
                       ELSE Inside
      BY <2>1, InsideDeeper
    <2> HIDE DEF x
    <2>3. /\ IsFiniteSet(Inside \cup {x})
          /\ Cardinality(Inside \cup {x}) = Cardinality(Inside) + 1
      BY <2>2, FS_AddElement
    <2> QED
      BY <2>1, <2>2, <2>3
  <1>Out. ASSUME NEW c \in Conns,
                 ExitPlain(c) \/ ExitMetrics(c) \/ ExitCache(c) \/ Unwind(c)
          PROVE  IsFiniteSet(Inside') /\ inflight' = Cardinality(Inside')
    <2>1. /\ depth[c] \in 1..N
          /\ depth' = [depth EXCEPT ![c] = depth[c] - 1]
          /\ IF Chain[depth[c]] = "metrics" THEN inflight' = inflight - 1
             ELSE inflight' = inflight
      BY <1>Out DEF ExitPlain, ExitMetrics, ExitCache, Unwind, Leaving, Ascend,
         TypeOK
    <2> DEFINE x == <<c, depth[c]>>
    <2>2. /\ x \in Inside <=> Chain[depth[c]] = "metrics"
          /\ Inside' = Inside \ {x}
      BY <2>1, InsideShallower
    <2> HIDE DEF x
    <2>3. /\ IsFiniteSet(Inside \ {x})
          /\ Cardinality(Inside \ {x}) =
               Cardinality(Inside) - (IF x \in Inside THEN 1 ELSE 0)
      BY FS_RemoveElement
    <2> QED
      BY <2>1, <2>2, <2>3
  <1>Still. CASE UNCHANGED <<depth, inflight>>
    BY <1>Still DEF Inside
  <1> QED
    BY <1>In, <1>Out, <1>Still
    DEF Next, Serve, Middleware, Handler, Quiet, vars,
        Accept, Peer, PeerStalls, PeerReads, PeerLeaves, ReadRequest,
        ReadFails, RejectCORS,
        RejectRateLimit, RejectValidation, CacheHit, HandlerWriteHeader,
        HandlerWrite, HandlerHijack, HandlerRaw, HandlerPanic, HandlerReturn,
        Recover, Flush, StdFinish, Close, Report, ListenerFails, CacheExpires

\* The http_concurrent_requests gauge is the number of requests inside the
\* metrics middleware, for any number of connections and metrics middleware:
\* a request leaves it by returning, by a rejection further in or by a panic,
\* and the gauge goes down once each time.
THEOREM GaugeCorrect == Spec => []GaugeExact
  <1>1. GaugeInv => GaugeExact
    BY DEF GaugeInv, Inside, GaugeExact
  <1> QED
    BY <1>1, GaugeInit, GaugeStep, PTL DEF Spec

\* Every metrics middleware stands outside whatever may answer for the handler
\* without calling next.
MetricsOutside ==
  \A i, j \in 1..N : /\ Chain[i] \in {"cors", "ratelimit", "cache"}
                     /\ Chain[j] = "metrics"
                     => j < i

\* The metrics middleware deeper in the chain than the first d.
Deeper(d) == {k \in 1..N : k > d /\ Chain[k] = "metrics"}

\* A request on its way out was counted by what it left.
Counted(c) ==
  /\ pc[c] \in Before \ {"up", "flush"} => counted[c] = 0
  /\ pc[c] \in {"up", "flush"} => counted[c] = Cardinality(Deeper(depth[c]))
  /\ pc[c] \notin Before =>
       counted[c] = IF outcome[c] = "returned" THEN Cardinality(Deeper(0)) ELSE 0

CountInv == FlowInv /\ \A c \in Conns : Counted(c)

\* Counting the metrics middleware from the inside out.
LEMMA DeeperCounts ==
  /\ Cardinality(Deeper(N)) = 0
  /\ \A d \in 1..N : Cardinality(Deeper(d - 1)) =
       Cardinality(Deeper(d)) + (IF Chain[d] = "metrics" THEN 1 ELSE 0)
  /\ MetricsOutside =>
       \A d \in 1..N : Chain[d] \in {"cors", "ratelimit", "cache"} =>
         Cardinality(Deeper(d - 1)) = 0
  <1>1. N \in Nat
    BY ChainType
  <1>2. \A d : IsFiniteSet(Deeper(d)) /\ Cardinality(Deeper(d)) \in Nat
    <2> SUFFICES ASSUME NEW d
                 PROVE  IsFiniteSet(Deeper(d)) /\ Cardinality(Deeper(d)) \in Nat
      OBVIOUS
    <2>1. IsFiniteSet(1..N)
      BY <1>1, FS_Interval
    <2>2. Deeper(d) \in SUBSET (1..N)
      BY DEF Deeper
    <2> QED
      BY <2>1, <2>2, FS_Subset, FS_CardinalityType
  <1>3. Deeper(N) = {}
    BY <1>1 DEF Deeper
  <1>4. ASSUME NEW d \in 1..N
        PROVE  Cardinality(Deeper(d - 1)) =
                 Cardinality(Deeper(d)) + (IF Chain[d] = "metrics" THEN 1 ELSE 0)
    <2>1. d \notin Deeper(d)
      BY <1>1 DEF Deeper
    <2>2. CASE Chain[d] = "metrics"
      <3>1. Deeper(d - 1) = Deeper(d) \cup {d}
        BY <1>1, <2>2 DEF Deeper
      <3> QED
        BY <1>2, <2>1, <2>2, <3>1, FS_AddElement
    <2>3. CASE Chain[d] # "metrics"
      <3>1. Deeper(d - 1) = Deeper(d)
        BY <1>1, <2>3 DEF Deeper
      <3> QED
        BY <1>2, <2>3, <3>1
    <2> QED
      BY <2>2, <2>3
  <1>5. ASSUME MetricsOutside, NEW d \in 1..N,
               Chain[d] \in {"cors", "ratelimit", "cache"}
        PROVE  Deeper(d - 1) = {}
    BY <1>1, <1>5 DEF MetricsOutside, Deeper
  <1> QED
    BY <1>3, <1>4, <1>5, FS_EmptySet

\* Nothing is counted at first.
LEMMA CountInit == Init => CountInv
  <1> SUFFICES ASSUME Init PROVE \A c \in Conns : Counted(c)
    BY FlowInit DEF CountInv
  <1> QED
    BY DEF Init, Counted, Before

\* Every step counts what returns.
LEMMA CountStep == MetricsOutside /\ CountInv /\ [Next]_vars => CountInv'
  <1> SUFFICES ASSUME MetricsOutside, CountInv, [Next]_vars, NEW d \in Conns
               PROVE  Counted(d)'
    BY FlowStep DEF CountInv
  <1>1. /\ pc \in [Conns -> PCs] /\ depth \in [Conns -> 0..N]
        /\ outcome \in [Conns -> {"none", "unread", "returned", "panicked"}]
        /\ counted \in [Conns -> Nat] /\ N \in Nat
    BY ChainType DEF CountInv, FlowInv, TypeOK
  <1>2. Counted(d) /\ Flow(d)
    BY DEF CountInv, FlowInv
  <1>3. \A e : Deeper(e)' = Deeper(e)
    BY DEF Deeper
  <1> USE <1>1, <1>2, <1>3 DEF sys, net, mw, shr, hist, Counted, Before, PCs
  <1>In. ASSUME NEW c \in Conns,
                \/ Accept(c) \/ Peer(c) \/ ReadRequest(c)
                \/ PassThrough(c) \/ EnterMetrics(c) \/ CacheMiss(c)
                \/ RejectValidation(c) \/ HandlerPanic(c) \/ Unwind(c)
         PROVE  Counted(d)'
    BY <1>In DEF Accept, Peer, PeerStalls, PeerReads, PeerLeaves, ReadRequest,
       PassThrough, EnterMetrics,
       CacheMiss, RejectValidation, HandlerPanic, Unwind, Wrap, At, Inward
  <1>Handler. ASSUME NEW c \in Conns,
                     \/ HandlerWriteHeader(c) \/ HandlerWrite(c)
                     \/ HandlerHijack(c) \/ HandlerRaw(c)
              PROVE  Counted(d)'
    BY <1>Handler DEF HandlerWriteHeader, HandlerWrite, HandlerHijack,
       HandlerRaw
  <1>Turn. ASSUME NEW c \in Conns,
                  RejectCORS(c) \/ RejectRateLimit(c) \/ CacheHit(c)
           PROVE  Counted(d)'
    <2>1. /\ depth[c] + 1 \in 1..N
          /\ Chain[depth[c] + 1] \in {"cors", "ratelimit", "cache"}
          /\ pc[c] = "down" /\ pc' = [pc EXCEPT ![c] = Outward(depth[c])]
          /\ UNCHANGED <<depth, counted, outcome>>
      BY <1>Turn DEF RejectCORS, RejectRateLimit, CacheHit, At
    <2>2. Cardinality(Deeper(depth[c])) = 0
      <3>1. (depth[c] + 1) - 1 = depth[c]
        OBVIOUS
      <3> QED
        BY <2>1, <3>1, DeeperCounts
    <2> QED
      BY <2>1, <2>2 DEF Outward
  <1>HandlerReturn. ASSUME NEW c \in Conns, HandlerReturn(c) PROVE Counted(d)'
    <2>1. CASE c = d
      <3>1. depth[d] = N
        BY <1>HandlerReturn, <2>1 DEF HandlerReturn, Flow
      <3> QED
        BY <1>HandlerReturn, <2>1, <3>1, DeeperCounts DEF HandlerReturn, Outward
    <2> QED
      BY <1>HandlerReturn, <2>1 DEF HandlerReturn
  <1>Up. ASSUME NEW c \in Conns, ExitPlain(c) \/ ExitMetrics(c) \/ ExitCache(c)
         PROVE  Counted(d)'
    <2>1. /\ depth[c] \in 1..N /\ pc[c] = "up"
          /\ depth' = [depth EXCEPT ![c] = depth[c] - 1]
          /\ pc' = [pc EXCEPT ![c] = Outward(depth[c] - 1)]
          /\ UNCHANGED outcome
          /\ IF Chain[depth[c]] = "metrics"
             THEN counted' = [counted EXCEPT ![c] = counted[c] + 1]
             ELSE counted' = counted
      BY <1>Up DEF ExitPlain, ExitMetrics, ExitCache, Leaving, Ascend
    <2>2. Cardinality(Deeper(depth[c] - 1)) = Cardinality(Deeper(depth[c])) +
            (IF Chain[depth[c]] = "metrics" THEN 1 ELSE 0)
      BY <2>1, DeeperCounts
    <2> QED
      BY <2>1, <2>2 DEF Outward
  <1>End. ASSUME NEW c \in Conns,
                 \/ ReadFails(c) \/ Recover(c) \/ Flush(c) \/ StdFinish(c)
                 \/ Close(c) \/ Report(c)
          PROVE  Counted(d)'
    BY <1>End DEF ReadFails, Recover, Flush, StdFinish, Close, Report, Flow
  <1>Rest. CASE ListenerFails \/ CacheExpires \/ UNCHANGED vars
    BY <1>Rest DEF ListenerFails, CacheExpires, vars
  <1> QED
    BY <1>In, <1>Handler, <1>Turn, <1>HandlerReturn, <1>Up, <1>End, <1>Rest
    DEF Next, Serve, Middleware, Handler, Quiet

\* However many metrics middleware there are, each counts a request at most
\* once, and one that returns for certain, in any chain whose metrics stand
\* outside the middleware that may answer instead of the handler. (Inside one
\* of those a rejected request is rightly not counted.)
THEOREM CountCorrect ==
  ASSUME MetricsOutside
  PROVE  Spec => []CountedOnce
  <1>1. CountInv => CountedOnce
    <2> SUFFICES ASSUME CountInv, NEW c \in Conns
                 PROVE  /\ counted[c] <= Meters
                        /\ pc[c] = "done" /\ outcome[c] = "returned"
                             => counted[c] = Meters
      BY DEF CountedOnce
    <2>0. Deeper(0) = {k \in 1..N : Chain[k] = "metrics"}
      BY ChainType DEF Deeper
    <2>1. /\ N \in Nat /\ Meters = Cardinality(Deeper(0)) /\ Counted(c)
          /\ depth[c] \in 0..N /\ pc[c] \in PCs
      BY <2>0, ChainType DEF Meters, CountInv, FlowInv, TypeOK
    <2>2. /\ IsFiniteSet(Deeper(0)) /\ Cardinality(Deeper(0)) \in Nat
          /\ Cardinality(Deeper(depth[c])) <= Cardinality(Deeper(0))
      <3>1. IsFiniteSet(1..N)
        BY <2>1, FS_Interval
      <3>2. Deeper(0) \subseteq 1..N /\ Deeper(depth[c]) \subseteq Deeper(0)
        BY <2>1 DEF Deeper
      <3> QED
        BY <3>1, <3>2, FS_Subset, FS_CardinalityType
    <2> QED
      BY <2>1, <2>2 DEF Counted, Before
  <1>2. CountInv /\ [Next]_vars => CountInv'
    BY CountStep
  <1> QED
    BY <1>1, <1>2, CountInit, PTL DEF Spec

=============================================================================
