---------------------------- MODULE ConnCache_proofs ----------------------------
(***************************************************************************)
(* Theorems about the bodies of responses in Connection, for every set of   *)
(* connections, framework and chain: what the CustomResponseWriters of the  *)
(* chain hold, what CacheMiddleware stores, what a panic does to a body,    *)
(* and that a peer gets all of one.                                         *)
(***************************************************************************)
EXTENDS ConnWire_proofs, WellFoundedInduction

\* A call on the writer of a connection is its change of rw.
USE DEF Sends

-----------------------------------------------------------------------------
(* BodyOf, the pieces of a wire put together. It is a recursive function;   *)
(* that it satisfies its recursion is shown by a least counterexample.      *)

\* Every set of naturals that is not empty has a least element.
LEMMA LeastNat ==
  ASSUME NEW T, T \subseteq Nat, T # {}
  PROVE  \E n \in T : \A m \in T : n <= m
  <1> DEFINE R == OpToRel(<, Nat)
  <1>1. IsWellFoundedOn(R, Nat)
    BY NatLessThanWellFounded
  <1>2. \A m, n \in Nat : m < n => <<m, n>> \in R
    BY DEF OpToRel
  <1> HIDE DEF R
  <1>3. PICK n \in T : \A m \in T : ~(<<m, n>> \in R)
    BY <1>1, WFMin
  <1>4. ASSUME NEW m \in T PROVE n <= m
    <2>1. m \in Nat /\ n \in Nat /\ ~(m < n)
      BY <1>2, <1>3, <1>4
    <2> QED
      BY <2>1
  <1> QED
    BY <1>4

\* Induction, as a property of sets.
LEMMA NatSet ==
  ASSUME NEW S, 0 \in S, \A n \in Nat : n \in S => n + 1 \in S
  PROVE  Nat \subseteq S
  <1> SUFFICES ASSUME NEW x \in Nat, x \notin S PROVE FALSE
    OBVIOUS
  <1> DEFINE T == {n \in Nat : n \notin S}
  <1>1. PICK n \in T : \A m \in T : n <= m
    BY LeastNat
  <1>2. n \in Nat /\ n # 0 /\ n \notin S
    BY <1>1
  <1>3. n - 1 \in Nat /\ n - 1 \notin T
    BY <1>1, <1>2
  <1>4. n - 1 \in S
    BY <1>3
  <1>5. (n - 1) + 1 \in S
    BY <1>3, <1>4
  <1> QED
    BY <1>2, <1>5

\* g collects the pieces of the first n items of w.
Collects(g, w, n) ==
  g = [i \in 0..n |-> IF i = 0 THEN <<>> ELSE g[i-1] \o w[i].data]

\* There is such a function, with sequences of chunks as its values.
LEMMA CollectsExists ==
  ASSUME NEW w \in Seq(Item)
  PROVE  \E g \in [0..Len(w) -> Seq(Chunk)] : Collects(g, w, Len(w))
  <1> DEFINE S == {n \in Nat : n <= Len(w) =>
                     \E g \in [0..n -> Seq(Chunk)] : Collects(g, w, n)}
  <1>1. 0 \in S
    <2> DEFINE g == [i \in 0..0 |-> <<>>]
    <2>1. g \in [0..0 -> Seq(Chunk)]
      OBVIOUS
    <2>2. Collects(g, w, 0)
      BY DEF Collects
    <2> QED
      BY <2>1, <2>2
  <1>2. ASSUME NEW n \in Nat, n \in S PROVE n + 1 \in S
    <2> SUFFICES ASSUME n + 1 <= Len(w)
                 PROVE  \E h \in [0..n+1 -> Seq(Chunk)] : Collects(h, w, n + 1)
      OBVIOUS
    <2>1. PICK g \in [0..n -> Seq(Chunk)] : Collects(g, w, n)
      BY <1>2
    <2>2. w[n + 1].data \in Seq(Chunk) /\ g[n] \in Seq(Chunk)
      <3>1. n + 1 \in 1..Len(w) /\ n \in 0..n
        OBVIOUS
      <3>2. w[n + 1] \in Item
        BY <3>1
      <3> QED
        BY <2>1, <3>1, <3>2 DEF Item
    <2> DEFINE h == [i \in 0..n+1 |-> IF i = n + 1 THEN g[n] \o w[n + 1].data
                                      ELSE g[i]]
    <2>3. h \in [0..n+1 -> Seq(Chunk)]
      <3>1. g[n] \o w[n + 1].data \in Seq(Chunk)
        BY <2>2
      <3>2. \A i \in 0..n+1 : i # n + 1 => i \in 0..n
        OBVIOUS
      <3> QED
        BY <2>1, <3>1, <3>2
    <2>4. \A i \in 0..n+1 :
            h[i] = IF i = 0 THEN <<>> ELSE h[i-1] \o w[i].data
      <3> SUFFICES ASSUME NEW i \in 0..n+1
                   PROVE  h[i] = IF i = 0 THEN <<>> ELSE h[i-1] \o w[i].data
        OBVIOUS
      <3>1. \A j \in 0..n : g[j] = IF j = 0 THEN <<>> ELSE g[j-1] \o w[j].data
        BY <2>1 DEF Collects
      <3>2. CASE i = n + 1
        <4>1. i # 0 /\ i - 1 = n /\ n \in 0..n+1 /\ n # n + 1
          BY <3>2
        <4>2. h[i] = g[n] \o w[n + 1].data /\ h[n] = g[n]
          BY <3>2, <4>1
        <4> HIDE DEF h
        <4> QED
          BY <3>2, <4>1, <4>2
      <3>3. CASE i # n + 1
        <4>1. i \in 0..n /\ h[i] = g[i]
          BY <3>3
        <4>2. i # 0 => i - 1 \in 0..n+1 /\ i - 1 # n + 1
          BY <3>3
        <4>3. i # 0 => h[i - 1] = g[i - 1]
          BY <4>2
        <4> HIDE DEF h
        <4> QED
          BY <3>1, <4>1, <4>3
      <3> QED
        BY <3>2, <3>3
    <2>5. Collects(h, w, n + 1)
      BY <2>3, <2>4 DEF Collects
    <2> QED
      BY <2>3, <2>5
  <1> HIDE DEF S
  <1>3. Nat \subseteq S
    BY <1>1, <1>2, NatSet
  <1> QED
    BY <1>3 DEF S

\* The first n items of two wires are the same.
Same(w, v, n) == \A i \in 1..n : w[i] = v[i]

\* And only one: a longer wire with the same beginning collects the same.
LEMMA CollectsAgree ==
  ASSUME NEW w, NEW v, NEW n \in Nat, NEW m \in Nat, n <= m,
         Same(w, v, n), NEW g, NEW h,
         Collects(g, w, n), Collects(h, v, m)
  PROVE  g[n] = h[n]
  <1> DEFINE S == {i \in Nat : i <= n => g[i] = h[i]}
  <1>1. \A i \in 0..n : g[i] = IF i = 0 THEN <<>> ELSE g[i-1] \o w[i].data
    BY DEF Collects
  <1>2. \A i \in 0..m : h[i] = IF i = 0 THEN <<>> ELSE h[i-1] \o v[i].data
    BY DEF Collects
  <1>3. 0 \in S
    BY <1>1, <1>2
  <1>4. ASSUME NEW i \in Nat, i \in S PROVE i + 1 \in S
    <2> SUFFICES ASSUME i + 1 <= n PROVE g[i + 1] = h[i + 1]
      OBVIOUS
    <2>1. g[i] = h[i] /\ w[i + 1] = v[i + 1]
      BY <1>4 DEF Same
    <2>2. /\ i + 1 \in 0..n /\ i + 1 \in 0..m /\ i + 1 # 0
          /\ (i + 1) - 1 = i
      OBVIOUS
    <2>3. /\ g[i + 1] = g[i] \o w[i + 1].data
          /\ h[i + 1] = h[i] \o v[i + 1].data
      <3> HIDE DEF S
      <3>1. g[i + 1] = g[(i + 1) - 1] \o w[i + 1].data
        BY <1>1, <2>2
      <3>2. h[i + 1] = h[(i + 1) - 1] \o v[i + 1].data
        BY <1>2, <2>2
      <3> QED
        BY <2>2, <3>1, <3>2
    <2> QED
      BY <2>1, <2>3
  <1> HIDE DEF S
  <1>5. Nat \subseteq S
    BY <1>3, <1>4, NatSet
  <1> QED
    BY <1>5 DEF S

\* BodyOf is what they collect.
LEMMA BodyOfCollects ==
  ASSUME NEW w \in Seq(Item)
  PROVE  \E g \in [0..Len(w) -> Seq(Chunk)] :
           Collects(g, w, Len(w)) /\ BodyOf(w) = g[Len(w)]
  <1> DEFINE b == CHOOSE g : Collects(g, w, Len(w))
  <1>1. PICK g \in [0..Len(w) -> Seq(Chunk)] : Collects(g, w, Len(w))
    BY CollectsExists
  <1>2. Collects(b, w, Len(w))
    BY <1>1
  <1>3. BodyOf(w) = b[Len(w)]
    BY DEF BodyOf, Collects
  <1> HIDE DEF b
  <1>4. b[Len(w)] = g[Len(w)]
    BY <1>1, <1>2, CollectsAgree DEF Same
  <1> QED
    BY <1>1, <1>3, <1>4

\* The body of nothing, and of one item more.
LEMMA BodyOfAppend ==
  /\ BodyOf(<<>>) = <<>>
  /\ \A w \in Seq(Item), x \in Item :
       BodyOf(Append(w, x)) = BodyOf(w) \o x.data
  <1>1. BodyOf(<<>>) = <<>>
    <2>1. <<>> \in Seq(Item) /\ Len(<<>>) = 0
      OBVIOUS
    <2>2. PICK g : Collects(g, <<>>, 0) /\ BodyOf(<<>>) = g[0]
      BY <2>1, BodyOfCollects
    <2> QED
      BY <2>2 DEF Collects
  <1>2. ASSUME NEW w \in Seq(Item), NEW x \in Item
        PROVE  BodyOf(Append(w, x)) = BodyOf(w) \o x.data
    <2> DEFINE v == Append(w, x)
               n == Len(w)
    <2>1. v \in Seq(Item) /\ Len(v) = n + 1 /\ n \in Nat
      OBVIOUS
    <2>2. Same(w, v, n) /\ v[n + 1] = x
      BY DEF Same
    <2>3. PICK g : Collects(g, w, n) /\ BodyOf(w) = g[n]
      BY BodyOfCollects
    <2> HIDE DEF v
    <2>4. PICK h : Collects(h, v, n + 1) /\ BodyOf(v) = h[n + 1]
      BY <2>1, BodyOfCollects
    <2> HIDE DEF n
    <2>5. g[n] = h[n]
      <3>1. n + 1 \in Nat /\ n <= n + 1
        BY <2>1
      <3> QED
        BY <2>1, <2>2, <2>3, <2>4, <3>1, CollectsAgree
    <2>6. h[n + 1] = h[n] \o v[n + 1].data
      BY <2>1, <2>4 DEF Collects
    <2> QED
      BY <2>2, <2>3, <2>4, <2>5, <2>6 DEF v
  <1> QED
    BY <1>1, <1>2

-----------------------------------------------------------------------------
(* The CustomResponseWriters of a request. *)

\* w is the writer of the last wrapping middleware among the first d, 0 when
\* there is none and the writer is the connection's own.
Innermost(w, d) ==
  /\ w \in 0..d
  /\ w # 0 => Chain[w] \in Wraps
  /\ \A k \in w+1..d : Chain[k] \notin Wraps

\* The running code holds the innermost writer, and each one the next further
\* out. (A panic does not restore the writer; nothing writes to it then.)
Nested(c) ==
  /\ pc[c] \in Before \ {"panic"} => Innermost(cur[c], depth[c])
  /\ \A k \in 1..depth[c] :
       Chain[k] \in Wraps => Innermost(frame[c][k].parent, k - 1)

NestInv == FlowInv /\ \A c \in Conns : Nested(c)

\* A CustomResponseWriter after a reply, and after a write.
Replied(f, code, data) ==
  [status |-> code, body |-> f.body \o data, parent |-> f.parent]
Wrote(f, data) ==
  [status |-> f.status, body |-> f.body \o data, parent |-> f.parent]

\* f is what becomes of the CustomResponseWriter w of connection c, and no
\* other changes; w = 0 is the connection's own writer.
Becomes(c, w, f) ==
  \A e \in Conns, k \in 1..N :
    frame'[e][k] = IF e = c /\ k = w THEN f ELSE frame[e][k]

LEMMA FrameBecomes ==
  ASSUME FlowInv, NEW c \in Conns, NEW w \in 1..N, NEW f,
         frame' = [frame EXCEPT ![c][w] = f]
  PROVE  Becomes(c, w, f)
  BY DEF FlowInv, TypeOK, Becomes

LEMMA PutFrames ==
  ASSUME FlowInv, NEW c \in Conns, NEW w \in 0..N, NEW code, NEW data
  PROVE  /\ PutReply(c, w, code, data) =>
              Becomes(c, w, Replied(frame[c][w], code, data))
         /\ PutWrite(c, w, data) => Becomes(c, w, Wrote(frame[c][w], data))
  <1>1. CASE w = 0
    BY <1>1 DEF PutReply, PutWrite, Becomes
  <1>2. CASE w # 0
    <2>1. w \in 1..N
      BY <1>2, ChainType
    <2>2. /\ PutReply(c, w, code, data) => frame' = [frame EXCEPT ![c][w] =
               Replied(frame[c][w], code, data)]
          /\ PutWrite(c, w, data) => frame' = [frame EXCEPT ![c][w] =
               Wrote(frame[c][w], data)]
      <3>1. frame \in [Conns -> [1..N -> Frame]]
        BY DEF FlowInv, TypeOK
      <3> QED
        BY <1>2, <2>1, <3>1 DEF PutReply, PutWrite, Replied, Wrote
    <2> QED
      BY <2>1, <2>2, FrameBecomes
  <1> QED
    BY <1>1, <1>2

LEMMA PutParents ==
  ASSUME FlowInv, NEW c \in Conns, NEW w \in 0..N, NEW code, NEW data,
         PutReply(c, w, code, data) \/ PutWrite(c, w, data)
  PROVE  \A e \in Conns, k \in 1..N : frame'[e][k].parent = frame[e][k].parent
  <1>1. PICK f : Becomes(c, w, f) /\ f.parent = frame[c][w].parent
    <2>1. /\ Replied(frame[c][w], code, data).parent = frame[c][w].parent
          /\ Wrote(frame[c][w], data).parent = frame[c][w].parent
      BY DEF Replied, Wrote
    <2> QED
      BY <2>1, PutFrames
  <1> QED
    BY <1>1 DEF Becomes

\* A step of one connection's goroutine leaves the others where they are.
LEMMA OthersStay ==
  ASSUME FlowInv, NEW c \in Conns, NEW d \in Conns, c # d,
         Accept(c) \/ Peer(c) \/ Serve(c)
  PROVE  /\ pc'[d] = pc[d] /\ depth'[d] = depth[d] /\ cur'[d] = cur[d]
         /\ frame'[d] = frame[d] /\ said'[d] = said[d] /\ rw'[d] = rw[d]
         /\ outcome'[d] = outcome[d] /\ peer'[d] = peer[d]
  <1> DEFINE Stay == /\ pc'[d] = pc[d] /\ depth'[d] = depth[d]
                     /\ cur'[d] = cur[d] /\ frame'[d] = frame[d]
                     /\ said'[d] = said[d] /\ rw'[d] = rw[d]
                     /\ outcome'[d] = outcome[d] /\ peer'[d] = peer[d]
  <1>1. /\ pc \in [Conns -> PCs] /\ depth \in [Conns -> 0..N]
        /\ cur \in [Conns -> 0..N] /\ frame \in [Conns -> [1..N -> Frame]]
        /\ said \in [Conns -> Seq(Chunk)] /\ rw \in [Conns -> RW]
        /\ outcome \in [Conns -> {"none", "unread", "returned", "panicked"}]
        /\ peer \in [Conns -> {"up", "stalled", "gone"}]
    BY DEF FlowInv, TypeOK
  <1>2. \A w, code, data :
          PutReply(c, w, code, data) \/ PutWrite(c, w, data)
          => frame'[d] = frame[d] /\ rw'[d] = rw[d]
    BY <1>1 DEF PutReply, PutWrite
  <1> USE <1>1 DEF sys, net, mw, shr, hist
  <1>3. CASE Accept(c) \/ Peer(c) \/ ReadRequest(c) \/ ReadFails(c)
             \/ PassThrough(c) \/ RejectValidation(c) \/ Unwind(c)
    BY <1>3 DEF Accept, Peer, PeerStalls, PeerReads, PeerLeaves, ReadRequest,
       ReadFails, PassThrough,
       RejectValidation, Unwind
  <1>4. CASE RejectCORS(c) \/ RejectRateLimit(c) \/ CacheHit(c)
    BY <1>2, <1>4 DEF RejectCORS, RejectRateLimit, CacheHit
  <1>5. CASE EnterMetrics(c) \/ CacheMiss(c)
    BY <1>5 DEF EnterMetrics, CacheMiss, Wrap
  <1>6. CASE ExitPlain(c) \/ ExitMetrics(c)
    BY <1>6 DEF ExitPlain, ExitMetrics, Ascend
  <1>7. CASE ExitCache(c)
    BY <1>2, <1>7 DEF ExitCache, Ascend
  <1>8. CASE HandlerWriteHeader(c) \/ HandlerWrite(c)
    BY <1>2, <1>8 DEF HandlerWriteHeader, HandlerWrite
  <1>9. CASE HandlerHijack(c) \/ HandlerRaw(c)
    BY <1>9 DEF HandlerHijack, HandlerRaw
  <1>10. CASE HandlerPanic(c) \/ HandlerReturn(c)
    BY <1>10 DEF HandlerPanic, HandlerReturn
  <1>11. CASE Recover(c) \/ Flush(c) \/ StdFinish(c) \/ Close(c) \/ Report(c)
    BY <1>11 DEF Recover, Flush, StdFinish, Close, Report
  <1> HIDE DEF Stay
  <1> QED
    BY <1>3, <1>4, <1>5, <1>6, <1>7, <1>8, <1>9, <1>10, <1>11
    DEF Serve, Middleware, Handler

\* One middleware further in without, or with, a writer of its own.
LEMMA InnermostIn ==
  ASSUME NEW d \in Nat, d < N, NEW w, Innermost(w, d)
  PROVE  /\ Chain[d + 1] \notin Wraps => Innermost(w, d + 1)
         /\ Chain[d + 1] \in Wraps => Innermost(d + 1, d + 1)
  BY ChainType DEF Innermost

\* One further out: a wrapping middleware's writer is the innermost one.
LEMMA InnermostOut ==
  ASSUME NEW d \in 1..N, NEW w, Innermost(w, d)
  PROVE  /\ Chain[d] \notin Wraps => Innermost(w, d - 1)
         /\ Chain[d] \in Wraps => w = d
  BY ChainType DEF Innermost

\* No request has writers at first.
LEMMA NestInit == Init => NestInv
  <1> SUFFICES ASSUME Init, NEW c \in Conns PROVE Nested(c)
    BY FlowInit DEF NestInv
  <1> QED
    BY ChainType DEF Init, Nested, Innermost

\* Every step keeps the writers of a request nested.
LEMMA NestStep == NestInv /\ [Next]_vars => NestInv'
  <1> SUFFICES ASSUME NestInv, [Next]_vars, NEW d \in Conns PROVE Nested(d)'
    BY FlowStep DEF NestInv
  <1>1. /\ FlowInv /\ Flow(d) /\ Nested(d) /\ N \in Nat
        /\ pc \in [Conns -> PCs] /\ depth \in [Conns -> 0..N]
        /\ cur \in [Conns -> 0..N] /\ frame \in [Conns -> [1..N -> Frame]]
    BY ChainType DEF NestInv, FlowInv, TypeOK
  <1> USE DEF sys, net, mw, shr, hist
  \* Steps within one middleware keep the depth, the writer and the parents.
  <1>Same. ASSUME depth'[d] = depth[d], cur'[d] = cur[d],
                  \A k \in 1..N : frame'[d][k].parent = frame[d][k].parent,
                  pc'[d] \in Before \ {"panic"} => pc[d] \in Before \ {"panic"}
           PROVE  Nested(d)'
    <2>1. pc'[d] \in Before \ {"panic"} => Innermost(cur'[d], depth'[d])
      BY <1>Same, <1>1 DEF Nested
    <2>2. ASSUME NEW k \in 1..depth'[d], Chain[k] \in Wraps
          PROVE  Innermost(frame'[d][k].parent, k - 1)
      <3>1. k \in 1..depth[d] /\ k \in 1..N
        BY <1>Same, <1>1
      <3>2. Innermost(frame[d][k].parent, k - 1)
        BY <1>1, <2>2, <3>1 DEF Nested
      <3> QED
        BY <1>Same, <3>1, <3>2
    <2> QED
      BY <2>1, <2>2 DEF Nested, Innermost
  <1>Put. ASSUME NEW code, NEW data,
                 PutReply(d, cur[d], code, data) \/ PutWrite(d, cur[d], data)
          PROVE  \A k \in 1..N : frame'[d][k].parent = frame[d][k].parent
    <2>1. cur[d] \in 0..N
      BY <1>1
    <2> QED
      BY <1>Put, <1>1, <2>1, PutParents
  <1>Quiet. CASE \/ Accept(d) \/ Peer(d) \/ ReadRequest(d) \/ ReadFails(d)
                 \/ RejectValidation(d) \/ HandlerHijack(d) \/ HandlerRaw(d)
                 \/ HandlerPanic(d) \/ HandlerReturn(d)
                 \/ Recover(d) \/ Flush(d) \/ StdFinish(d) \/ Close(d)
                 \/ Report(d)
    <2>1. /\ depth' = depth /\ cur' = cur /\ frame' = frame
          /\ pc'[d] \in Before \ {"panic"} => pc[d] \in Before \ {"panic"}
      BY <1>Quiet, <1>1 DEF Accept, Peer, PeerStalls, PeerReads, PeerLeaves,
         ReadRequest, ReadFails,
         RejectValidation, HandlerHijack, HandlerRaw, HandlerPanic,
         HandlerReturn, Recover, Flush, StdFinish, Close, Report, Runs, At,
         Before
    <2> QED
      BY <1>Same, <2>1
  <1>Turn. CASE \/ RejectCORS(d) \/ RejectRateLimit(d) \/ CacheHit(d)
                \/ HandlerWriteHeader(d) \/ HandlerWrite(d)
    <2>1. /\ depth' = depth /\ cur' = cur /\ pc[d] \in Before \ {"panic"}
          /\ \E code, data :
               PutReply(d, cur[d], code, data) \/ PutWrite(d, cur[d], data)
      BY <1>Turn DEF RejectCORS, RejectRateLimit, CacheHit, HandlerWriteHeader,
         HandlerWrite, Runs, At, Before
    <2> QED
      BY <1>Same, <1>Put, <2>1
  <1>PassThrough. CASE PassThrough(d)
    <2>1. /\ depth[d] < N /\ Chain[depth[d] + 1] \notin Wraps
          /\ pc[d] \in Before \ {"panic"}
          /\ depth'[d] = depth[d] + 1 /\ cur' = cur /\ frame' = frame
      BY <1>PassThrough, <1>1 DEF PassThrough, At, Wraps, Before
    <2>2. Innermost(cur[d], depth[d] + 1)
      BY <1>1, <2>1, InnermostIn DEF Nested
    <2>3. \A k \in 1..depth[d]+1 : Chain[k] \in Wraps => k \in 1..depth[d]
      BY <1>1, <2>1
    <2> QED
      BY <1>1, <2>1, <2>2, <2>3 DEF Nested, Innermost
  <1>Wrap. CASE EnterMetrics(d) \/ CacheMiss(d)
    <2> DEFINE k == depth[d] + 1
    <2>0. depth[d] \in 0..N /\ depth[d] < N
      BY <1>Wrap, <1>1 DEF EnterMetrics, CacheMiss, At
    <2>1. /\ depth[d] < N /\ Chain[k] \in Wraps /\ pc[d] \in Before \ {"panic"}
          /\ depth'[d] = k /\ cur'[d] = k
          /\ frame' = [frame EXCEPT ![d][k] = NewFrame(cur[d])]
      BY <1>Wrap, <1>1 DEF EnterMetrics, CacheMiss, Wrap, At, Wraps, Before
    <2>2. k \in 1..N /\ depth[d] = k - 1
      BY <1>1, <2>0
    <2>3. Innermost(k, k) /\ Innermost(cur[d], k - 1)
      BY <1>1, <2>1, <2>2, InnermostIn DEF Nested
    <2>4. /\ frame'[d][k].parent = cur[d]
          /\ \A j \in 1..N : j # k => frame'[d][j] = frame[d][j]
      BY <1>1, <2>1, <2>2 DEF NewFrame
    <2> HIDE DEF k
    <2>5. \A j \in 1..k : j # k => j \in 1..depth[d] /\ j \in 1..N
      BY <1>1, <2>2
    <2> QED
      BY <1>1, <2>1, <2>3, <2>4, <2>5 DEF Nested, Innermost
  <1>Out. CASE ExitPlain(d) \/ ExitMetrics(d) \/ ExitCache(d)
    <2> DEFINE p == frame[d][depth[d]].parent
    <2>1. /\ depth[d] \in 1..N /\ pc[d] \in Before \ {"panic"}
          /\ depth'[d] = depth[d] - 1
          /\ \/ Chain[depth[d]] \notin Wraps /\ cur' = cur
             \/ Chain[depth[d]] \in Wraps /\ cur'[d] = p
      BY <1>Out, <1>1 DEF ExitPlain, ExitMetrics, ExitCache, Leaving, Ascend,
         Before, Wraps
    <2>2. \A j \in 1..N : frame'[d][j].parent = frame[d][j].parent
      <3>1. CASE ExitCache(d)
        <4>1. p \in 0..N
          BY <1>1, <2>1 DEF Frame
        <4> QED
          BY <1>1, <3>1, <4>1, PutParents DEF ExitCache
      <3>2. CASE frame' = frame
        BY <3>2
      <3> QED
        BY <1>Out, <3>1, <3>2 DEF ExitPlain, ExitMetrics
    <2>3. Innermost(cur'[d], depth[d] - 1)
      BY <1>1, <2>1, InnermostOut DEF Nested
    <2>4. \A j \in 1..(depth[d]-1) : j \in 1..depth[d] /\ j \in 1..N
      BY <1>1, <2>1
    <2> QED
      BY <1>1, <2>1, <2>2, <2>3, <2>4 DEF Nested, Innermost
  <1>Unwind. CASE Unwind(d)
    <2>1. /\ pc' = pc /\ pc[d] = "panic" /\ frame' = frame
          /\ depth'[d] = depth[d] - 1
      BY <1>Unwind, <1>1 DEF Unwind
    <2>2. \A j \in 1..(depth[d]-1) : j \in 1..depth[d]
      BY <1>1
    <2> QED
      BY <1>1, <2>1, <2>2 DEF Nested, Innermost
  <1>Other. ASSUME NEW c \in Conns, c # d,
                   Accept(c) \/ Peer(c) \/ Serve(c)
            PROVE  Nested(d)'
    BY <1>Other, <1>1, <1>Same, OthersStay
  <1>Rest. CASE ListenerFails \/ CacheExpires \/ UNCHANGED vars
    BY <1>Rest, <1>Same DEF ListenerFails, CacheExpires, vars
  <1> QED
    BY <1>Quiet, <1>Turn, <1>PassThrough, <1>Wrap, <1>Out, <1>Unwind, <1>Other,
       <1>Rest
    DEF Next, Serve, Middleware, Handler, Quiet


-----------------------------------------------------------------------------
(* The cache holds whole bodies only. *)

\* What the writers of a request hold: nothing on the way in, what the handler
\* has said while it runs, and on the way out only the innermost one something,
\* which with status 200 is the whole body of a handler that returned.
Held(c) ==
  /\ pc[c] \in {"idle", "read", "down"} => said[c] = <<>>
  /\ \A k \in 1..depth[c] : Chain[k] \in Wraps =>
       /\ pc[c] = "down" => frame[c][k].body = <<>>
       /\ pc[c] = "handler" =>
            frame[c][k].body = IF k = cur[c] THEN said[c] ELSE <<>>
       /\ pc[c] = "up" =>
            \/ frame[c][k].body = <<>>
            \/ /\ k = cur[c]
               /\ frame[c][k].status = 200 => frame[c][k].body \in wholes

HoldInv ==
  /\ NestInv
  /\ cache = <<>> \/ cache \in wholes
  /\ \A c \in Conns : Held(c)

\* A body a handler finished stays one.
LEMMA WholesGrow == [Next]_vars => wholes \subseteq wholes'
  <1> SUFFICES ASSUME [Next]_vars PROVE wholes \subseteq wholes'
    OBVIOUS
  <1> USE DEF hist
  <1>1. ASSUME NEW c \in Conns, HandlerReturn(c) PROVE wholes \subseteq wholes'
    BY <1>1 DEF HandlerReturn
  <1>2. ASSUME NEW c \in Conns, Middleware(c) PROVE wholes' = wholes
    BY <1>2 DEF Middleware, PassThrough, RejectCORS, RejectRateLimit,
       RejectValidation, EnterMetrics, CacheMiss, CacheHit, ExitPlain,
       ExitMetrics, ExitCache
  <1> QED
    BY <1>1, <1>2 DEF Next, Serve, Handler, Quiet, vars, Accept, Peer,
       PeerStalls, PeerReads, PeerLeaves,
       ReadRequest, ReadFails, HandlerWriteHeader, HandlerWrite, HandlerHijack,
       HandlerRaw, HandlerPanic, Unwind, Recover, Flush, StdFinish, Close,
       Report, ListenerFails, CacheExpires

\* A reply of status code and body data to the writer w that nobody has written
\* to: what it then holds.
LEMMA RepliedBody ==
  ASSUME NEW f \in Frame, NEW code \in Codes, NEW data \in Seq(Chunk)
  PROVE  /\ f.body = <<>> => Replied(f, code, data).body = data
         /\ Replied(f, code, <<>>).body = f.body
         /\ Replied(f, code, data).status = code
         /\ Wrote(f, data).body = f.body \o data
  BY DEF Replied, Wrote, Frame

\* Nothing is held at first.
LEMMA HoldInit == Init => HoldInv
  <1> SUFFICES ASSUME Init, NEW c \in Conns PROVE Held(c)
    BY NestInit DEF HoldInv, Init
  <1> QED
    BY DEF Init, Held

\* Every step keeps what the writers of a request hold.
LEMMA HoldStep == HoldInv /\ [Next]_vars => \A d \in Conns : Held(d)'
  <1> SUFFICES ASSUME HoldInv, [Next]_vars, NEW d \in Conns PROVE Held(d)'
    OBVIOUS
  <1>1. /\ NestInv /\ FlowInv /\ Flow(d) /\ Nested(d) /\ Held(d) /\ N \in Nat
        /\ pc \in [Conns -> PCs] /\ depth \in [Conns -> 0..N]
        /\ cur \in [Conns -> 0..N] /\ frame \in [Conns -> [1..N -> Frame]]
        /\ said \in [Conns -> Seq(Chunk)] /\ cache \in Seq(Chunk)
        /\ cache = <<>> \/ cache \in wholes
    BY ChainType DEF HoldInv, NestInv, FlowInv, TypeOK
  <1>2. wholes \subseteq wholes'
    BY WholesGrow
  <1> USE DEF sys, net, mw, shr, hist
  <1>Same. ASSUME depth'[d] = depth[d], cur'[d] = cur[d], frame'[d] = frame[d],
                  said'[d] = said[d], pc'[d] = pc[d]
           PROVE  Held(d)'
    BY <1>Same, <1>1, <1>2 DEF Held
  \* Not on the way through the chain: nothing is held, or nobody looks.
  <1>Away. ASSUME pc'[d] \in {"idle", "read", "down"} => said'[d] = <<>>,
                  pc'[d] \notin {"down", "handler", "up"} \/ depth'[d] = 0
           PROVE  Held(d)'
    BY <1>Away DEF Held
  <1>Ends. CASE \/ Accept(d) \/ Peer(d) \/ ReadRequest(d) \/ ReadFails(d)
                \/ RejectValidation(d) \/ HandlerPanic(d) \/ Unwind(d)
                \/ Recover(d) \/ Flush(d) \/ StdFinish(d) \/ Close(d)
                \/ Report(d)
    <2>1. CASE Peer(d)
      BY <2>1, <1>Same DEF Peer, PeerStalls, PeerReads, PeerLeaves
    <2>2. CASE ReadRequest(d)
      BY <2>2, <1>1, <1>Away DEF ReadRequest, Flow, Held
    <2>3. CASE Accept(d)
      BY <2>3, <1>1, <1>Away DEF Accept, Held
    <2>4. CASE \/ ReadFails(d) \/ RejectValidation(d) \/ HandlerPanic(d)
               \/ Unwind(d) \/ Recover(d) \/ Flush(d) \/ StdFinish(d)
               \/ Close(d) \/ Report(d)
      BY <2>4, <1>1, <1>Away DEF ReadFails, RejectValidation, HandlerPanic,
         Unwind, Recover, Flush, StdFinish, Close, Report
    <2> QED
      BY <1>Ends, <2>1, <2>2, <2>3, <2>4
  <1>Hijack. CASE HandlerHijack(d) \/ HandlerRaw(d)
    BY <1>Hijack, <1>Same DEF HandlerHijack, HandlerRaw
  <1>PassThrough. CASE PassThrough(d)
    <2>1. /\ depth[d] < N /\ Chain[depth[d] + 1] \notin Wraps /\ pc[d] = "down"
          /\ depth'[d] = depth[d] + 1 /\ frame' = frame /\ said' = said
          /\ pc'[d] \in {"down", "handler"}
      BY <1>PassThrough, <1>1 DEF PassThrough, At, Wraps, Inward
    <2>2. \A k \in 1..depth[d]+1 : Chain[k] \in Wraps => k \in 1..depth[d]
      BY <1>1, <2>1
    <2> QED
      BY <1>1, <2>1, <2>2 DEF Held
  <1>Wrap. CASE EnterMetrics(d) \/ CacheMiss(d)
    <2> DEFINE k == depth[d] + 1
    <2>1. /\ depth[d] < N /\ pc[d] = "down" /\ pc'[d] \in {"down", "handler"}
          /\ depth'[d] = k /\ said' = said
          /\ frame' = [frame EXCEPT ![d][k] = NewFrame(cur[d])]
      BY <1>Wrap, <1>1 DEF EnterMetrics, CacheMiss, Wrap, At, Inward
    <2>2. k \in 1..N
      BY <1>1, <2>1
    <2>3. /\ frame'[d][k].body = <<>>
          /\ \A j \in 1..N : j # k => frame'[d][j] = frame[d][j]
      BY <1>1, <2>1, <2>2 DEF NewFrame
    <2>4. \A j \in 1..k : j # k => j \in 1..depth[d] /\ j \in 1..N
      BY <1>1, <2>2
    <2> HIDE DEF k
    <2> QED
      BY <1>1, <2>1, <2>3, <2>4 DEF Held
  \* What becomes of the one writer that is written to.
  <1>Put. ASSUME NEW w \in 1..N, NEW f, Becomes(d, w, f)
          PROVE  frame'[d][w] = f /\
                 \A k \in 1..N : k # w => frame'[d][k] = frame[d][k]
    BY <1>Put DEF Becomes
  <1>Turn. CASE RejectCORS(d) \/ RejectRateLimit(d) \/ CacheHit(d)
    <2>1. /\ pc[d] = "down" /\ pc'[d] \in {"up", "flush"} /\ depth' = depth
          /\ cur' = cur /\ said' = said
      BY <1>Turn, <1>1 DEF RejectCORS, RejectRateLimit, CacheHit, At, Outward
    <2>2. PICK code \in Codes, data \in Seq(Chunk) :
            /\ PutReply(d, cur[d], code, data)
            /\ data = <<>> \/ code # 200 \/ data \in wholes
      <3>1. /\ 429 \in Codes /\ 200 \in Codes /\ 429 # 200
            /\ {403, 204} \subseteq Codes
            /\ <<>> \in Seq(Chunk) /\ <<Refusal>> \in Seq(Chunk)
        BY ChunkType DEF Codes, HandlerCodes
      <3>2. CASE RejectCORS(d)
        <4>1. PICK code \in {403, 204} : PutReply(d, cur[d], code, <<>>)
          BY <3>2 DEF RejectCORS
        <4>2. code \in Codes /\ code # 200
          BY <3>1, <4>1
        <4> DEFINE data == <<>>
        <4>3. PutReply(d, cur[d], code, data) /\ data \in Seq(Chunk)
          BY <4>1
        <4> HIDE DEF data
        <4> QED
          BY <4>2, <4>3
      <3>3. CASE RejectRateLimit(d)
        <4>1. PutReply(d, cur[d], 429, <<Refusal>>)
          BY <3>3 DEF RejectRateLimit
        <4> DEFINE code == 429
                   data == <<Refusal>>
        <4>2. code \in Codes /\ data \in Seq(Chunk) /\ code # 200
          BY <3>1
        <4>3. PutReply(d, cur[d], code, data)
          BY <4>1
        <4> HIDE DEF code, data
        <4> QED
          BY <4>2, <4>3
      <3>4. CASE CacheHit(d)
        BY <1>1, <3>1, <3>4 DEF CacheHit
      <3> QED
        BY <1>Turn, <3>2, <3>3, <3>4
    <2>3. cur[d] \in 0..depth[d]
      BY <1>1, <2>1 DEF Nested, Before, Innermost
    <2>4. \A k \in 1..depth[d] : Chain[k] \in Wraps => frame[d][k].body = <<>>
      BY <1>1, <2>1 DEF Held
    <2>5. CASE cur[d] = 0
      <3>1. frame' = frame
        BY <2>2, <2>5 DEF PutReply
      <3> QED
        BY <2>1, <2>4, <3>1 DEF Held
    <2>6. CASE cur[d] # 0
      <3> DEFINE w == cur[d]
                 f == Replied(frame[d][w], code, data)
      <3>1. w \in 1..N /\ w \in 1..depth[d] /\ depth[d] \in 0..N /\ N \in Nat
        BY <1>1, <2>3, <2>6
      <3>2. Becomes(d, w, f)
        BY <1>1, <2>2, <3>1, PutFrames
      <3>3. Chain[w] \in Wraps
        BY <1>1, <2>1, <2>6 DEF Nested, Before, Innermost
      <3>4. f.body = data /\ f.status = code
        <4>1. frame[d][w] \in Frame /\ frame[d][w].body = <<>>
          BY <1>1, <2>4, <3>1, <3>3
        <4> HIDE DEF w
        <4> QED
          BY <4>1, RepliedBody
      <3> HIDE DEF f, w
      <3>5. /\ frame'[d][w] = f
            /\ \A k \in 1..N : k # w => frame'[d][k] = frame[d][k]
        BY <3>1, <3>2, <1>Put
      <3>6. \A k \in 1..depth[d] : k \in 1..N
        BY <3>1
      <3>7. ASSUME NEW k \in 1..depth'[d], Chain[k] \in Wraps
            PROVE  \/ frame'[d][k].body = <<>>
                   \/ /\ k = cur'[d]
                      /\ frame'[d][k].status = 200 => frame'[d][k].body \in wholes'
        <4>1. CASE k = w
          BY <1>2, <2>1, <2>2, <3>4, <3>5, <4>1 DEF w
        <4>2. CASE k # w
          BY <2>1, <2>4, <3>5, <3>6, <3>7, <4>2
        <4> QED
          BY <4>1, <4>2
      <3> QED
        BY <2>1, <3>7 DEF Held
    <2> QED
      BY <2>5, <2>6
  <1>Handler. CASE HandlerWriteHeader(d) \/ HandlerWrite(d)
    <2>1. /\ pc[d] = "handler" /\ pc' = pc /\ depth' = depth /\ cur' = cur
      BY <1>Handler DEF HandlerWriteHeader, HandlerWrite, Runs
    <2>2. cur[d] \in 0..depth[d] /\ (cur[d] # 0 => Chain[cur[d]] \in Wraps)
      BY <1>1, <2>1 DEF Nested, Before, Innermost
    <2>3. \A k \in 1..depth[d] : Chain[k] \in Wraps =>
            frame[d][k].body = IF k = cur[d] THEN said[d] ELSE <<>>
      BY <1>1, <2>1 DEF Held
    <2>4. CASE cur[d] = 0
      <3>1. frame' = frame
        BY <1>Handler, <2>4 DEF HandlerWriteHeader, HandlerWrite, PutReply,
           PutWrite
      <3> QED
        BY <2>1, <2>3, <2>4, <3>1 DEF Held
    <2>5. CASE cur[d] # 0
      <3> DEFINE w == cur[d]
      <3>1. w \in 1..N /\ w \in 1..depth[d] /\ depth[d] \in 0..N /\ N \in Nat
        BY <1>1, <2>2, <2>5
      <3>2. frame[d][w] \in Frame /\ frame[d][w].body = said[d]
            /\ said[d] \in Seq(Chunk)
        BY <1>1, <2>2, <2>3, <2>5, <3>1
      <3>3. \E f : Becomes(d, w, f) /\ f.body = said'[d]
        <4>1. CASE HandlerWriteHeader(d)
          <5>1. PICK code \in HandlerCodes : PutReply(d, w, code, <<>>)
            BY <4>1 DEF HandlerWriteHeader
          <5>2. code \in Codes /\ <<>> \in Seq(Chunk)
            BY DEF Codes
          <5>3. Becomes(d, w, Replied(frame[d][w], code, <<>>))
            BY <1>1, <3>1, <5>1, PutFrames
          <5>4. Replied(frame[d][w], code, <<>>).body = said[d]
            BY <3>2, <5>2, RepliedBody
          <5>5. said' = said
            BY <4>1 DEF HandlerWriteHeader
          <5> HIDE DEF w
          <5> QED
            BY <5>3, <5>4, <5>5
        <4>2. CASE HandlerWrite(d)
          <5> DEFINE piece == Piece(ops[d] + 1)
          <5>1. PutWrite(d, w, <<piece>>)
            BY <4>2 DEF HandlerWrite
          <5>2. <<piece>> \in Seq(Chunk) /\ piece \in Chunk
            BY <1>1, <4>2, PieceType DEF HandlerWrite, FlowInv
          <5>5. said'[d] = Append(said[d], piece)
            BY <1>1, <4>2 DEF HandlerWrite
          <5> HIDE DEF piece
          <5>3. Becomes(d, w, Wrote(frame[d][w], <<piece>>))
            BY <1>1, <3>1, <5>1, PutFrames
          <5>4. Wrote(frame[d][w], <<piece>>).body = said[d] \o <<piece>>
            BY <3>2 DEF Wrote
          <5>6. Append(said[d], piece) = said[d] \o <<piece>>
            BY <3>2, <5>2
          <5> HIDE DEF w
          <5> QED
            BY <5>3, <5>4, <5>5, <5>6
        <4> QED
          BY <1>Handler, <4>1, <4>2
      <3> HIDE DEF w
      <3>4. /\ frame'[d][w].body = said'[d]
            /\ \A k \in 1..N : k # w => frame'[d][k] = frame[d][k]
        BY <3>1, <3>3, <1>Put
      <3>5. \A k \in 1..depth[d] : k \in 1..N
        BY <3>1
      <3>6. ASSUME NEW k \in 1..depth'[d], Chain[k] \in Wraps
            PROVE  frame'[d][k].body = IF k = cur'[d] THEN said'[d] ELSE <<>>
        <4>1. CASE k = w
          BY <2>1, <3>4, <4>1 DEF w
        <4>2. CASE k # w
          BY <2>1, <2>3, <3>4, <3>5, <3>6, <4>2 DEF w
        <4> QED
          BY <4>1, <4>2
      <3> QED
        BY <2>1, <3>6 DEF Held
    <2> QED
      BY <2>4, <2>5
  <1>Return. CASE HandlerReturn(d)
    <2>1. /\ pc[d] = "handler" /\ pc'[d] \in {"up", "flush"}
          /\ UNCHANGED <<depth, cur, frame, said>> /\ said[d] \in wholes'
      BY <1>Return, <1>1 DEF HandlerReturn, Outward
    <2> QED
      BY <1>1, <2>1 DEF Held
  <1>ExitPlain. CASE ExitPlain(d)
    <2>1. /\ pc[d] = "up" /\ pc'[d] \in {"up", "flush"} /\ depth[d] \in 1..N
          /\ depth'[d] = depth[d] - 1 /\ UNCHANGED <<cur, frame, said, wholes>>
      BY <1>ExitPlain, <1>1 DEF ExitPlain, Leaving, Ascend, Outward
    <2>2. \A k \in 1..(depth[d]-1) : k \in 1..depth[d]
      BY <2>1
    <2> QED
      BY <1>1, <2>1, <2>2 DEF Held
  \* Leaving a middleware that wraps: those further out hold nothing.
  <1>Out. ASSUME ExitMetrics(d) \/ ExitCache(d)
          PROVE  /\ pc[d] = "up" /\ depth[d] \in 1..N /\ cur[d] = depth[d]
                 /\ Chain[depth[d]] \in Wraps
                 /\ pc'[d] \in {"up", "flush"} /\ depth'[d] = depth[d] - 1
                 /\ cur'[d] = frame[d][depth[d]].parent /\ said' = said
                 /\ \A k \in 1..(depth[d]-1) : Chain[k] \in Wraps =>
                      k \in 1..N /\ frame[d][k].body = <<>>
    <2>1. /\ pc[d] = "up" /\ depth[d] \in 1..N /\ Chain[depth[d]] \in Wraps
          /\ pc'[d] \in {"up", "flush"} /\ depth'[d] = depth[d] - 1
          /\ cur'[d] = frame[d][depth[d]].parent /\ said' = said
      BY <1>Out, <1>1 DEF ExitMetrics, ExitCache, Leaving, Ascend, Outward,
         Wraps
    <2>2. cur[d] = depth[d]
      BY <1>1, <2>1, InnermostOut DEF Nested, Before
    <2>3. \A k \in 1..(depth[d]-1) : k \in 1..depth[d] /\ k # cur[d] /\ k \in 1..N
      BY <1>1, <2>1, <2>2
    <2>4. \A k \in 1..(depth[d]-1) : Chain[k] \in Wraps =>
            frame[d][k].body = <<>>
      BY <1>1, <2>1, <2>3 DEF Held
    <2> QED
      BY <2>1, <2>2, <2>3, <2>4
  <1>ExitMetrics. CASE ExitMetrics(d)
    <2>1. frame' = frame
      BY <1>ExitMetrics DEF ExitMetrics
    <2> QED
      BY <1>ExitMetrics, <1>Out, <2>1 DEF Held
  <1>ExitCache. CASE ExitCache(d)
    <2> DEFINE f == frame[d][depth[d]]
               p == f.parent
    <2>1. /\ pc[d] = "up" /\ depth[d] \in 1..N /\ cur[d] = depth[d]
          /\ Chain[depth[d]] \in Wraps
          /\ pc'[d] \in {"up", "flush"} /\ depth'[d] = depth[d] - 1
          /\ cur'[d] = p /\ said' = said
      BY <1>ExitCache, <1>Out
    <2>2. \A k \in 1..(depth[d]-1) : Chain[k] \in Wraps =>
            k \in 1..N /\ frame[d][k].body = <<>>
      BY <1>ExitCache, <1>Out
    <2>3. /\ p \in 0..(depth[d]-1) /\ (p # 0 => Chain[p] \in Wraps)
          /\ f \in Frame
          /\ f.body = <<>> \/ (f.status = 200 => f.body \in wholes)
      <3>1. depth[d] \in 1..depth[d]
        BY <2>1
      <3>2. Innermost(p, depth[d] - 1)
        BY <1>1, <2>1, <3>1 DEF Nested
      <3>3. f.body = <<>> \/ (f.status = 200 => f.body \in wholes)
        BY <1>1, <2>1, <3>1 DEF Held
      <3> QED
        BY <1>1, <2>1, <3>2, <3>3 DEF Innermost
    <2>4. PutReply(d, p, f.status, f.body)
      BY <1>ExitCache DEF ExitCache
    <2>5. CASE p = 0
      <3>1. frame' = frame
        BY <2>4, <2>5 DEF PutReply
      <3> QED
        BY <2>1, <2>2, <3>1 DEF Held
    <2>6. CASE p # 0
      <3> DEFINE g == Replied(frame[d][p], f.status, f.body)
      <3>1. p \in 1..N /\ p \in 1..(depth[d]-1)
        BY <1>1, <2>1, <2>3, <2>6
      <3>2. Becomes(d, p, g)
        BY <1>1, <2>4, <3>1, PutFrames
      <3>3. g.body = f.body /\ g.status = f.status
        <4>1. /\ frame[d][p] \in Frame /\ frame[d][p].body = <<>>
              /\ f.status \in Codes /\ f.body \in Seq(Chunk)
          <5>1. frame[d][p] \in Frame
            BY <1>1, <3>1
          <5>2. frame[d][p].body = <<>>
            BY <2>2, <2>3, <2>6, <3>1
          <5> QED
            BY <2>3, <5>1, <5>2 DEF Frame
        <4> QED
          BY <4>1, RepliedBody
      <3> HIDE DEF g
      <3>4. /\ frame'[d][p] = g
            /\ \A k \in 1..N : k # p => frame'[d][k] = frame[d][k]
        BY <3>1, <3>2, <1>Put
      <3> HIDE DEF p, f
      <3>5. ASSUME NEW k \in 1..depth'[d], Chain[k] \in Wraps
            PROVE  \/ frame'[d][k].body = <<>>
                   \/ /\ k = cur'[d]
                      /\ frame'[d][k].status = 200 => frame'[d][k].body \in wholes'
        <4>1. CASE k = p
          BY <1>2, <2>1, <2>3, <3>3, <3>4, <4>1
        <4>2. CASE k # p
          BY <2>1, <2>2, <3>4, <3>5, <4>2
        <4> QED
          BY <4>1, <4>2
      <3> QED
        BY <2>1, <3>5 DEF Held
    <2> QED
      BY <2>5, <2>6
  <1>Other. ASSUME NEW c \in Conns, c # d,
                   Accept(c) \/ Peer(c) \/ Serve(c)
            PROVE  Held(d)'
    BY <1>Other, <1>1, <1>Same, OthersStay
  <1>Rest. CASE ListenerFails \/ CacheExpires \/ UNCHANGED vars
    BY <1>Rest, <1>Same DEF ListenerFails, CacheExpires, vars
  <1> QED
    BY <1>Ends, <1>Hijack, <1>PassThrough, <1>Wrap, <1>Turn, <1>Handler,
       <1>Return, <1>ExitPlain, <1>ExitMetrics, <1>ExitCache, <1>Other, <1>Rest
    DEF Next, Serve, Middleware, Handler, Quiet

\* The cache is filled by CacheMiddleware alone, with what Held says it holds.
LEMMA CacheStep ==
  HoldInv /\ [Next]_vars => (cache' = <<>> \/ cache' \in wholes')
  <1> SUFFICES ASSUME HoldInv, [Next]_vars
               PROVE  cache' = <<>> \/ cache' \in wholes'
    OBVIOUS
  <1>1. wholes \subseteq wholes' /\ (cache = <<>> \/ cache \in wholes)
    BY WholesGrow DEF HoldInv
  <1> USE DEF shr
  <1>2. ASSUME NEW c \in Conns, ExitCache(c)
        PROVE  cache' = <<>> \/ cache' \in wholes'
    <2> DEFINE f == frame[c][depth[c]]
    <2>1. /\ pc[c] = "up" /\ depth[c] \in 1..N /\ Chain[depth[c]] \in Wraps
          /\ cache' = IF f.status = 200 /\ f.body # <<>> THEN f.body ELSE cache
      BY <1>2, ChainSteps DEF ExitCache, Leaving, Wraps, HoldInv, NestInv,
         FlowInv
    <2>2. depth[c] \in 1..depth[c] /\ Held(c)
      BY <2>1 DEF HoldInv
    <2>3. f.body = <<>> \/ (f.status = 200 => f.body \in wholes)
      BY <2>1, <2>2 DEF Held
    <2> QED
      BY <1>1, <2>1, <2>3
  <1>3. CASE CacheExpires
    BY <1>3 DEF CacheExpires
  <1>4. CASE cache' = cache
    BY <1>1, <1>4
  <1>5. ASSUME NEW c \in Conns, Middleware(c) \/ Handler(c), ~ExitCache(c)
        PROVE  cache' = cache
    BY <1>5 DEF Middleware, Handler, PassThrough, RejectCORS, RejectRateLimit,
       RejectValidation, EnterMetrics, CacheMiss, CacheHit, ExitPlain,
       ExitMetrics, HandlerWriteHeader, HandlerWrite, HandlerHijack,
       HandlerRaw, HandlerPanic, HandlerReturn
  <1> QED
    BY <1>2, <1>3, <1>4, <1>5 DEF Next, Serve, Quiet, vars, Accept, Peer,
       PeerStalls, PeerReads, PeerLeaves,
       ReadRequest, ReadFails, Unwind, Recover, Flush, StdFinish, Close, Report,
       ListenerFails

\* Whatever chain CacheMiddleware is part of, and however often, the cache
\* holds the whole body of a handler that returned or nothing: not what was
\* written before a panic, not a 429's text, and not the ErrorHandler's.
THEOREM CacheWhole == Spec => []CachedWhole
  <1>1. HoldInv /\ [Next]_vars => HoldInv'
    BY NestStep, HoldStep, CacheStep DEF HoldInv, NestInv
  <1>2. HoldInv => CachedWhole
    BY DEF HoldInv, CachedWhole
  <1> QED
    BY <1>1, <1>2, HoldInit, PTL DEF Spec

-----------------------------------------------------------------------------
(* A panic drops what is held back. *)

\* What the handler and the middleware write, as opposed to the ErrorHandler.
Pieces == {chunk \in Chunk : chunk.by # "error"}

HasCache == \E i \in 1..N : Chain[i] = "cache"

\* Behind CacheMiddleware nothing reaches the peer before the way out, and then
\* either the ErrorHandler's text or what the chain wrote.
Unmixed(c) ==
  /\ pc[c] \in {"idle", "read", "down", "handler", "panic"} =>
       Marks(rw[c], "body") = {}
  /\ \A i \in Marks(rw[c], "body") :
       IF outcome[c] = "panicked" THEN rw[c].wire[i].data = <<ErrorText>>
       ELSE rw[c].wire[i].data \in Seq(Pieces)

\* No CustomResponseWriter and no cache ever holds the ErrorHandler's text.
Clean ==
  /\ cache \in Seq(Pieces)
  /\ \A c \in Conns, k \in 1..N : frame[c][k].body \in Seq(Pieces)

MixInv ==
  WireInv /\ NestInv /\ Clean /\ (HasCache => \A c \in Conns : Unmixed(c))

\* The pieces of a body in t are those of s, but for one that says data.
Adds(s, t, data) ==
  \A i \in Marks(t, "body") :
    \/ t.wire[i].data = data
    \/ i \in Marks(s, "body") /\ t.wire[i] = s.wire[i]

\* What a status line adds to the wire.
LEMMA HeaderAdds ==
  ASSUME NEW s \in RW, NEW up \in BOOLEAN, NEW code \in Codes,
         Sound(s, up), NEW data
  PROVE  Adds(s, WriteHeader(s, up, code), data)
  <1> DEFINE t == WriteHeader(s, up, code)
  <1>1. t \in RW
    BY WriteHeaderSound
  <1>2. t.wire = s.wire \/ t.wire = Append(s.wire, Status(code))
    BY DEF WriteHeader, StdWriteHeader, RWWriteHeader, RW
  <1>3. Status(code) \in Item /\ Status(code).kind = "status"
    BY ItemType DEF Status
  <1> HIDE DEF t
  <1>4. ASSUME t.wire = s.wire PROVE Adds(s, t, data)
    BY <1>4 DEF Adds, Marks
  <1>5. ASSUME t.wire = Append(s.wire, Status(code)) PROVE Adds(s, t, data)
    <2>1. \A kind : Marks(t, kind) = Marks(s, kind)
            \cup {i \in {Len(s.wire) + 1} : Status(code).kind = kind}
      BY <1>1, <1>3, <1>5, AppendMarks
    <2>2. Marks(t, "body") = Marks(s, "body")
      BY <1>3, <2>1
    <2>3. \A i \in 1..Len(s.wire) : t.wire[i] = s.wire[i]
      BY <1>3, <1>5 DEF RW
    <2> QED
      BY <2>2, <2>3 DEF Adds, Marks
  <1> QED
    BY <1>2, <1>4, <1>5 DEF t

\* What a body adds to the wire.
LEMMA WriteAdds ==
  ASSUME NEW s \in RW, NEW up \in BOOLEAN, NEW data \in Seq(Chunk), Sound(s, up)
  PROVE  Adds(s, Write(s, up, data), data)
  <1> DEFINE t == WriteHeader(s, up, s.status)
             u == Write(s, up, data)
  <1>1. CASE s.hijacked
    BY <1>1 DEF Write, Adds
  <1>2. CASE ~s.hijacked
    <2>1. s.status \in Codes
      BY DEF RW
    <2>2. t \in RW /\ Adds(s, t, data)
      BY <2>1, WriteHeaderSound, HeaderAdds
    <2>3. u \in RW /\ (u.wire = t.wire \/ u.wire = Append(t.wire, Body(data)))
      BY <1>2, WriteSound
    <2>4. Body(data) \in Item /\ Body(data).data = data
      BY ItemType DEF Body
    <2> HIDE DEF t, u
    <2>5. ASSUME u.wire = t.wire PROVE Adds(s, u, data)
      BY <2>2, <2>5 DEF Adds, Marks
    <2>6. ASSUME u.wire = Append(t.wire, Body(data)) PROVE Adds(s, u, data)
      <3>1. Len(t.wire) \in Nat /\ Len(u.wire) = Len(t.wire) + 1
        BY <2>2, <2>4, <2>6 DEF RW
      <3>2. /\ u.wire[Len(t.wire) + 1] = Body(data)
            /\ \A i \in 1..Len(t.wire) : u.wire[i] = t.wire[i]
        BY <2>2, <2>4, <2>6 DEF RW
      <3>3. \A i \in 1..Len(u.wire) : i = Len(t.wire) + 1 \/ i \in 1..Len(t.wire)
        BY <3>1
      <3> QED
        BY <2>2, <2>4, <3>2, <3>3 DEF Adds, Marks
    <2> QED
      BY <2>3, <2>5, <2>6 DEF u
  <1> QED
    BY <1>1, <1>2

\* What a reply adds to the wire: a status line and a body.
LEMMA ReplyAdds ==
  ASSUME NEW s \in RW, NEW up \in BOOLEAN, NEW code \in Codes,
         NEW data \in Seq(Chunk), Sound(s, up)
  PROVE  Adds(s, Reply(s, up, code, data), data)
  <1> DEFINE t == WriteHeader(s, up, code)
             u == Reply(s, up, code, data)
  <1>1. t \in RW /\ Sound(t, up) /\ Adds(s, t, data)
    BY WriteHeaderSound, HeaderAdds
  <1>2. u = t \/ u = Write(t, up, data)
    BY DEF Reply
  <1> HIDE DEF t, u
  <1>3. u = t \/ Adds(t, u, data)
    BY <1>1, <1>2, WriteAdds
  <1>4. Adds(s, u, data)
    BY <1>1, <1>3 DEF Adds
  <1> QED
    BY <1>4 DEF u

\* A goroutine's write, seen from the connection's own writer.
LEMMA PutAdds ==
  ASSUME WireInv, NEW c \in Conns, pc[c] \in Before, NEW w, NEW code \in Codes,
         NEW data \in Seq(Chunk),
         PutReply(c, w, code, data) \/ PutWrite(c, w, data)
  PROVE  Adds(rw[c], rw'[c], data)
  <1>1. /\ rw \in [Conns -> RW] /\ FlowInv /\ Sound(rw[c], Live(c))
        /\ Live(c) \in BOOLEAN /\ Up(c) = Live(c)
    BY OpenLive DEF WireInv, FlowInv, TypeOK
  <1>2. /\ Adds(rw[c], Reply(rw[c], Live(c), code, data), data)
        /\ Adds(rw[c], Write(rw[c], Live(c), data), data)
    BY <1>1, ReplyAdds, WriteAdds
  <1>3. Adds(rw[c], rw[c], data)
    BY DEF Adds
  <1> QED
    BY <1>1, <1>2, <1>3 DEF PutReply, PutWrite

\* It puts pieces into a CustomResponseWriter.
LEMMA PutClean ==
  ASSUME FlowInv, Clean, NEW c \in Conns, NEW w \in 0..N, NEW code,
         NEW data \in Seq(Pieces),
         PutReply(c, w, code, data) \/ PutWrite(c, w, data)
  PROVE  \A e \in Conns, k \in 1..N : frame'[e][k].body \in Seq(Pieces)
  <1>1. CASE w = 0
    BY <1>1 DEF PutReply, PutWrite, Clean
  <1>2. CASE w # 0
    <2>1. w \in 1..N
      BY <1>2, ChainType
    <2>2. PICK f : Becomes(c, w, f) /\ f.body = frame[c][w].body \o data
      <3>1. /\ Replied(frame[c][w], code, data).body = frame[c][w].body \o data
            /\ Wrote(frame[c][w], data).body = frame[c][w].body \o data
        BY DEF Replied, Wrote
      <3> QED
        BY <3>1, PutFrames
    <2>3. frame[c][w].body \in Seq(Pieces)
      BY <2>1 DEF Clean
    <2>4. f.body \in Seq(Pieces)
      BY <2>2, <2>3
    <2> QED
      BY <2>2, <2>4 DEF Becomes, Clean
  <1> QED
    BY <1>1, <1>2

\* What a handler writes are chunks.
LEMMA PiecesAreChunks == \A data \in Seq(Pieces) : data \in Seq(Chunk)
  <1>1. Pieces \subseteq Chunk
    BY DEF Pieces
  <1> QED
    BY <1>1

\* The refusal and the handler's pieces are such, the ErrorHandler's text is not.
LEMMA WhoseText ==
  /\ <<>> \in Seq(Pieces) /\ <<Refusal>> \in Seq(Pieces)
  /\ <<ErrorText>> \notin Seq(Pieces)
  /\ \A n : Piece(n) \in Chunk => <<Piece(n)>> \in Seq(Pieces)
  <1>1. Refusal \in Chunk /\ Refusal.by = "reject"
    BY ConnectionAssumption DEF Refusal, Chunk
  <1>2. ErrorText.by = "error" /\ \A n : Piece(n).by = "handler"
    BY DEF ErrorText, Piece
  <1>3. /\ Refusal \in Pieces /\ ErrorText \notin Pieces
        /\ \A n : Piece(n) \in Chunk => Piece(n) \in Pieces
    BY <1>1, <1>2 DEF Pieces
  <1>4. ASSUME NEW text PROVE <<text>> \in Seq(Pieces) <=> text \in Pieces
    <2>1. <<text>>[1] = text /\ Len(<<text>>) = 1
      OBVIOUS
    <2>2. <<text>> \in Seq(Pieces) => <<text>>[1] \in Pieces
      BY <2>1
    <2> QED
      BY <2>1, <2>2
  <1> QED
    BY <1>3, <1>4

\* Every step keeps the ErrorHandler's text out of the writers and the cache.
LEMMA CleanStep == FlowInv /\ Clean /\ [Next]_vars => Clean'
  <1> SUFFICES ASSUME FlowInv, Clean, [Next]_vars PROVE Clean'
    OBVIOUS
  <1>1. /\ N \in Nat /\ frame \in [Conns -> [1..N -> Frame]]
        /\ cur \in [Conns -> 0..N] /\ depth \in [Conns -> 0..N]
        /\ <<>> \in Seq(Pieces)
    BY ChainType DEF FlowInv, TypeOK
  <1>2. <<Refusal>> \in Seq(Pieces)
    BY WhoseText
  <1> USE DEF sys, net, mw, shr, hist
  <1>Put. ASSUME NEW c \in Conns, cache' = cache, NEW code, NEW data \in Seq(Pieces),
                 PutReply(c, cur[c], code, data) \/ PutWrite(c, cur[c], data)
          PROVE  Clean'
    <2>1. cur[c] \in 0..N
      BY <1>1
    <2>2. \A e \in Conns, k \in 1..N : frame'[e][k].body \in Seq(Pieces)
      BY <1>Put, <2>1, PutClean
    <2> QED
      BY <1>Put, <2>2 DEF Clean
  <1>CORS. ASSUME NEW c \in Conns, RejectCORS(c) PROVE Clean'
    <2>1. cache' = cache /\ \E code : PutReply(c, cur[c], code, <<>>)
      BY <1>CORS DEF RejectCORS
    <2> QED
      BY <1>1, <1>Put, <2>1
  <1>RateLimit. ASSUME NEW c \in Conns, RejectRateLimit(c) PROVE Clean'
    <2>1. cache' = cache /\ PutReply(c, cur[c], 429, <<Refusal>>)
      BY <1>RateLimit DEF RejectRateLimit
    <2> QED
      BY <1>2, <1>Put, <2>1
  <1>Hit. ASSUME NEW c \in Conns, CacheHit(c) PROVE Clean'
    <2>1. cache' = cache /\ PutReply(c, cur[c], 200, cache)
      BY <1>Hit DEF CacheHit
    <2> QED
      BY <1>Put, <2>1 DEF Clean
  <1>WriteHeader. ASSUME NEW c \in Conns, HandlerWriteHeader(c) PROVE Clean'
    <2>1. cache' = cache /\ \E code : PutReply(c, cur[c], code, <<>>)
      BY <1>WriteHeader DEF HandlerWriteHeader
    <2> QED
      BY <1>1, <1>Put, <2>1
  <1>Write. ASSUME NEW c \in Conns, HandlerWrite(c) PROVE Clean'
    <2> DEFINE data == <<Piece(ops[c] + 1)>>
    <2>1. cache' = cache /\ PutWrite(c, cur[c], data)
      BY <1>Write DEF HandlerWrite
    <2>2. data \in Seq(Pieces)
      BY <1>Write, PieceType, WhoseText DEF HandlerWrite, FlowInv
    <2> HIDE DEF data
    <2> QED
      BY <1>Put, <2>1, <2>2
  <1>Wrap. ASSUME NEW c \in Conns, EnterMetrics(c) \/ CacheMiss(c) PROVE Clean'
    <2> DEFINE k == depth[c] + 1
    <2>1. /\ cache' = cache
          /\ frame' = [frame EXCEPT ![c][k] = NewFrame(cur[c])]
      BY <1>Wrap DEF EnterMetrics, CacheMiss, Wrap
    <2>2. k \in 1..N
      BY <1>Wrap, <1>1 DEF EnterMetrics, CacheMiss, At
    <2>3. Becomes(c, k, NewFrame(cur[c]))
      BY <2>1, <2>2, FrameBecomes
    <2>4. NewFrame(cur[c]).body = <<>>
      BY DEF NewFrame
    <2>5. ASSUME NEW e \in Conns, NEW j \in 1..N
          PROVE  frame'[e][j].body \in Seq(Pieces)
      <3>1. frame'[e][j] = NewFrame(cur[c]) \/ frame'[e][j] = frame[e][j]
        BY <2>3 DEF Becomes
      <3> QED
        BY <1>1, <2>4, <3>1 DEF Clean
    <2> QED
      BY <2>1, <2>5 DEF Clean
  <1>Exit. ASSUME NEW c \in Conns, ExitCache(c) PROVE Clean'
    <2> DEFINE f == frame[c][depth[c]]
    <2>1. depth[c] \in 1..N
      BY <1>Exit, ChainSteps DEF ExitCache, FlowInv
    <2>2. f.body \in Seq(Pieces) /\ f.parent \in 0..N
      BY <1>1, <2>1 DEF Clean, Frame
    <2>3. /\ cache' = f.body \/ cache' = cache
          /\ PutReply(c, f.parent, f.status, f.body)
      BY <1>Exit DEF ExitCache
    <2> HIDE DEF f
    <2>4. \A e \in Conns, k \in 1..N : frame'[e][k].body \in Seq(Pieces)
      BY <2>2, <2>3, PutClean
    <2> QED
      BY <2>2, <2>3, <2>4 DEF Clean
  <1>Rest. CASE frame' = frame /\ (cache' = cache \/ cache' = <<>>)
    BY <1>1, <1>Rest DEF Clean
  <1> QED
    BY <1>CORS, <1>RateLimit, <1>Hit, <1>WriteHeader, <1>Write, <1>Wrap, <1>Exit,
       <1>Rest
    DEF Next, Serve, Middleware, Handler, Quiet, vars,
        Accept, Peer, PeerStalls, PeerReads, PeerLeaves, ReadRequest,
        ReadFails, PassThrough,
        RejectValidation, HandlerHijack, HandlerRaw, HandlerPanic,
        HandlerReturn, ExitPlain, ExitMetrics, Unwind, Recover, Flush,
        StdFinish, Close, Report, ListenerFails, CacheExpires

\* What the new owner of a connection does adds no piece of a body.
LEMMA RawAddsNone ==
  ASSUME NEW s \in RW, NEW t,
         \/ t = [s EXCEPT !.hijacked = TRUE]
         \/ t = [s EXCEPT !.wire = Append(@, Raw)]
  PROVE  \A i \in Marks(t, "body") :
           i \in Marks(s, "body") /\ t.wire[i] = s.wire[i]
  <1>1. CASE t = [s EXCEPT !.hijacked = TRUE]
    <2>1. t.wire = s.wire
      BY <1>1 DEF RW
    <2> QED
      BY <2>1 DEF Marks
  <1>2. CASE t = [s EXCEPT !.wire = Append(@, Raw)]
    <2>1. t \in RW /\ t.wire = Append(s.wire, Raw)
      BY <1>2, FieldType DEF RW
    <2>2. Raw \in Item /\ Raw.kind = "raw"
      BY ItemType DEF Raw
    <2>3. \A kind : Marks(t, kind) = Marks(s, kind)
            \cup {i \in {Len(s.wire) + 1} : Raw.kind = kind}
      BY <2>1, <2>2, AppendMarks
    <2>4. Marks(t, "body") = Marks(s, "body")
      BY <2>2, <2>3
    <2>5. \A i \in 1..Len(s.wire) : t.wire[i] = s.wire[i]
      BY <2>1, <2>2 DEF RW
    <2> QED
      BY <2>4, <2>5 DEF Marks
  <1> QED
    BY <1>1, <1>2

\* Every step keeps errors apart from bodies.
LEMMA UnmixedStep ==
  HasCache /\ MixInv /\ [Next]_vars => \A d \in Conns : Unmixed(d)'
  <1> SUFFICES ASSUME HasCache, MixInv, [Next]_vars, NEW d \in Conns
               PROVE  Unmixed(d)'
    OBVIOUS
  <1> DEFINE Early == {"idle", "read", "down", "handler", "panic"}
  <1>1. /\ WireInv /\ FlowInv /\ Flow(d) /\ Nested(d) /\ Unmixed(d) /\ Clean
        /\ pc \in [Conns -> PCs] /\ rw \in [Conns -> RW]
        /\ Sound(rw[d], Live(d)) /\ Live(d) \in BOOLEAN
        /\ outcome \in [Conns -> {"none", "unread", "returned", "panicked"}]
    BY DEF MixInv, NestInv, WireInv, FlowInv, TypeOK, Live
  <1>2. <<>> \in Seq(Pieces) /\ <<Refusal>> \in Seq(Pieces)
    BY WhoseText
  <1> USE DEF sys, net, mw, shr, hist
  <1>Kept. ASSUME \A i \in Marks(rw'[d], "body") :
                    i \in Marks(rw[d], "body") /\ rw'[d].wire[i] = rw[d].wire[i],
                  outcome'[d] = "panicked" <=> outcome[d] = "panicked",
                  pc'[d] \in Early => pc[d] \in Early
           PROVE  Unmixed(d)'
    BY <1>Kept, <1>1 DEF Unmixed, Marks
  <1>Same. ASSUME rw'[d] = rw[d],
                  outcome'[d] = "panicked" <=> outcome[d] = "panicked",
                  pc'[d] \in Early => pc[d] \in Early
           PROVE  Unmixed(d)'
    BY <1>Same, <1>1 DEF Unmixed, Marks
  <1>Adds. ASSUME NEW data \in Seq(Pieces), Adds(rw[d], rw'[d], data),
                  outcome[d] # "panicked", outcome'[d] # "panicked",
                  pc'[d] \notin Early
           PROVE  Unmixed(d)'
    BY <1>Adds, <1>1 DEF Unmixed, Adds, Marks
  <1>Plain. CASE \/ Accept(d) \/ Peer(d) \/ ReadRequest(d)
                 \/ PassThrough(d) \/ RejectValidation(d) \/ EnterMetrics(d)
                 \/ CacheMiss(d) \/ HandlerPanic(d) \/ HandlerReturn(d)
                 \/ ExitPlain(d) \/ ExitMetrics(d) \/ Unwind(d) \/ Close(d)
                 \/ Report(d)
    <2>1. rw'[d] = rw[d] /\ outcome' = outcome
      BY <1>Plain DEF Accept, Peer, PeerStalls, PeerReads, PeerLeaves,
         ReadRequest, PassThrough,
         RejectValidation, EnterMetrics, CacheMiss, HandlerPanic,
         HandlerReturn, ExitPlain, ExitMetrics, Unwind, Close, Report
    <2>2. pc'[d] \in Early => pc[d] \in Early
      BY <1>Plain, <1>1 DEF Accept, Peer, PeerStalls, PeerReads, PeerLeaves,
         ReadRequest, PassThrough,
         RejectValidation, EnterMetrics, CacheMiss, HandlerPanic,
         HandlerReturn, ExitPlain, ExitMetrics, Unwind, Close, Report, At,
         Wrap, Ascend, Outward
    <2> QED
      BY <1>Same, <2>1, <2>2
  <1>Ends. CASE ReadFails(d) \/ Flush(d)
    <2>1. rw'[d] = rw[d] /\ pc'[d] \notin Early /\ pc[d] \in Before
      BY <1>Ends, <1>1 DEF ReadFails, Flush, Before
    <2>2. outcome[d] # "panicked" /\ outcome'[d] # "panicked"
      BY <1>Ends, <1>1, <2>1 DEF ReadFails, Flush, Flow
    <2> QED
      BY <1>Same, <2>1, <2>2
  <1>Put. ASSUME NEW w, NEW code \in Codes, NEW data \in Seq(Pieces),
                 PutReply(d, w, code, data), pc[d] \in Before,
                 pc'[d] \notin Early, outcome' = outcome
          PROVE  Unmixed(d)'
    <2>1. Adds(rw[d], rw'[d], data)
      BY <1>Put, <1>1, PiecesAreChunks, PutAdds
    <2>2. outcome[d] # "panicked"
      BY <1>Put, <1>1 DEF Flow
    <2> QED
      BY <1>Put, <1>Adds, <2>1, <2>2
  <1>Turn. CASE RejectCORS(d) \/ RejectRateLimit(d) \/ CacheHit(d)
    <2>1. /\ pc[d] \in Before /\ pc'[d] \notin Early /\ outcome' = outcome
      BY <1>Turn, <1>1 DEF RejectCORS, RejectRateLimit, CacheHit, At, Outward,
         Before
    <2>2. \E code \in Codes, data \in Seq(Pieces) :
            PutReply(d, cur[d], code, data)
      <3>1. 429 \in Codes /\ 200 \in Codes /\ {403, 204} \subseteq Codes
        BY DEF Codes, HandlerCodes
      <3> QED
        BY <1>Turn, <1>1, <1>2, <3>1 DEF RejectCORS, RejectRateLimit, CacheHit,
           Clean
    <2> QED
      BY <1>Put, <2>1, <2>2
  <1>Exit. CASE ExitCache(d)
    <2> DEFINE f == frame[d][depth[d]]
    <2>1. depth[d] \in 1..N
      BY <1>Exit, <1>1, ChainSteps DEF ExitCache, FlowInv
    <2>2. f.body \in Seq(Pieces) /\ f.status \in Codes
      BY <1>1, <2>1 DEF Clean, FlowInv, TypeOK, Frame
    <2>3. /\ PutReply(d, f.parent, f.status, f.body) /\ pc[d] \in Before
          /\ pc'[d] \notin Early /\ outcome' = outcome
      BY <1>Exit, <1>1 DEF ExitCache, Leaving, Ascend, Outward, Before
    <2> HIDE DEF f
    <2> QED
      BY <1>Put, <2>2, <2>3
  <1>Finish. CASE StdFinish(d)
    <2>1. pc[d] \in Before /\ pc'[d] \notin Early /\ outcome'[d] = "returned"
      BY <1>Finish, <1>1 DEF StdFinish, Before
    <2>2. outcome[d] # "panicked"
      BY <1>1, <2>1 DEF Flow
    <2>3. Adds(rw[d], rw'[d], <<>>)
      <3>1. rw'[d] = Reply(rw[d], Live(d), 200, <<>>) /\ rw[d] \in RW
        BY <1>Finish, <1>1, <2>1, OpenLive DEF StdFinish
      <3>2. 200 \in Codes /\ <<>> \in Seq(Chunk)
        BY DEF Codes, HandlerCodes
      <3>3. Adds(rw[d], Reply(rw[d], Live(d), 200, <<>>), <<>>)
        BY <1>1, <3>1, <3>2, ReplyAdds
      <3> QED
        BY <3>1, <3>3
    <2> QED
      BY <1>2, <1>Adds, <2>1, <2>2, <2>3
  \* The handler writes into a CustomResponseWriter.
  <1>Handler. CASE HandlerWriteHeader(d) \/ HandlerWrite(d)
    <2>1. /\ pc[d] = "handler" /\ pc' = pc /\ outcome' = outcome
          /\ depth[d] = N /\ pc[d] \in Before \ {"panic"}
      BY <1>Handler, <1>1 DEF HandlerWriteHeader, HandlerWrite, Runs, Flow, Before
    <2>2. cur[d] # 0
      BY <1>1, <2>1, ChainType DEF Nested, Innermost, HasCache, Wraps
    <2>3. rw' = rw
      BY <1>Handler, <2>2 DEF HandlerWriteHeader, HandlerWrite, PutReply, PutWrite
    <2> QED
      BY <1>Same, <2>1, <2>3
  <1>Owner. CASE HandlerHijack(d) \/ HandlerRaw(d)
    <2>1. pc' = pc /\ outcome' = outcome
      BY <1>Owner DEF HandlerHijack, HandlerRaw
    <2>2. \/ rw'[d] = [rw[d] EXCEPT !.hijacked = TRUE]
          \/ rw'[d] = [rw[d] EXCEPT !.wire = Append(@, Raw)]
          \/ rw'[d] = rw[d]
      <3>1. CASE HandlerHijack(d)
        BY <1>1, <3>1 DEF HandlerHijack
      <3>2. CASE HandlerRaw(d)
        BY <1>1, <3>2 DEF HandlerRaw, RW
      <3> QED
        BY <1>Owner, <3>1, <3>2
    <2>3. CASE rw'[d] = rw[d]
      BY <1>Same, <2>1, <2>3
    <2>4. CASE rw'[d] # rw[d]
      <3>1. \A i \in Marks(rw'[d], "body") :
              i \in Marks(rw[d], "body") /\ rw'[d].wire[i] = rw[d].wire[i]
        BY <1>1, <2>2, <2>4, RawAddsNone
      <3> QED
        BY <1>Kept, <2>1, <3>1
    <2> QED
      BY <2>3, <2>4
  <1>Recover. CASE Recover(d)
    <2>1. /\ pc[d] = "panic" /\ pc[d] \in Before /\ pc'[d] \notin Early
          /\ outcome'[d] = "panicked"
      BY <1>Recover, <1>1 DEF Recover, Before
    <2>2. Marks(rw[d], "body") = {}
      BY <1>1, <2>1 DEF Unmixed
    <2>3. rw'[d] = rw[d] \/ Adds(rw[d], rw'[d], <<ErrorText>>)
      <3>1. /\ rw'[d] = rw[d] \/
               rw'[d] = Reply(rw[d], Live(d), ErrorCode(pv[d]), <<ErrorText>>)
            /\ rw[d] \in RW
        BY <1>Recover, <1>1, <2>1, OpenLive DEF Recover
      <3>2. ErrorCode(pv[d]) \in Codes /\ <<ErrorText>> \in Seq(Chunk)
        BY ChunkType DEF ErrorCode, Codes
      <3>3. Adds(rw[d], Reply(rw[d], Live(d), ErrorCode(pv[d]), <<ErrorText>>),
                 <<ErrorText>>)
        BY <1>1, <3>1, <3>2, ReplyAdds
      <3> QED
        BY <3>1, <3>3
    <2> QED
      BY <2>1, <2>2, <2>3 DEF Unmixed, Adds
  <1>Other. ASSUME NEW c \in Conns, c # d,
                   Accept(c) \/ Peer(c) \/ Serve(c)
            PROVE  Unmixed(d)'
    BY <1>Other, <1>1, <1>Same, OthersStay
  <1>Rest. CASE ListenerFails \/ CacheExpires \/ UNCHANGED vars
    BY <1>Rest, <1>Same DEF ListenerFails, CacheExpires, vars
  <1> QED
    BY <1>Plain, <1>Ends, <1>Turn, <1>Exit, <1>Finish, <1>Handler, <1>Owner,
       <1>Recover, <1>Other, <1>Rest
    DEF Next, Serve, Middleware, Handler, Quiet

\* There is nothing on the wire at first.
LEMMA MixInit == Init => MixInv
  <1> SUFFICES ASSUME Init PROVE Clean /\ \A c \in Conns : Unmixed(c)
    BY WireInit, NestInit DEF MixInv
  <1>1. Clean
    <2>1. <<>> \in Seq(Pieces) /\ NewFrame(0).body = <<>>
      BY DEF NewFrame
    <2>2. \A c \in Conns, k \in 1..N : frame[c][k] = NewFrame(0)
      BY DEF Init
    <2>3. cache = <<>>
      BY DEF Init
    <2> QED
      BY <2>1, <2>2, <2>3 DEF Clean
  <1>2. ASSUME NEW c \in Conns PROVE Unmixed(c)
    <2>1. rw[c].wire = <<>>
      BY DEF Init, NewRW
    <2>2. Marks(rw[c], "body") = {}
      BY <2>1 DEF Marks
    <2> QED
      BY <2>2 DEF Unmixed
  <1> QED
    BY <1>1, <1>2

\* In a chain with CacheMiddleware anywhere in it, the peer never gets a piece
\* of the handler's or the chain's text together with the ErrorHandler's: what
\* was written before a panic is in a buffer, and the panic drops it.
THEOREM NeverMixed == Spec => []ErrorUnmixed
  <1>1. MixInv /\ [Next]_vars => MixInv'
    BY WireStep, NestStep, CleanStep, UnmixedStep DEF MixInv, NestInv, HasCache
  <1>2. MixInv => ErrorUnmixed
    <2> SUFFICES ASSUME MixInv, HasCache, NEW c \in Conns,
                        NEW i \in Sent(c, "body"), rw[c].wire[i].data = <<ErrorText>>,
                        NEW j \in Sent(c, "body")
                 PROVE  rw[c].wire[j].data = <<ErrorText>>
      BY DEF ErrorUnmixed, HasCache
    <2>1. Unmixed(c) /\ i \in Marks(rw[c], "body") /\ j \in Marks(rw[c], "body")
      BY DEF MixInv, Marks, Sent
    <2>2. <<ErrorText>> \notin Seq(Pieces)
      BY WhoseText
    <2> QED
      BY <2>1, <2>2 DEF Unmixed
  <1> QED
    BY <1>1, <1>2, MixInit, PTL DEF Spec

-----------------------------------------------------------------------------
(* What the handler says is what the peer hears, when every middleware that *)
(* wraps the writer flushes it. (Metrics does not.)                         *)

NoMetrics == \A i \in 1..N : Chain[i] # "metrics"

\* The body on the wire, and what is still held back, from the request to the
\* end of an exchange in which the handler returned.
Intact(c) ==
  Live(c) /\ ~rw[c].hijacked =>
    /\ pc[c] \in {"idle", "read", "down"} => BodyOf(rw[c].wire) = <<>>
    /\ pc[c] = "handler" =>
         BodyOf(rw[c].wire) = IF cur[c] = 0 THEN said[c] ELSE <<>>
    /\ pc[c] = "up" /\ cur[c] # 0 /\ said[c] # <<>> =>
         BodyOf(rw[c].wire) = <<>> /\ frame[c][cur[c]].body = said[c]
    /\ \/ pc[c] = "up" /\ cur[c] = 0
       \/ pc[c] = "flush"
       \/ outcome[c] = "returned"
       => said[c] = <<>> \/ BodyOf(rw[c].wire) = said[c]

IntactInv == WireInv /\ HoldInv /\ \A c \in Conns : Intact(c)

\* The body on a live wire after each of the writer's calls.
LEMMA BodyOfHeader ==
  ASSUME NEW s \in RW, NEW code \in Codes
  PROVE  /\ BodyOf(WriteHeader(s, TRUE, code).wire) = BodyOf(s.wire)
         /\ BodyOf(s.wire) \in Seq(Chunk)
  <1> DEFINE t == WriteHeader(s, TRUE, code)
  <1>1. t.wire = s.wire \/ t.wire = Append(s.wire, Status(code))
    BY DEF WriteHeader, StdWriteHeader, RWWriteHeader, RW
  <1>2. s.wire \in Seq(Item) /\ Status(code) \in Item /\ Status(code).data = <<>>
    BY ItemType DEF RW, Status
  <1>3. BodyOf(s.wire) \in Seq(Chunk)
    <2>1. PICK g \in [0..Len(s.wire) -> Seq(Chunk)] :
            BodyOf(s.wire) = g[Len(s.wire)]
      BY <1>2, BodyOfCollects
    <2>2. Len(s.wire) \in 0..Len(s.wire)
      BY <1>2
    <2> QED
      BY <2>1, <2>2
  <1>4. BodyOf(Append(s.wire, Status(code))) = BodyOf(s.wire) \o <<>>
    BY <1>2, BodyOfAppend
  <1>5. BodyOf(s.wire) \o <<>> = BodyOf(s.wire)
    BY <1>3
  <1> HIDE DEF t
  <1>6. BodyOf(t.wire) = BodyOf(s.wire)
    BY <1>1, <1>4, <1>5
  <1> QED
    BY <1>3, <1>6 DEF t

\* A write appends to the body on the wire.
LEMMA BodyOfWrite ==
  ASSUME NEW s \in RW, Sound(s, TRUE), ~s.hijacked, NEW data \in Seq(Chunk)
  PROVE  BodyOf(Write(s, TRUE, data).wire) = BodyOf(s.wire) \o data
  <1> DEFINE t == WriteHeader(s, TRUE, s.status)
             u == Write(s, TRUE, data)
  <1>1. s.status \in Codes
    BY DEF RW
  <1>2. t \in RW
    BY <1>1, WriteHeaderSound
  <1>3. u.wire = Append(t.wire, Body(data))
    BY WriteSound
  <1>4. BodyOf(t.wire) = BodyOf(s.wire)
    BY <1>1, BodyOfHeader
  <1> HIDE DEF t, u
  <1>5. t.wire \in Seq(Item) /\ Body(data) \in Item /\ Body(data).data = data
    BY <1>2, ItemType DEF RW, Body
  <1>6. BodyOf(u.wire) = BodyOf(t.wire) \o data
    BY <1>3, <1>5, BodyOfAppend
  <1> QED
    BY <1>4, <1>6 DEF u

\* So does a reply.
LEMMA BodyOfReply ==
  ASSUME NEW s \in RW, Sound(s, TRUE), ~s.hijacked, NEW code \in Codes,
         NEW data \in Seq(Chunk)
  PROVE  BodyOf(Reply(s, TRUE, code, data).wire) = BodyOf(s.wire) \o data
  <1> DEFINE t == WriteHeader(s, TRUE, code)
  <1>1. /\ t \in RW /\ Sound(t, TRUE) /\ ~t.hijacked
        /\ BodyOf(t.wire) = BodyOf(s.wire) /\ BodyOf(s.wire) \in Seq(Chunk)
    BY WriteHeaderSound, BodyOfHeader
  <1>2. CASE data = <<>>
    <2>1. Reply(s, TRUE, code, data) = t
      BY <1>2 DEF Reply
    <2>2. BodyOf(s.wire) \o data = BodyOf(s.wire)
      BY <1>1, <1>2
    <2> HIDE DEF t
    <2> QED
      BY <1>1, <2>1, <2>2
  <1>3. CASE data # <<>>
    <2>1. Reply(s, TRUE, code, data) = Write(t, TRUE, data)
      BY <1>3 DEF Reply
    <2> HIDE DEF t
    <2>2. BodyOf(Write(t, TRUE, data).wire) = BodyOf(t.wire) \o data
      BY <1>1, BodyOfWrite
    <2> QED
      BY <1>1, <2>1, <2>2
  <1> QED
    BY <1>2, <1>3

\* A goroutine that writes to its own connection with its peer there.
LEMMA PutBody ==
  ASSUME WireInv, NEW c \in Conns, pc[c] \in Before, Live(c), ~rw[c].hijacked,
         NEW code \in Codes, NEW data \in Seq(Chunk),
         PutReply(c, 0, code, data) \/ PutWrite(c, 0, data)
  PROVE  BodyOf(rw'[c].wire) = BodyOf(rw[c].wire) \o data
  <1>1. /\ rw \in [Conns -> RW] /\ rw[c] \in RW /\ FlowInv
        /\ Sound(rw[c], TRUE)
    BY DEF WireInv, FlowInv, TypeOK
  <1>2. Up(c) = TRUE
    BY <1>1, OpenLive
  <1>3. \/ rw'[c] = Reply(rw[c], TRUE, code, data)
        \/ rw'[c] = Write(rw[c], TRUE, data)
    BY <1>1, <1>2 DEF PutReply, PutWrite
  <1> QED
    BY <1>1, <1>3, BodyOfReply, BodyOfWrite

\* A peer that left, and a connection that was hijacked, stay so.
LEMMA LiveBefore ==
  ASSUME WireInv, [Next]_vars, NEW d \in Conns, Live(d)', ~rw'[d].hijacked
  PROVE  Live(d) /\ ~rw[d].hijacked
  <1>1. /\ FlowInv /\ rw \in [Conns -> RW] /\ Sound(rw[d], Live(d))
        /\ Live(d) \in BOOLEAN
    BY DEF WireInv, FlowInv, TypeOK, Live
  <1>2. rw'[d] = rw[d] \/ Touches(rw[d], Live(d), rw'[d])
    BY <1>1, WriterSteps
  <1>3. rw[d].hijacked => rw'[d].hijacked
    BY <1>1, <1>2, TouchSound
  <1>4. Live(d)
    <2>1. CASE ~Recover(d)
      BY <1>1, <2>1, PanicSteps
    <2>2. CASE Recover(d)
      BY <2>2 DEF Recover, Live, net
    <2> QED
      BY <2>1, <2>2
  <1> QED
    BY <1>3, <1>4

\* Every step keeps bodies whole.
LEMMA IntactStep ==
  NoMetrics /\ IntactInv /\ [Next]_vars => \A d \in Conns : Intact(d)'
  <1> SUFFICES ASSUME NoMetrics, IntactInv, [Next]_vars, NEW d \in Conns,
                      Live(d)', ~rw'[d].hijacked
               PROVE  Intact(d)'
    BY DEF Intact
  <1>1. /\ WireInv /\ HoldInv /\ FlowInv /\ Flow(d) /\ Nested(d) /\ Held(d)
        /\ Live(d) /\ ~rw[d].hijacked /\ Intact(d) /\ N \in Nat
    BY LiveBefore, ChainType DEF IntactInv, WireInv, HoldInv, NestInv, FlowInv
  <1>2. /\ pc \in [Conns -> PCs] /\ depth \in [Conns -> 0..N]
        /\ cur \in [Conns -> 0..N] /\ frame \in [Conns -> [1..N -> Frame]]
        /\ said \in [Conns -> Seq(Chunk)] /\ rw \in [Conns -> RW]
        /\ outcome \in [Conns -> {"none", "unread", "returned", "panicked"}]
    BY <1>1 DEF FlowInv, TypeOK
  <1> USE DEF sys, net, mw, shr, hist
  \* No body was written and none is asked for.
  <1>Silent. ASSUME pc'[d] \notin {"idle", "read", "down", "handler"},
                    said'[d] = <<>> \/ (pc'[d] \notin {"up", "flush"}
                                       /\ outcome'[d] # "returned")
             PROVE  Intact(d)'
    BY <1>Silent DEF Intact
  <1>Drop. CASE \/ ReadFails(d) \/ RejectValidation(d) \/ HandlerPanic(d)
                \/ Unwind(d) \/ Recover(d)
    <2>1. /\ pc[d] \in Before
          /\ pc'[d] \notin {"idle", "read", "down", "handler", "up", "flush"}
      BY <1>Drop, <1>2 DEF ReadFails, RejectValidation, HandlerPanic, Unwind,
         Recover, At, Before
    <2>2. outcome'[d] # "returned"
      BY <1>Drop, <1>1, <1>2, <2>1 DEF ReadFails, RejectValidation,
         HandlerPanic, Unwind, Recover, Flow
    <2> QED
      BY <1>Silent, <2>1, <2>2
  <1>Turn. CASE RejectCORS(d) \/ RejectRateLimit(d) \/ CacheHit(d)
    <2>1. /\ pc[d] = "down" /\ said' = said
          /\ pc'[d] \notin {"idle", "read", "down", "handler"}
      BY <1>Turn, <1>2 DEF RejectCORS, RejectRateLimit, CacheHit, At, Outward
    <2> QED
      BY <1>Silent, <1>1, <2>1 DEF Held
  <1>In. CASE \/ Accept(d) \/ ReadRequest(d) \/ PassThrough(d)
              \/ EnterMetrics(d) \/ CacheMiss(d)
    <2>1. /\ pc[d] \in {"idle", "read", "down"} /\ pc[d] \in Before
          /\ pc'[d] \in {"read", "down", "handler"}
          /\ rw' = rw /\ said' = said /\ outcome' = outcome
      BY <1>In, <1>2 DEF Accept, ReadRequest, PassThrough, EnterMetrics,
         CacheMiss, Wrap, At, Inward, Before
    <2>2. said[d] = <<>> /\ BodyOf(rw[d].wire) = <<>> /\ outcome[d] = "none"
      BY <1>1, <2>1 DEF Held, Intact, Flow
    <2> QED
      BY <2>1, <2>2 DEF Intact
  <1>Handler. CASE HandlerWriteHeader(d) \/ HandlerWrite(d)
    <2>1. /\ pc[d] = "handler" /\ pc[d] \in Before /\ pc' = pc /\ cur' = cur
          /\ outcome' = outcome /\ outcome[d] = "none"
      BY <1>Handler, <1>1 DEF HandlerWriteHeader, HandlerWrite, Runs, Before, Flow
    <2>2. CASE cur[d] = 0
      <3>1. BodyOf(rw'[d].wire) = said'[d]
        <4>1. BodyOf(rw[d].wire) = said[d] /\ said[d] \in Seq(Chunk)
          BY <1>1, <1>2, <2>1, <2>2 DEF Intact
        <4>2. CASE HandlerWriteHeader(d)
          <5>1. PICK code \in HandlerCodes : PutReply(d, 0, code, <<>>)
            BY <2>2, <4>2 DEF HandlerWriteHeader
          <5>2. code \in Codes /\ <<>> \in Seq(Chunk) /\ said' = said
            BY <4>2 DEF Codes, HandlerWriteHeader
          <5>3. BodyOf(rw'[d].wire) = BodyOf(rw[d].wire) \o <<>>
            BY <1>1, <2>1, <5>1, <5>2, PutBody
          <5> QED
            BY <4>1, <5>2, <5>3
        <4>3. CASE HandlerWrite(d)
          <5> DEFINE piece == Piece(ops[d] + 1)
          <5>1. PutWrite(d, 0, <<piece>>) /\ said'[d] = Append(said[d], piece)
            BY <1>2, <2>2, <4>3 DEF HandlerWrite
          <5>2. 200 \in Codes /\ <<piece>> \in Seq(Chunk) /\ piece \in Chunk
            BY <1>1, <4>3, PieceType DEF HandlerWrite, FlowInv, Codes, HandlerCodes
          <5> HIDE DEF piece
          <5>3. BodyOf(rw'[d].wire) = BodyOf(rw[d].wire) \o <<piece>>
            BY <1>1, <2>1, <5>1, <5>2, PutBody
          <5>4. Append(said[d], piece) = said[d] \o <<piece>>
            BY <4>1, <5>2
          <5> QED
            BY <4>1, <5>1, <5>3, <5>4
        <4> QED
          BY <1>Handler, <4>2, <4>3
      <3> QED
        BY <2>1, <2>2, <3>1 DEF Intact
    <2>3. CASE cur[d] # 0
      <3>1. rw' = rw
        BY <1>Handler, <2>3 DEF HandlerWriteHeader, HandlerWrite, PutReply,
           PutWrite
      <3> QED
        BY <1>1, <2>1, <2>3, <3>1 DEF Intact
    <2> QED
      BY <2>2, <2>3
  <1>Owner. CASE HandlerHijack(d) \/ HandlerRaw(d)
    BY <1>Owner, <1>1, <1>2 DEF HandlerHijack, HandlerRaw, RW
  <1>Return. CASE HandlerReturn(d)
    <2>1. /\ pc[d] = "handler" /\ pc[d] \in Before \ {"panic"}
          /\ pc'[d] = IF depth[d] = 0 THEN "flush" ELSE "up"
          /\ UNCHANGED <<rw, cur, frame, said, outcome>>
          /\ outcome[d] = "none"
      BY <1>Return, <1>1, <1>2 DEF HandlerReturn, Outward, Before, Flow
    <2>2. /\ cur[d] \in 0..depth[d] /\ (cur[d] # 0 => Chain[cur[d]] \in Wraps)
          /\ depth[d] \in 0..N
      BY <1>1, <1>2, <2>1 DEF Nested, Innermost
    <2>3. cur[d] # 0 => cur[d] \in 1..depth[d] /\ depth[d] # 0
      BY <2>2
    <2>4. cur[d] # 0 => frame[d][cur[d]].body = said[d]
      BY <1>1, <2>1, <2>2, <2>3 DEF Held
    <2>5. BodyOf(rw[d].wire) = IF cur[d] = 0 THEN said[d] ELSE <<>>
      BY <1>1, <2>1 DEF Intact
    <2> QED
      BY <2>1, <2>3, <2>4, <2>5 DEF Intact
  <1>ExitPlain. CASE ExitPlain(d)
    <2>1. /\ pc[d] = "up" /\ pc[d] \in Before \ {"panic"} /\ depth[d] \in 1..N
          /\ Chain[depth[d]] \notin Wraps
          /\ pc'[d] = IF depth[d] - 1 = 0 THEN "flush" ELSE "up"
          /\ UNCHANGED <<rw, cur, frame, said, outcome>>
          /\ outcome[d] = "none"
      BY <1>ExitPlain, <1>1, <1>2 DEF ExitPlain, Leaving, Ascend, Outward,
         Before, Flow, Wraps
    <2>2. Innermost(cur[d], depth[d] - 1)
      BY <1>1, <2>1, InnermostOut DEF Nested
    <2>3. depth[d] - 1 = 0 => cur[d] = 0
      BY <2>1, <2>2 DEF Innermost
    <2> QED
      BY <1>1, <2>1, <2>3 DEF Intact
  <1>ExitMetrics. CASE ExitMetrics(d)
    BY <1>ExitMetrics, <1>1, ChainSteps DEF ExitMetrics, Leaving, NoMetrics,
       FlowInv
  <1>ExitCache. CASE ExitCache(d)
    <2> DEFINE f == frame[d][depth[d]]
               p == f.parent
    <2>1. /\ pc[d] = "up" /\ pc[d] \in Before \ {"panic"} /\ depth[d] \in 1..N
          /\ Chain[depth[d]] \in Wraps
          /\ pc'[d] = IF depth[d] - 1 = 0 THEN "flush" ELSE "up"
          /\ said' = said /\ outcome' = outcome /\ outcome[d] = "none"
          /\ cur'[d] = p /\ PutReply(d, p, f.status, f.body)
      BY <1>ExitCache, <1>1, <1>2 DEF ExitCache, Leaving, Ascend, Outward,
         Before, Flow, Wraps
    <2>2. cur[d] = depth[d] /\ cur[d] # 0
      BY <1>1, <2>1, InnermostOut DEF Nested
    <2>3. CASE said[d] = <<>>
      BY <1>Silent, <2>1, <2>3
    <2>4. CASE said[d] # <<>>
      <3>1. BodyOf(rw[d].wire) = <<>> /\ f.body = said[d]
        BY <1>1, <2>1, <2>2, <2>4 DEF Intact
      <3>2. Innermost(p, depth[d] - 1)
        <4>1. depth[d] \in 1..depth[d]
          BY <2>1
        <4> QED
          BY <1>1, <2>1, <4>1 DEF Nested
      <3>3. f.status \in Codes /\ f.body \in Seq(Chunk)
        BY <1>2, <2>1 DEF Frame
      <3>4. CASE p = 0
        <4>1. PutReply(d, 0, f.status, f.body)
          BY <2>1, <3>4
        <4> HIDE DEF f
        <4>2. BodyOf(rw'[d].wire) = BodyOf(rw[d].wire) \o f.body
          BY <1>1, <2>1, <3>3, <4>1, PutBody
        <4>3. BodyOf(rw'[d].wire) = said[d]
          BY <3>1, <3>3, <4>2
        <4> QED
          BY <2>1, <3>4, <4>3 DEF Intact
      <3>5. CASE p # 0
        <4>1. /\ p \in 1..(depth[d]-1) /\ p \in 1..depth[d] /\ p # cur[d]
              /\ p \in 1..N /\ Chain[p] \in Wraps /\ depth[d] - 1 # 0
          BY <1>1, <2>1, <2>2, <3>2, <3>5 DEF Innermost
        <4>2. rw' = rw
          BY <2>1, <3>5 DEF PutReply
        <4>3. frame[d][p].body = <<>>
          <5>1. frame[d][p].body = <<>> \/ p = cur[d]
            BY <1>1, <2>1, <4>1 DEF Held
          <5> QED
            BY <4>1, <5>1
        <4>4. frame'[d][p].body = said[d]
          <5>1. Becomes(d, p, Replied(frame[d][p], f.status, f.body))
            BY <1>1, <2>1, <4>1, PutFrames
          <5>2. frame[d][p] \in Frame
            BY <1>2, <4>1
          <5>3. Replied(frame[d][p], f.status, f.body).body = f.body
            BY <3>3, <4>3, <5>2, RepliedBody
          <5> QED
            BY <3>1, <4>1, <5>1, <5>3 DEF Becomes
        <4>5. pc'[d] = "up" /\ cur'[d] = p /\ outcome'[d] = "none"
          BY <2>1, <4>1
        <4>6. said'[d] = said[d] /\ BodyOf(rw'[d].wire) = <<>>
          BY <2>1, <3>1, <4>2
        <4> HIDE DEF p, f
        <4> QED
          BY <3>5, <4>4, <4>5, <4>6 DEF Intact
      <3> QED
        BY <3>4, <3>5
    <2> QED
      BY <2>3, <2>4
  <1>Flush. CASE Flush(d)
    <2>1. pc[d] = "flush" /\ rw' = rw /\ said' = said /\ pc'[d] = "close"
      BY <1>Flush, <1>2 DEF Flush
    <2> QED
      BY <1>1, <2>1 DEF Intact
  <1>Finish. CASE StdFinish(d)
    <2>1. /\ pc[d] = "flush" /\ pc[d] \in Before /\ said' = said
          /\ pc'[d] = "close"
      BY <1>Finish, <1>2 DEF StdFinish, Before
    <2>2. BodyOf(rw'[d].wire) = BodyOf(rw[d].wire)
      <3>1. Up(d) = TRUE
        BY <1>1, <2>1, OpenLive
      <3>2. /\ 200 \in Codes /\ rw[d] \in RW
            /\ rw'[d] = WriteHeader(rw[d], TRUE, 200)
        BY <1>Finish, <1>2, <3>1 DEF StdFinish, Reply, Codes, HandlerCodes
      <3>3. BodyOf(WriteHeader(rw[d], TRUE, 200).wire) = BodyOf(rw[d].wire)
        BY <3>2, BodyOfHeader
      <3> QED
        BY <3>2, <3>3
    <2> QED
      BY <1>1, <2>1, <2>2 DEF Intact
  <1>Close. CASE Close(d) \/ Report(d)
    <2>1. /\ rw' = rw /\ said' = said /\ outcome' = outcome
          /\ pc'[d] \in {"report", "done"}
      BY <1>Close, <1>2 DEF Close, Report
    <2> QED
      BY <1>1, <2>1 DEF Intact
  <1>Same. ASSUME UNCHANGED <<pc[d], cur[d], frame[d], said[d], rw[d], outcome[d]>>
           PROVE  Intact(d)'
    BY <1>Same, <1>1 DEF Intact
  <1>Peer. CASE Peer(d)
    BY <1>Peer, <1>Same DEF Peer, PeerStalls, PeerReads, PeerLeaves
  <1>Other. ASSUME NEW c \in Conns, c # d,
                   Accept(c) \/ Peer(c) \/ Serve(c)
            PROVE  Intact(d)'
    BY <1>Other, <1>1, <1>Same, OthersStay
  <1>Rest. CASE ListenerFails \/ CacheExpires \/ UNCHANGED vars
    BY <1>Rest, <1>Same DEF ListenerFails, CacheExpires, vars
  <1> QED
    BY <1>Drop, <1>Turn, <1>In, <1>Handler, <1>Owner, <1>Return, <1>ExitPlain,
       <1>ExitMetrics, <1>ExitCache, <1>Flush, <1>Finish, <1>Close, <1>Peer,
       <1>Other, <1>Rest
    DEF Next, Serve, Middleware, Handler, Quiet

\* There is nothing on the wire at first.
LEMMA IntactInit == Init => IntactInv
  <1> SUFFICES ASSUME Init, NEW c \in Conns PROVE Intact(c)
    BY WireInit, HoldInit DEF IntactInv
  <1>1. /\ rw[c].wire = <<>> /\ pc[c] = "idle" /\ outcome[c] = "none"
    BY DEF Init, NewRW
  <1>2. BodyOf(<<>>) = <<>>
    BY BodyOfAppend
  <1> QED
    BY <1>1, <1>2 DEF Intact

\* Whatever chain without Metrics stands between them, and however many writers
\* it wraps around each other, a peer that stays gets all the handler wrote,
\* in order, once, and nothing else. (Metrics never flushes its writer.)
THEOREM BodyWhole ==
  ASSUME NoMetrics
  PROVE  Spec => []BodyIntact
  <1>1. IntactInv /\ [Next]_vars => IntactInv'
    BY WireStep, NestStep, HoldStep, CacheStep, IntactStep
    DEF IntactInv, HoldInv, NestInv
  <1>2. IntactInv => BodyIntact
    BY DEF IntactInv, Intact, BodyIntact, Served, Live
  <1> QED
    BY <1>1, <1>2, IntactInit, PTL DEF Spec

=============================================================================
