-------------------------- MODULE Connection_proofs --------------------------
(***************************************************************************)
(* Theorems about Connection, for every set of connections, every network  *)
(* framework and every middleware chain: type correctness, and that no     *)
(* connection ever carries a second status line or a body before it.       *)
(***************************************************************************)
EXTENDS Connection, TLAPS

\* A call on the writer of a connection is its change of rw.
USE DEF Sends

-----------------------------------------------------------------------------
(* Lemmas about the chain and the writers. *)

\* The chain is a finite sequence of middleware kinds.
LEMMA ChainType == N \in Nat /\ Chain \in Seq(Kinds)
  BY ConnectionAssumption DEF N, Chain

\* What the server puts on a connection is an Item.
LEMMA ItemType ==
  /\ \A code \in Codes : Status(code) \in Item
  /\ \A data \in Seq(Chunk) : Body(data) \in Item
  /\ Raw \in Item
  BY DEF Status, Body, Raw, Item, Codes, HandlerCodes

\* The texts of the server and what the handler's next call writes.
LEMMA ChunkType ==
  /\ <<>> \in Seq(Chunk) /\ <<Refusal>> \in Seq(Chunk)
  /\ <<ErrorText>> \in Seq(Chunk)
  /\ \A n \in 0..MaxOps : Piece(n) \in Chunk /\ <<Piece(n)>> \in Seq(Chunk)
  <1>1. /\ Refusal \in Chunk /\ ErrorText \in Chunk
        /\ \A n \in 0..MaxOps : Piece(n) \in Chunk
    BY ConnectionAssumption DEF Refusal, ErrorText, Piece, Chunk
  <1> QED
    BY <1>1

\* RW.WriteHeader, with either framework, keeps the writer well typed.
LEMMA WriteHeaderType ==
  ASSUME NEW s \in RW, NEW up \in BOOLEAN, NEW code \in Codes
  PROVE  WriteHeader(s, up, code) \in RW
  <1>1. Append(s.wire, Status(code)) \in Seq(Item)
    BY ItemType DEF RW
  <1>2. RWWriteHeader(s, up, code) \in RW
    BY <1>1 DEF RWWriteHeader, RW
  <1> QED
    BY <1>2 DEF WriteHeader, StdWriteHeader

\* So does RW.Write.
LEMMA WriteType ==
  ASSUME NEW s \in RW, NEW up \in BOOLEAN, NEW data \in Seq(Chunk)
  PROVE  Write(s, up, data) \in RW
  <1> DEFINE t == WriteHeader(s, up, s.status)
  <1>1. t \in RW
    BY WriteHeaderType DEF RW
  <1>2. Append(t.wire, Body(data)) \in Seq(Item)
    BY <1>1, ItemType DEF RW
  <1>3. /\ [t EXCEPT !.wire = Append(@, Body(data))] \in RW
        /\ [t EXCEPT !.failed = TRUE] \in RW
    <2> HIDE DEF t
    <2> QED BY <1>1, <1>2 DEF RW
  <1> QED
    BY <1>1, <1>3 DEF Write

\* So does a whole reply.
LEMMA ReplyType ==
  ASSUME NEW s \in RW, NEW up \in BOOLEAN, NEW code \in Codes,
         NEW data \in Seq(Chunk)
  PROVE  Reply(s, up, code, data) \in RW
  BY WriteHeaderType, WriteType DEF Reply

\* Writing through whichever writer the running code holds.
LEMMA PutType ==
  ASSUME TypeOK, NEW c \in Conns, NEW w \in 0..N, NEW code \in Codes,
         NEW data \in Seq(Chunk),
         PutReply(c, w, code, data) \/ PutWrite(c, w, data)
  PROVE  rw' \in [Conns -> RW] /\ frame' \in [Conns -> [1..N -> Frame]]
  <1>1. Up(c) \in BOOLEAN
    BY DEF Up
  <1>2. rw \in [Conns -> RW] /\ frame \in [Conns -> [1..N -> Frame]]
    BY DEF TypeOK
  <1>3. CASE w = 0
    <2>1. /\ Reply(rw[c], Up(c), code, data) \in RW
          /\ Write(rw[c], Up(c), data) \in RW
      BY <1>1, <1>2, ReplyType, WriteType
    <2> QED
      BY <1>2, <1>3, <2>1 DEF PutReply, PutWrite
  <1>4. CASE w # 0
    <2>1. w \in 1..N
      BY <1>4, ChainType
    <2>2. frame[c][w] \in Frame
      BY <1>2, <2>1
    <2>3. frame[c][w].body \o data \in Seq(Chunk)
      BY <2>2 DEF Frame
    <2>4. /\ [status |-> code, body |-> frame[c][w].body \o data,
              parent |-> frame[c][w].parent] \in Frame
          /\ [status |-> frame[c][w].status,
              body |-> frame[c][w].body \o data,
              parent |-> frame[c][w].parent] \in Frame
      BY <2>2, <2>3 DEF Frame
    <2>5. ASSUME NEW f \in Frame
          PROVE  [frame EXCEPT ![c][w] = f] \in [Conns -> [1..N -> Frame]]
      <3>1. [frame[c] EXCEPT ![w] = f] \in [1..N -> Frame]
        BY <1>2, <2>1
      <3> QED
        BY <1>2, <3>1
    <2>6. frame' \in [Conns -> [1..N -> Frame]] /\ rw' = rw
      BY <1>4, <2>4, <2>5 DEF PutReply, PutWrite
    <2> QED
      BY <1>2, <2>6
  <1> QED
    BY <1>3, <1>4

-----------------------------------------------------------------------------
(* Type correctness. *)

\* The depth and the program counter a step through the chain leads to.
LEMMA ChainSteps ==
  ASSUME TypeOK, NEW c \in Conns
  PROVE  /\ \A kinds : At(c, kinds) => depth[c] + 1 \in 1..N
         /\ \A kinds : Leaving(c, kinds) => /\ depth[c] \in 1..N
                                            /\ depth[c] - 1 \in 0..N
         /\ \A d \in 0..N : Inward(d) \in PCs /\ Outward(d) \in PCs
  BY ChainType DEF TypeOK, At, Leaving, Inward, Outward, PCs

\* The handler's call is within the bound on its calls.
LEMMA CountsType ==
  ASSUME TypeOK, NEW c \in Conns, Runs(c), Counts(c)
  PROVE  ops' \in [Conns -> 0..MaxOps]
  BY ConnectionAssumption DEF TypeOK, Runs, Counts

\* What it writes is a chunk.
LEMMA PieceType ==
  ASSUME TypeOK, NEW c \in Conns, Runs(c)
  PROVE  /\ Piece(ops[c] + 1) \in Chunk
         /\ <<Piece(ops[c] + 1)>> \in Seq(Chunk)
  <1>1. ops[c] + 1 \in 0..MaxOps
    BY ConnectionAssumption DEF TypeOK, Runs
  <1> QED
    BY <1>1, ChunkType

\* The fields that Hijack and the new owner of a connection change.
LEMMA FieldType ==
  ASSUME NEW s \in RW
  PROVE  /\ [s EXCEPT !.hijacked = TRUE] \in RW
         /\ [s EXCEPT !.wire = Append(@, Raw)] \in RW
         /\ [s EXCEPT !.wire = @] \in RW
  <1>1. Append(s.wire, Raw) \in Seq(Item)
    BY ItemType DEF RW
  <1> QED
    BY <1>1 DEF RW

\* A middleware that wraps the writer keeps every frame well typed.
LEMMA WrapType ==
  ASSUME TypeOK, NEW c \in Conns, NEW kinds, At(c, kinds), Wrap(c)
  PROVE  /\ depth' \in [Conns -> 0..N] /\ cur' \in [Conns -> 0..N]
         /\ frame' \in [Conns -> [1..N -> Frame]]
         /\ pc' \in [Conns -> PCs]
  <1> DEFINE k == depth[c] + 1
  <1>1. k \in 1..N /\ k \in 0..N
    BY ChainSteps, ChainType
  <1>2. NewFrame(cur[c]) \in Frame
    BY DEF TypeOK, NewFrame, Frame, Codes, HandlerCodes
  <1>3. [frame[c] EXCEPT ![k] = NewFrame(cur[c])] \in [1..N -> Frame]
    BY <1>1, <1>2 DEF TypeOK
  <1>4. frame' = [frame EXCEPT ![c] =
                    [frame[c] EXCEPT ![k] = NewFrame(cur[c])]]
    BY DEF Wrap
  <1>5. Inward(k) \in PCs
    BY <1>1, ChainSteps
  <1> QED
    BY <1>1, <1>3, <1>4, <1>5 DEF TypeOK, Wrap

\* The initial state is well typed.
LEMMA TypeInit == Init => TypeOK
  <1> SUFFICES ASSUME Init PROVE TypeOK
    OBVIOUS
  <1>1. NewRW \in RW
    BY DEF NewRW, RW, Codes, HandlerCodes
  <1>2. NewFrame(0) \in Frame
    BY ChainType DEF NewFrame, Frame, Codes, HandlerCodes
  <1>3. \A S : <<>> \in Seq(S)
    OBVIOUS
  <1> QED
    BY <1>1, <1>2, <1>3, ChainType, ConnectionAssumption
    DEF Init, TypeOK, PCs, Codes

\* Every step keeps every variable's type.
LEMMA TypeStep == TypeOK /\ [Next]_vars => TypeOK'
  <1> SUFFICES ASSUME TypeOK, [Next]_vars PROVE TypeOK'
    OBVIOUS
  <1> USE ChainType DEF sys, net, mw, shr, hist
  <1>Accept. ASSUME NEW c \in Conns, Accept(c) PROVE TypeOK'
    BY <1>Accept, ChainSteps DEF TypeOK, Accept, PCs
  <1>Peer. ASSUME NEW c \in Conns, Peer(c) PROVE TypeOK'
    BY <1>Peer, ChainSteps DEF TypeOK, Peer, PeerStalls, PeerReads, PeerLeaves,
       PCs
  <1>ReadRequest. ASSUME NEW c \in Conns, ReadRequest(c) PROVE TypeOK'
    BY <1>ReadRequest, ChainSteps DEF TypeOK, ReadRequest, PCs, Inward
  <1>ReadFails. ASSUME NEW c \in Conns, ReadFails(c) PROVE TypeOK'
    BY <1>ReadFails, ChainSteps DEF TypeOK, ReadFails, PCs
  <1>PassThrough. ASSUME NEW c \in Conns, PassThrough(c) PROVE TypeOK'
    <2>1. depth[c] + 1 \in 1..N /\ Inward(depth[c] + 1) \in PCs
      BY <1>PassThrough, ChainSteps DEF PassThrough
    <2> QED
      BY <1>PassThrough, <2>1 DEF TypeOK, PassThrough
  <1>RejectCORS. ASSUME NEW c \in Conns, RejectCORS(c) PROVE TypeOK'
    <2>1. /\ \E code \in Codes : PutReply(c, cur[c], code, <<>>)
          /\ pc' = [pc EXCEPT ![c] = Outward(depth[c])]
          /\ UNCHANGED <<sys, net, depth, cur, pv, ret, shr, ops, hist>>
      BY <1>RejectCORS DEF RejectCORS, Codes
    <2>2. cur[c] \in 0..N /\ <<>> \in Seq(Chunk)
      BY DEF TypeOK
    <2>3. rw' \in [Conns -> RW] /\ frame' \in [Conns -> [1..N -> Frame]]
      BY <2>1, <2>2, PutType
    <2> QED
      BY <2>1, <2>3, ChainSteps DEF TypeOK
  <1>RejectRateLimit. ASSUME NEW c \in Conns, RejectRateLimit(c) PROVE TypeOK'
    <2>1. cur[c] \in 0..N /\ 429 \in Codes /\ <<Refusal>> \in Seq(Chunk)
      BY ChunkType DEF TypeOK, Codes
    <2>2. rw' \in [Conns -> RW] /\ frame' \in [Conns -> [1..N -> Frame]]
      BY <1>RejectRateLimit, <2>1, PutType DEF RejectRateLimit
    <2> QED
      BY <1>RejectRateLimit, <2>2, ChainSteps DEF TypeOK, RejectRateLimit
  <1>RejectValidation. ASSUME NEW c \in Conns, RejectValidation(c) PROVE TypeOK'
    BY <1>RejectValidation DEF TypeOK, RejectValidation, PCs
  <1>EnterMetrics. ASSUME NEW c \in Conns, EnterMetrics(c) PROVE TypeOK'
    <2>1. /\ depth' \in [Conns -> 0..N] /\ cur' \in [Conns -> 0..N]
          /\ frame' \in [Conns -> [1..N -> Frame]]
          /\ pc' \in [Conns -> PCs]
      BY <1>EnterMetrics, WrapType DEF EnterMetrics
    <2> QED
      BY <1>EnterMetrics, <2>1 DEF TypeOK, EnterMetrics
  <1>CacheMiss. ASSUME NEW c \in Conns, CacheMiss(c) PROVE TypeOK'
    <2>1. /\ depth' \in [Conns -> 0..N] /\ cur' \in [Conns -> 0..N]
          /\ frame' \in [Conns -> [1..N -> Frame]]
          /\ pc' \in [Conns -> PCs]
      BY <1>CacheMiss, WrapType DEF CacheMiss
    <2> QED
      BY <1>CacheMiss, <2>1 DEF TypeOK, CacheMiss
  <1>CacheHit. ASSUME NEW c \in Conns, CacheHit(c) PROVE TypeOK'
    <2>1. cur[c] \in 0..N /\ 200 \in Codes /\ cache \in Seq(Chunk)
      BY DEF TypeOK, Codes, HandlerCodes
    <2>2. rw' \in [Conns -> RW] /\ frame' \in [Conns -> [1..N -> Frame]]
      BY <1>CacheHit, <2>1, PutType DEF CacheHit
    <2> QED
      BY <1>CacheHit, <2>2, ChainSteps DEF TypeOK, CacheHit
  <1>HandlerWriteHeader. ASSUME NEW c \in Conns, HandlerWriteHeader(c) PROVE TypeOK'
    <2>1. PICK code \in Codes :
                 Chooses(c, code) /\ PutReply(c, cur[c], code, <<>>)
      BY <1>HandlerWriteHeader DEF HandlerWriteHeader, Codes
    <2>2. cur[c] \in 0..N /\ <<>> \in Seq(Chunk)
      BY DEF TypeOK
    <2>3. rw' \in [Conns -> RW] /\ frame' \in [Conns -> [1..N -> Frame]]
      BY <2>1, <2>2, PutType
    <2>4. first' \in [Conns -> Codes]
      BY <2>1, <2>2 DEF Chooses, TypeOK
    <2>5. ops' \in [Conns -> 0..MaxOps]
      BY <1>HandlerWriteHeader, CountsType DEF HandlerWriteHeader
    <2>6. UNCHANGED <<sys, pc, net, depth, cur, pv, ret, shr,
                      outcome, errs, said, wholes>>
      BY <1>HandlerWriteHeader DEF HandlerWriteHeader
    <2> QED
      BY <2>3, <2>4, <2>5, <2>6 DEF TypeOK
  <1>HandlerWrite. ASSUME NEW c \in Conns, HandlerWrite(c) PROVE TypeOK'
    <2>0. Runs(c)
      BY <1>HandlerWrite DEF HandlerWrite
    <2>1. /\ cur[c] \in 0..N /\ 200 \in Codes
          /\ Piece(ops[c] + 1) \in Chunk
          /\ <<Piece(ops[c] + 1)>> \in Seq(Chunk)
      BY <2>0, PieceType DEF TypeOK, Codes, HandlerCodes
    <2>2. rw' \in [Conns -> RW] /\ frame' \in [Conns -> [1..N -> Frame]]
      BY <1>HandlerWrite, <2>1, PutType DEF HandlerWrite
    <2>3. first' \in [Conns -> Codes]
      BY <1>HandlerWrite, <2>1 DEF HandlerWrite, Chooses, TypeOK
    <2>4. said' \in [Conns -> Seq(Chunk)]
      BY <1>HandlerWrite, <2>1 DEF HandlerWrite, TypeOK
    <2>5. ops' \in [Conns -> 0..MaxOps]
      BY <1>HandlerWrite, CountsType DEF HandlerWrite
    <2> QED
      BY <1>HandlerWrite, <2>2, <2>3, <2>4, <2>5 DEF TypeOK, HandlerWrite
  <1>HandlerHijack. ASSUME NEW c \in Conns, HandlerHijack(c) PROVE TypeOK'
    <2>1. rw' \in [Conns -> RW]
      BY <1>HandlerHijack, FieldType DEF TypeOK, HandlerHijack
    <2>2. ops' \in [Conns -> 0..MaxOps]
      BY <1>HandlerHijack, CountsType DEF HandlerHijack
    <2> QED
      BY <1>HandlerHijack, <2>1, <2>2 DEF TypeOK, HandlerHijack
  <1>HandlerRaw. ASSUME NEW c \in Conns, HandlerRaw(c) PROVE TypeOK'
    <2>1. rw' \in [Conns -> RW]
      BY <1>HandlerRaw, FieldType DEF TypeOK, HandlerRaw
    <2>2. ops' \in [Conns -> 0..MaxOps]
      BY <1>HandlerRaw, CountsType DEF HandlerRaw
    <2> QED
      BY <1>HandlerRaw, <2>1, <2>2 DEF TypeOK, HandlerRaw
  <1>HandlerPanic. ASSUME NEW c \in Conns, HandlerPanic(c) PROVE TypeOK'
    BY <1>HandlerPanic, ChainSteps DEF TypeOK, HandlerPanic, PCs
  <1>HandlerReturn. ASSUME NEW c \in Conns, HandlerReturn(c) PROVE TypeOK'
    BY <1>HandlerReturn, ChainSteps DEF TypeOK, HandlerReturn, PCs
  <1>ExitPlain. ASSUME NEW c \in Conns, ExitPlain(c) PROVE TypeOK'
    BY <1>ExitPlain, ChainSteps DEF TypeOK, ExitPlain, PCs, Leaving, Ascend, Outward
  <1>ExitMetrics. ASSUME NEW c \in Conns, ExitMetrics(c) PROVE TypeOK'
    <2>1. depth[c] \in 1..N /\ depth[c] - 1 \in 0..N
      BY <1>ExitMetrics, ChainSteps DEF ExitMetrics
    <2>2. frame[c][depth[c]].parent \in 0..N /\ Outward(depth[c] - 1) \in PCs
      BY <2>1, ChainSteps DEF TypeOK, Frame
    <2>3. counted' \in [Conns -> Nat]
      BY <1>ExitMetrics DEF TypeOK, ExitMetrics
    <2>4. inflight' \in Int
      BY <1>ExitMetrics DEF TypeOK, ExitMetrics
    <2>5. /\ depth' \in [Conns -> 0..N] /\ pc' \in [Conns -> PCs]
          /\ cur' \in [Conns -> 0..N]
      BY <1>ExitMetrics, <2>1, <2>2 DEF TypeOK, ExitMetrics, Ascend
    <2> QED
      BY <1>ExitMetrics, <2>3, <2>4, <2>5 DEF TypeOK, ExitMetrics
  <1>ExitCache. ASSUME NEW c \in Conns, ExitCache(c) PROVE TypeOK'
    <2> DEFINE f == frame[c][depth[c]]
    <2>1. depth[c] \in 1..N /\ depth[c] - 1 \in 0..N
      BY <1>ExitCache, ChainSteps DEF ExitCache
    <2>2. f.parent \in 0..N /\ f.status \in Codes /\ f.body \in Seq(Chunk)
      BY <2>1 DEF TypeOK, Frame
    <2>3. rw' \in [Conns -> RW] /\ frame' \in [Conns -> [1..N -> Frame]]
      BY <1>ExitCache, <2>2, PutType DEF ExitCache
    <2>4. Outward(depth[c] - 1) \in PCs
      BY <2>1, ChainSteps
    <2>5. cache' \in Seq(Chunk)
      BY <1>ExitCache, <2>2 DEF TypeOK, ExitCache
    <2>6. /\ depth' \in [Conns -> 0..N] /\ pc' \in [Conns -> PCs]
          /\ cur' \in [Conns -> 0..N]
      BY <1>ExitCache, <2>1, <2>2, <2>4 DEF TypeOK, ExitCache, Ascend
    <2> QED
      BY <1>ExitCache, <2>3, <2>5, <2>6 DEF TypeOK, ExitCache
  <1>Unwind. ASSUME NEW c \in Conns, Unwind(c) PROVE TypeOK'
    <2>1. depth[c] - 1 \in 0..N
      BY <1>Unwind DEF TypeOK, Unwind
    <2>2. inflight' \in Int
      BY <1>Unwind DEF TypeOK, Unwind
    <2> QED
      BY <1>Unwind, <2>1, <2>2 DEF TypeOK, Unwind
  <1>Recover. ASSUME NEW c \in Conns, Recover(c) PROVE TypeOK'
    <2>1. rw[c] \in RW /\ ErrorCode(pv[c]) \in Codes /\ Up(c) \in BOOLEAN
          /\ <<ErrorText>> \in Seq(Chunk)
      BY ChunkType DEF TypeOK, ErrorCode, Codes, Up
    <2>2. Reply(rw[c], Up(c), ErrorCode(pv[c]), <<ErrorText>>) \in RW
      BY <2>1, ReplyType
    <2>3. rw' \in [Conns -> RW] /\ errs' \in [Conns -> Nat]
      <3>1. CASE Recovers /\ onError # "none"
        <4>1. /\ rw' = [rw EXCEPT ![c] = Reply(rw[c], Up(c), ErrorCode(pv[c]),
                                              <<ErrorText>>)]
              /\ errs' = [errs EXCEPT ![c] = errs[c] + 1]
          BY <1>Recover, <3>1 DEF Recover
        <4> QED
          BY <2>2, <4>1 DEF TypeOK
      <3>2. CASE ~(Recovers /\ onError # "none")
        BY <1>Recover, <3>2 DEF TypeOK, Recover
      <3> QED
        BY <3>1, <3>2
    <2> QED
      BY <1>Recover, <2>3 DEF TypeOK, Recover, PCs
  <1>Flush. ASSUME NEW c \in Conns, Flush(c) PROVE TypeOK'
    BY <1>Flush, ChainSteps DEF TypeOK, Flush, PCs
  <1>StdFinish. ASSUME NEW c \in Conns, StdFinish(c) PROVE TypeOK'
    <2>1. rw[c] \in RW /\ 200 \in Codes /\ Up(c) \in BOOLEAN
          /\ <<>> \in Seq(Chunk)
      BY DEF TypeOK, Codes, HandlerCodes, Up
    <2>2. Reply(rw[c], Up(c), 200, <<>>) \in RW
      BY <2>1, ReplyType
    <2> QED
      BY <1>StdFinish, <2>2 DEF TypeOK, StdFinish, PCs
  <1>Close. ASSUME NEW c \in Conns, Close(c) PROVE TypeOK'
    BY <1>Close, ChainSteps DEF TypeOK, Close, PCs
  <1>Report. ASSUME NEW c \in Conns, Report(c) PROVE TypeOK'
    <2>1. errs' \in [Conns -> Nat] /\ pc' \in [Conns -> PCs]
      BY <1>Report DEF TypeOK, Report, PCs
    <2>2. server' \in {"up", "crashed"}
      BY <1>Report DEF TypeOK, Report
    <2> QED
      BY <1>Report, <2>1, <2>2 DEF TypeOK, Report
  <1>ListenerFails. CASE ListenerFails
    BY <1>ListenerFails DEF TypeOK, ListenerFails
  <1>CacheExpires. CASE CacheExpires
    BY <1>CacheExpires DEF TypeOK, CacheExpires
  <1>Stutter. CASE UNCHANGED vars
    BY <1>Stutter DEF TypeOK, vars
  <1> QED
    BY <1>Accept,
       <1>Peer,
       <1>ReadRequest,
       <1>ReadFails,
       <1>PassThrough,
       <1>RejectCORS,
       <1>RejectRateLimit,
       <1>RejectValidation,
       <1>EnterMetrics,
       <1>CacheMiss,
       <1>CacheHit,
       <1>HandlerWriteHeader,
       <1>HandlerWrite,
       <1>HandlerHijack,
       <1>HandlerRaw,
       <1>HandlerPanic,
       <1>HandlerReturn,
       <1>ExitPlain,
       <1>ExitMetrics,
       <1>ExitCache,
       <1>Unwind,
       <1>Recover,
       <1>Flush,
       <1>StdFinish,
       <1>Close,
       <1>Report,
       <1>ListenerFails,
       <1>CacheExpires,
       <1>Stutter
    DEF Next, Serve, Middleware, Handler, Quiet

\* Every variable keeps its type, whatever the chain, the framework and the
\* handler: a panic, a rejection or a cache hit leaves the depth, the writer
\* in use and every CustomResponseWriter within the chain.
THEOREM TypeCorrect == Spec => []TypeOK
  BY TypeInit, TypeStep, PTL DEF Spec

-----------------------------------------------------------------------------
(* At most one status line, and no body before it. WellFormed looks at the  *)
(* bytes; what keeps it true is the agreement of RW.written with them.      *)

Marks(s, kind) == {i \in 1..Len(s.wire) : s.wire[i].kind = kind}

\* RW.written is set once a status line was sent, and while the peer and the
\* connection are there it is not set without one.
HeaderInv(s, up) ==
  /\ \A i, j \in Marks(s, "status") : i = j
  /\ \A j \in Marks(s, "body") : \E i \in Marks(s, "status") : i < j
  /\ Marks(s, "status") # {} => s.written
  /\ up /\ s.written => Marks(s, "status") # {}

IInv == TypeOK /\ \A c \in Conns : HeaderInv(rw[c], Up(c))

\* Appending an item adds its place, and no other, to the marks of its kind.
LEMMA AppendMarks ==
  ASSUME NEW s \in RW, NEW item \in Item, NEW t \in RW,
         t.wire = Append(s.wire, item)
  PROVE  \A kind : Marks(t, kind) =
           Marks(s, kind) \cup {i \in {Len(s.wire) + 1} : item.kind = kind}
  <1>1. Len(s.wire) \in Nat /\ Len(t.wire) = Len(s.wire) + 1
    BY DEF RW
  <1>2. /\ \A i \in 1..Len(s.wire) : t.wire[i] = s.wire[i]
        /\ t.wire[Len(s.wire) + 1] = item
    BY DEF RW
  <1> QED
    BY <1>1, <1>2 DEF Marks

\* WriteHeader keeps HeaderInv; on a connection not hijacked it sets written.
LEMMA WriteHeaderKeeps ==
  ASSUME NEW s \in RW, NEW up \in BOOLEAN, NEW code \in Codes,
         HeaderInv(s, up)
  PROVE  /\ HeaderInv(WriteHeader(s, up, code), up)
         /\ ~s.hijacked => WriteHeader(s, up, code).written
  <1> DEFINE t == RWWriteHeader(s, up, code)
  <1>1. HeaderInv(t, up) /\ t.written
    <2>1. CASE s.written
      BY <2>1 DEF RWWriteHeader
    <2>2. CASE ~s.written /\ up
      <3>1. t \in RW /\ t.wire = Append(s.wire, Status(code)) /\ t.written
        <4>1. Append(s.wire, Status(code)) \in Seq(Item)
          BY ItemType DEF RW
        <4> QED
          BY <2>2, <4>1 DEF RWWriteHeader, RW
      <3>2. Marks(s, "status") = {} /\ Marks(s, "body") = {}
        BY <2>2 DEF HeaderInv
      <3>3. Status(code) \in Item /\ Status(code).kind = "status"
        BY ItemType DEF Status
      <3>4. Marks(t, "status") = {Len(s.wire) + 1} /\ Marks(t, "body") = {}
        BY <3>1, <3>2, <3>3, AppendMarks
      <3> QED
        BY <3>1, <3>4 DEF HeaderInv
    <2>3. CASE ~s.written /\ ~up
      <3>1. t.wire = s.wire /\ t.written
        BY <2>3 DEF RWWriteHeader, RW
      <3> QED
        BY <2>3, <3>1 DEF HeaderInv, Marks
    <2> QED
      BY <2>1, <2>2, <2>3
  <1> QED
    BY <1>1 DEF WriteHeader, StdWriteHeader

\* So does Write: the body goes out after the status line it waits for.
LEMMA WriteKeeps ==
  ASSUME NEW s \in RW, NEW up \in BOOLEAN, NEW data \in Seq(Chunk),
         HeaderInv(s, up)
  PROVE  HeaderInv(Write(s, up, data), up)
  <1> DEFINE t == WriteHeader(s, up, s.status)
             b == [t EXCEPT !.wire = Append(@, Body(data))]
  <1>1. CASE s.hijacked
    BY <1>1 DEF Write
  <1>2. CASE ~s.hijacked
    <2>1. t \in RW /\ HeaderInv(t, up) /\ t.written
      BY <1>2, WriteHeaderType, WriteHeaderKeeps DEF RW
    <2> HIDE DEF t
    <2>2. CASE up /\ ~t.failed
      <3>1. Append(t.wire, Body(data)) \in Seq(Item)
        BY <2>1, ItemType DEF RW
      <3>2. /\ b \in RW /\ b.wire = Append(t.wire, Body(data))
            /\ b.written = t.written
        BY <2>1, <3>1 DEF RW
      <3>3. Body(data) \in Item /\ Body(data).kind = "body"
        BY ItemType DEF Body
      <3> HIDE DEF b
      <3>4. /\ Marks(b, "status") = Marks(t, "status")
            /\ Marks(b, "body") = Marks(t, "body") \cup {Len(t.wire) + 1}
        <4>1. \A kind : Marks(b, kind) = Marks(t, kind)
                \cup {i \in {Len(t.wire) + 1} : Body(data).kind = kind}
          BY <2>1, <3>2, <3>3, AppendMarks
        <4> QED
          BY <3>3, <4>1
      <3>5. PICK i \in Marks(t, "status") : TRUE
        BY <2>1, <2>2 DEF HeaderInv
      <3>6. i < Len(t.wire) + 1
        BY <2>1, <3>5 DEF Marks, RW
      <3>7. HeaderInv(b, up)
        BY <2>1, <3>2, <3>4, <3>5, <3>6 DEF HeaderInv
      <3> QED
        BY <1>2, <2>2, <3>7 DEF Write, t, b
    <2>3. CASE ~(up /\ ~t.failed)
      <3> DEFINE f == [t EXCEPT !.failed = TRUE]
      <3>1. f.wire = t.wire /\ f.written = t.written
        BY <2>1 DEF RW
      <3>2. HeaderInv(f, up)
        BY <2>1, <3>1 DEF HeaderInv, Marks
      <3> QED
        BY <1>2, <2>3, <3>2 DEF Write, t
    <2> QED
      BY <2>2, <2>3
  <1> QED
    BY <1>1, <1>2

\* So does a whole reply: the ErrorHandler's, a flushed writer's.
LEMMA ReplyKeeps ==
  ASSUME NEW s \in RW, NEW up \in BOOLEAN, NEW code \in Codes,
         NEW data \in Seq(Chunk), HeaderInv(s, up)
  PROVE  HeaderInv(Reply(s, up, code, data), up)
  BY WriteHeaderType, WriteHeaderKeeps, WriteKeeps DEF Reply

\* A step that leaves the writers alone, and can only lose the peer.
LEMMA QuietKeeps ==
  ASSUME IInv, UNCHANGED rw, \A c \in Conns : Up(c)' => Up(c)
  PROVE  \A c \in Conns : HeaderInv(rw[c], Up(c))'
  BY DEF IInv, HeaderInv

\* A step that changes the writer of one connection.
LEMMA OneKeeps ==
  ASSUME IInv, NEW c \in Conns, UNCHANGED net, NEW s,
         rw' = [rw EXCEPT ![c] = s], HeaderInv(s, Up(c))
  PROVE  \A d \in Conns : HeaderInv(rw[d], Up(d))'
  <1>1. \A d \in Conns : Up(d)' = Up(d)
    BY DEF net, Up
  <1>2. \A d \in Conns : rw'[d] = IF d = c THEN s ELSE rw[d]
    BY DEF IInv, TypeOK
  <1> QED
    BY <1>1, <1>2 DEF IInv, HeaderInv

\* Writing through whichever writer the running code holds.
LEMMA PutKeeps ==
  ASSUME IInv, NEW c \in Conns, UNCHANGED net, NEW w, NEW code \in Codes,
         NEW data \in Seq(Chunk),
         PutReply(c, w, code, data) \/ PutWrite(c, w, data)
  PROVE  \A d \in Conns : HeaderInv(rw[d], Up(d))'
  <1>1. rw[c] \in RW /\ Up(c) \in BOOLEAN /\ HeaderInv(rw[c], Up(c))
    BY DEF IInv, TypeOK, Up
  <1>2. /\ HeaderInv(Reply(rw[c], Up(c), code, data), Up(c))
        /\ HeaderInv(Write(rw[c], Up(c), data), Up(c))
    BY <1>1, ReplyKeeps, WriteKeeps
  <1>3. CASE w = 0
    BY <1>2, <1>3, OneKeeps DEF PutReply, PutWrite
  <1>4. CASE w # 0
    <2>1. UNCHANGED rw /\ \A d \in Conns : Up(d)' => Up(d)
      BY <1>4 DEF PutReply, PutWrite, net, Up
    <2> QED
      BY <2>1, QuietKeeps
  <1> QED
    BY <1>3, <1>4

\* No connection carries anything at first.
LEMMA InvInit == Init => IInv
  <1> SUFFICES ASSUME Init PROVE IInv
    OBVIOUS
  <1>1. \A c \in Conns : rw[c] = NewRW
    BY DEF Init
  <1>2. NewRW.wire = <<>> /\ ~NewRW.written
    BY DEF NewRW
  <1>3. \A kind : Marks(NewRW, kind) = {}
    BY <1>2 DEF Marks
  <1> QED
    BY <1>1, <1>2, <1>3, TypeInit DEF IInv, HeaderInv

\* Every step of every connection keeps the writers and their bytes agreed.
LEMMA InvStep == IInv /\ [Next]_vars => IInv'
  <1> SUFFICES ASSUME IInv, [Next]_vars
               PROVE  \A d \in Conns : HeaderInv(rw[d], Up(d))'
    BY TypeStep DEF IInv
  <1>0. TypeOK /\ \A c \in Conns : HeaderInv(rw[c], Up(c)) /\ rw[c] \in RW
                                     /\ Up(c) \in BOOLEAN
    BY DEF IInv, TypeOK, Up
  <1>Quiet. ASSUME NEW c \in Conns,
                   \/ Accept(c) \/ Peer(c) \/ ReadRequest(c)
                   \/ ReadFails(c) \/ PassThrough(c) \/ RejectValidation(c)
                   \/ EnterMetrics(c) \/ CacheMiss(c) \/ HandlerPanic(c)
                   \/ HandlerReturn(c) \/ ExitPlain(c) \/ ExitMetrics(c)
                   \/ Unwind(c) \/ Flush(c) \/ Close(c) \/ Report(c)
            PROVE  \A d \in Conns : HeaderInv(rw[d], Up(d))'
    <2>1. CASE Peer(c)
      BY <1>0, <2>1, QuietKeeps DEF Peer, PeerStalls, PeerReads,
         PeerLeaves, Up, TypeOK
    <2>2. CASE Close(c)
      BY <1>0, <2>2, QuietKeeps DEF Close, Up, TypeOK
    <2>3. CASE UNCHANGED <<rw, net>>
      BY <2>3, QuietKeeps DEF net, Up
    <2>4. \/ Peer(c) \/ Close(c) \/ UNCHANGED <<rw, net>>
      BY <1>Quiet DEF Accept, ReadRequest, ReadFails, PassThrough,
         RejectValidation, EnterMetrics, CacheMiss, HandlerPanic,
         HandlerReturn, ExitPlain, ExitMetrics, Unwind, Flush, Report
    <2> QED
      BY <2>1, <2>2, <2>3, <2>4
  <1>RejectCORS. ASSUME NEW c \in Conns, RejectCORS(c)
                 PROVE  \A d \in Conns : HeaderInv(rw[d], Up(d))'
    <2>1. /\ \E code \in Codes : PutReply(c, cur[c], code, <<>>)
          /\ UNCHANGED net /\ <<>> \in Seq(Chunk)
      BY <1>RejectCORS DEF RejectCORS, Codes
    <2> QED
      BY <2>1, PutKeeps
  <1>RejectRateLimit. ASSUME NEW c \in Conns, RejectRateLimit(c)
                      PROVE  \A d \in Conns : HeaderInv(rw[d], Up(d))'
    <2>1. 429 \in Codes /\ <<Refusal>> \in Seq(Chunk)
      BY ChunkType DEF Codes
    <2> QED
      BY <1>RejectRateLimit, <2>1, PutKeeps DEF RejectRateLimit
  <1>CacheHit. ASSUME NEW c \in Conns, CacheHit(c)
               PROVE  \A d \in Conns : HeaderInv(rw[d], Up(d))'
    <2>1. 200 \in Codes /\ cache \in Seq(Chunk)
      BY <1>0 DEF Codes, HandlerCodes, TypeOK
    <2> QED
      BY <1>CacheHit, <2>1, PutKeeps DEF CacheHit
  <1>HandlerWriteHeader. ASSUME NEW c \in Conns, HandlerWriteHeader(c)
                         PROVE  \A d \in Conns : HeaderInv(rw[d], Up(d))'
    <2>1. /\ \E code \in Codes : PutReply(c, cur[c], code, <<>>)
          /\ UNCHANGED net /\ <<>> \in Seq(Chunk)
      BY <1>HandlerWriteHeader DEF HandlerWriteHeader, Codes
    <2> QED
      BY <2>1, PutKeeps
  <1>HandlerWrite. ASSUME NEW c \in Conns, HandlerWrite(c)
                   PROVE  \A d \in Conns : HeaderInv(rw[d], Up(d))'
    <2>1. 200 \in Codes /\ <<Piece(ops[c] + 1)>> \in Seq(Chunk)
      BY <1>0, <1>HandlerWrite, PieceType DEF HandlerWrite, Codes, HandlerCodes
    <2> QED
      BY <1>HandlerWrite, <2>1, PutKeeps DEF HandlerWrite
  <1>HandlerHijack. ASSUME NEW c \in Conns, HandlerHijack(c)
                    PROVE  \A d \in Conns : HeaderInv(rw[d], Up(d))'
    <2> DEFINE s == [rw[c] EXCEPT !.hijacked = TRUE]
    <2>1. s.wire = rw[c].wire /\ s.written = rw[c].written
      BY <1>0 DEF RW
    <2>2. HeaderInv(s, Up(c))
      BY <1>0, <2>1 DEF HeaderInv, Marks
    <2> QED
      BY <1>HandlerHijack, <2>2, OneKeeps DEF HandlerHijack
  <1>HandlerRaw. ASSUME NEW c \in Conns, HandlerRaw(c)
                 PROVE  \A d \in Conns : HeaderInv(rw[d], Up(d))'
    <2>1. CASE Up(c)
      <3> DEFINE s == [rw[c] EXCEPT !.wire = Append(@, Raw)]
      <3>1. s \in RW /\ Raw \in Item /\ Raw.kind = "raw"
        BY <1>0, FieldType, ItemType DEF Raw
      <3>2. s.wire = Append(rw[c].wire, Raw) /\ s.written = rw[c].written
        BY <1>0 DEF RW
      <3>3. rw' = [rw EXCEPT ![c] = s] /\ UNCHANGED net
        BY <1>HandlerRaw, <2>1 DEF HandlerRaw
      <3> HIDE DEF s
      <3>4. \A kind : Marks(s, kind) = Marks(rw[c], kind)
              \cup {i \in {Len(rw[c].wire) + 1} : Raw.kind = kind}
        BY <1>0, <3>1, <3>2, AppendMarks
      <3>5. /\ Marks(s, "status") = Marks(rw[c], "status")
            /\ Marks(s, "body") = Marks(rw[c], "body")
        BY <3>1, <3>4
      <3>6. HeaderInv(s, Up(c))
        BY <1>0, <3>2, <3>5 DEF HeaderInv
      <3> QED
        BY <3>3, <3>6, OneKeeps
    <2>2. CASE ~Up(c)
      <3>1. UNCHANGED <<rw, net>>
        BY <1>0, <1>HandlerRaw, <2>2 DEF HandlerRaw, TypeOK, RW
      <3> QED
        BY <3>1, QuietKeeps DEF net, Up
    <2> QED
      BY <2>1, <2>2
  <1>ExitCache. ASSUME NEW c \in Conns, ExitCache(c)
                PROVE  \A d \in Conns : HeaderInv(rw[d], Up(d))'
    <2> DEFINE f == frame[c][depth[c]]
    <2>1. depth[c] \in 1..N
      BY <1>0, <1>ExitCache, ChainSteps DEF ExitCache
    <2>2. f.status \in Codes /\ f.body \in Seq(Chunk)
      BY <1>0, <2>1 DEF TypeOK, Frame
    <2> QED
      BY <1>ExitCache, <2>2, PutKeeps DEF ExitCache
  <1>Recover. ASSUME NEW c \in Conns, Recover(c)
              PROVE  \A d \in Conns : HeaderInv(rw[d], Up(d))'
    <2> DEFINE s == Reply(rw[c], Up(c), ErrorCode(pv[c]), <<ErrorText>>)
    <2>1. ErrorCode(pv[c]) \in Codes /\ <<ErrorText>> \in Seq(Chunk)
      BY ChunkType DEF ErrorCode, Codes
    <2>2. HeaderInv(s, Up(c))
      BY <1>0, <2>1, ReplyKeeps
    <2> HIDE DEF s
    <2>3. UNCHANGED net /\ (UNCHANGED rw \/ rw' = [rw EXCEPT ![c] = s])
      BY <1>Recover DEF Recover, s
    <2>4. CASE UNCHANGED rw
      BY <2>3, <2>4, QuietKeeps DEF net, Up
    <2>5. CASE rw' = [rw EXCEPT ![c] = s]
      BY <2>2, <2>3, <2>5, OneKeeps
    <2> QED
      BY <2>3, <2>4, <2>5
  <1>StdFinish. ASSUME NEW c \in Conns, StdFinish(c)
                PROVE  \A d \in Conns : HeaderInv(rw[d], Up(d))'
    <2>1. 200 \in Codes /\ <<>> \in Seq(Chunk)
      BY DEF Codes, HandlerCodes
    <2>2. HeaderInv(Reply(rw[c], Up(c), 200, <<>>), Up(c))
      BY <1>0, <2>1, ReplyKeeps
    <2> QED
      BY <1>StdFinish, <2>2, OneKeeps DEF StdFinish
  <1>Rest. CASE ListenerFails \/ CacheExpires \/ UNCHANGED vars
    <2>1. UNCHANGED <<rw, net>>
      BY <1>Rest DEF ListenerFails, CacheExpires, vars
    <2> QED
      BY <2>1, QuietKeeps DEF net, Up
  <1> QED
    BY <1>Quiet, <1>RejectCORS, <1>RejectRateLimit, <1>CacheHit,
       <1>HandlerWriteHeader, <1>HandlerWrite, <1>HandlerHijack,
       <1>HandlerRaw, <1>ExitCache, <1>Recover, <1>StdFinish, <1>Rest
    DEF Next, Serve, Middleware, Handler, Quiet

\* On no connection do the handler, the middleware, a flushed
\* CustomResponseWriter, the ErrorHandler or net/http send a second status
\* line, or a body before the first, in whatever order a panic, a rejection
\* and the peer's leaving make them write.
THEOREM OneHeader == Spec => []WellFormed
  <1>1. IInv => WellFormed
    BY DEF IInv, HeaderInv, Marks, WellFormed, Sent
  <1> QED
    BY <1>1, InvInit, InvStep, PTL DEF Spec

=============================================================================
