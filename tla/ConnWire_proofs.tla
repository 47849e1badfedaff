---------------------------- MODULE ConnWire_proofs ----------------------------
(***************************************************************************)
(* Theorems about what the peer of a connection of Connection receives, for *)
(* every set of connections, framework and chain: the ErrorHandler's text,  *)
(* the handler's status, and no body behind a hijacker's back.               *)
(***************************************************************************)
EXTENDS ConnFlow_proofs

\* A call on the writer of a connection is its change of rw.
USE DEF Sends

-----------------------------------------------------------------------------
(* The writer of a connection, before the connection is closed. *)

Live(c) == peer[c] # "gone"

\* What the steps of a connection do to its writer: the writer after t, from
\* the writer before s, with the other end there or not.
Touches(s, up, t) ==
  \/ \E code \in Codes, data \in Seq(Chunk) : t = Reply(s, up, code, data)
  \/ \E data \in Seq(Chunk) : t = Write(s, up, data)
  \/ CanHijack(s) /\ t = [s EXCEPT !.hijacked = TRUE]
  \/ s.hijacked /\ t = [s EXCEPT !.wire = IF up THEN Append(@, Raw) ELSE @]

\* A write fails only when the peer is gone, RW.WriteHeader alone changes the
\* status, and HeaderInv holds as long as the peer is there, closed or not.
Sound(s, up) ==
  /\ HeaderInv(s, up)
  /\ up => ~s.failed
  /\ ~s.written => s.status = 200

WireInv == FlowInv /\ \A c \in Conns : Sound(rw[c], Live(c))

\* A goroutine that has not closed its connection writes to a live peer.
LEMMA OpenLive ==
  ASSUME FlowInv, NEW c \in Conns, pc[c] \in Before
  PROVE  Up(c) = Live(c) /\ Live(c) \in BOOLEAN
  BY DEF FlowInv, TypeOK, Flow, Up, Live

\* Writing through whichever writer the running code holds, seen from the RW.
LEMMA PutTouches ==
  ASSUME FlowInv, NEW c \in Conns, pc[c] \in Before, NEW w, NEW code \in Codes,
         NEW data \in Seq(Chunk),
         PutReply(c, w, code, data) \/ PutWrite(c, w, data)
  PROVE  \/ UNCHANGED rw
         \/ \E t : rw' = [rw EXCEPT ![c] = t] /\ Touches(rw[c], Live(c), t)
  <1>1. Up(c) = Live(c)
    BY OpenLive
  <1> QED
    BY <1>1 DEF PutReply, PutWrite, Touches

\* Every step leaves every writer alone, or touches the one of a connection
\* that is not closed, whose peer stays as it is.
LEMMA WriterSteps ==
  ASSUME FlowInv, [Next]_vars
  PROVE  \/ UNCHANGED rw
         \/ \E c \in Conns : \E t :
              /\ pc[c] \in Before \ {"idle", "read"} /\ UNCHANGED net
              /\ rw' = [rw EXCEPT ![c] = t] /\ Touches(rw[c], Live(c), t)
  <1> DEFINE Goal == \E c \in Conns : \E t :
              /\ pc[c] \in Before \ {"idle", "read"} /\ UNCHANGED net
              /\ rw' = [rw EXCEPT ![c] = t] /\ Touches(rw[c], Live(c), t)
  <1> USE DEF sys, net, mw, shr, hist
  <1>0. /\ 429 \in Codes /\ 200 \in Codes /\ HandlerCodes \subseteq Codes
        /\ {403, 204} \subseteq Codes /\ \A v : ErrorCode(v) \in Codes
        /\ <<>> \in Seq(Chunk) /\ <<Refusal>> \in Seq(Chunk)
        /\ <<ErrorText>> \in Seq(Chunk) /\ cache \in Seq(Chunk)
    BY ChunkType DEF FlowInv, TypeOK, Codes, HandlerCodes, ErrorCode
  <1>Put. ASSUME NEW c \in Conns, pc[c] \in Before \ {"idle", "read"},
                 UNCHANGED net, NEW w, NEW code \in Codes,
                 NEW data \in Seq(Chunk),
                 PutReply(c, w, code, data) \/ PutWrite(c, w, data)
          PROVE  UNCHANGED rw \/ Goal
    BY <1>Put, PutTouches
  <1>Turn. ASSUME NEW c \in Conns,
                  RejectCORS(c) \/ RejectRateLimit(c) \/ CacheHit(c)
           PROVE  UNCHANGED rw \/ Goal
    <2>1. pc[c] \in Before \ {"idle", "read"} /\ UNCHANGED net
      BY <1>Turn DEF RejectCORS, RejectRateLimit, CacheHit, At, Before
    <2>2. \E code \in Codes, data \in Seq(Chunk) :
            PutReply(c, cur[c], code, data)
      BY <1>Turn, <1>0 DEF RejectCORS, RejectRateLimit, CacheHit
    <2> HIDE DEF Goal
    <2> QED
      BY <2>1, <2>2, <1>Put
  <1>Handler. ASSUME NEW c \in Conns, HandlerWriteHeader(c) \/ HandlerWrite(c)
              PROVE  UNCHANGED rw \/ Goal
    <2>1. pc[c] \in Before \ {"idle", "read"} /\ UNCHANGED net
      BY <1>Handler DEF HandlerWriteHeader, HandlerWrite, Runs, Before
    <2>2. \E code \in Codes, data \in Seq(Chunk) :
            PutReply(c, cur[c], code, data) \/ PutWrite(c, cur[c], data)
      BY <1>Handler, <1>0, PieceType DEF HandlerWriteHeader, HandlerWrite, FlowInv
    <2> HIDE DEF Goal
    <2> QED
      BY <2>1, <2>2, <1>Put
  <1>Hijacker. ASSUME NEW c \in Conns, HandlerHijack(c) \/ HandlerRaw(c)
               PROVE  Goal
    <2>1. /\ pc[c] \in Before \ {"idle", "read"} /\ UNCHANGED net
          /\ Up(c) = Live(c)
      BY <1>Hijacker, OpenLive DEF HandlerHijack, HandlerRaw, Runs, Before
    <2>2. CASE HandlerHijack(c)
      <3> DEFINE t == [rw[c] EXCEPT !.hijacked = TRUE]
      <3>1. rw' = [rw EXCEPT ![c] = t] /\ Touches(rw[c], Live(c), t)
        BY <2>2 DEF HandlerHijack, Touches
      <3> QED
        BY <2>1, <3>1
    <2>3. CASE HandlerRaw(c)
      <3> DEFINE t == [rw[c] EXCEPT !.wire =
                         IF Live(c) THEN Append(@, Raw) ELSE @]
      <3>1. rw' = [rw EXCEPT ![c] = t] /\ Touches(rw[c], Live(c), t)
        BY <2>1, <2>3 DEF HandlerRaw, Touches
      <3> QED
        BY <2>1, <3>1
    <2> QED
      BY <1>Hijacker, <2>2, <2>3
  <1>ExitCache. ASSUME NEW c \in Conns, ExitCache(c) PROVE UNCHANGED rw \/ Goal
    <2> DEFINE f == frame[c][depth[c]]
    <2>1. depth[c] \in 1..N
      BY <1>ExitCache, ChainSteps DEF ExitCache, FlowInv
    <2>2. f.status \in Codes /\ f.body \in Seq(Chunk)
      BY <2>1 DEF FlowInv, TypeOK, Frame
    <2>3. pc[c] \in Before \ {"idle", "read"} /\ UNCHANGED net
      BY <1>ExitCache DEF ExitCache, Leaving, Before
    <2> HIDE DEF Goal
    <2> QED
      BY <1>ExitCache, <2>2, <2>3, <1>Put DEF ExitCache
  <1>End. ASSUME NEW c \in Conns, Recover(c) \/ StdFinish(c)
          PROVE  UNCHANGED rw \/ Goal
    <2>1. /\ pc[c] \in Before \ {"idle", "read"} /\ UNCHANGED net
          /\ Up(c) = Live(c)
      BY <1>End, OpenLive DEF Recover, StdFinish, Before
    <2>2. UNCHANGED rw \/
            \E code \in Codes, data \in Seq(Chunk) :
              rw' = [rw EXCEPT ![c] = Reply(rw[c], Live(c), code, data)]
      <3>1. CASE Recover(c)
        <4>1. ErrorCode(pv[c]) \in Codes /\ <<ErrorText>> \in Seq(Chunk)
          BY <1>0
        <4>2. \/ UNCHANGED rw
              \/ rw' = [rw EXCEPT ![c] = Reply(rw[c], Live(c), ErrorCode(pv[c]),
                                               <<ErrorText>>)]
          BY <2>1, <3>1 DEF Recover
        <4> QED
          BY <4>1, <4>2
      <3>2. CASE StdFinish(c)
        <4>1. rw' = [rw EXCEPT ![c] = Reply(rw[c], Live(c), 200, <<>>)]
          BY <2>1, <3>2 DEF StdFinish
        <4> QED
          BY <1>0, <4>1
      <3> QED
        BY <1>End, <3>1, <3>2
    <2> QED
      BY <2>1, <2>2 DEF Touches
  <1>Rest. CASE UNCHANGED rw
    BY <1>Rest
  <1> HIDE DEF Goal
  <1>1. UNCHANGED rw \/ Goal
    BY <1>Turn, <1>Handler, <1>Hijacker, <1>ExitCache, <1>End, <1>Rest
    DEF Next, Serve, Middleware, Handler, Quiet, vars,
        Accept, Peer, PeerStalls, PeerReads, PeerLeaves, ReadRequest,
        ReadFails, PassThrough,
        RejectValidation, EnterMetrics, CacheMiss, HandlerPanic,
        HandlerReturn, ExitPlain, ExitMetrics, Unwind, Flush, Close, Report,
        ListenerFails, CacheExpires
  <1> QED
    BY <1>1 DEF Goal

\* RW.WriteHeader keeps a writer sound, and its wire when it was written.
LEMMA WriteHeaderSound ==
  ASSUME NEW s \in RW, NEW up \in BOOLEAN, NEW code \in Codes, Sound(s, up)
  PROVE  LET t == WriteHeader(s, up, code) IN
         /\ t \in RW /\ Sound(t, up)
         /\ t.hijacked = s.hijacked /\ t.failed = s.failed
         /\ s.written => t = s
         /\ ~s.hijacked => t.written
  <1> DEFINE t == WriteHeader(s, up, code)
             r == RWWriteHeader(s, up, code)
  <1>1. t \in RW /\ HeaderInv(t, up) /\ (~s.hijacked => t.written)
    BY WriteHeaderType, WriteHeaderKeeps DEF Sound
  <1>2. /\ r.hijacked = s.hijacked /\ r.failed = s.failed /\ r.written
        /\ s.written => r = s
    BY DEF RWWriteHeader, RW
  <1>3. t = s \/ t = r
    BY DEF WriteHeader, StdWriteHeader
  <1> HIDE DEF t, r
  <1>4. Sound(t, up)
    BY <1>1, <1>2, <1>3 DEF Sound
  <1>5. t.hijacked = s.hijacked /\ t.failed = s.failed /\ (s.written => t = s)
    BY <1>2, <1>3
  <1> QED
    BY <1>1, <1>4, <1>5 DEF t

\* RW.Write keeps a writer sound, and puts its data last when a peer is there.
LEMMA WriteSound ==
  ASSUME NEW s \in RW, NEW up \in BOOLEAN, NEW data \in Seq(Chunk), Sound(s, up)
  PROVE  LET u == Write(s, up, data)
             t == WriteHeader(s, up, s.status)
         IN  /\ u \in RW /\ Sound(u, up) /\ u.hijacked = s.hijacked
             /\ ~s.hijacked => u.written
             /\ ~s.hijacked /\ up => u.wire = Append(t.wire, Body(data))
             /\ ~s.hijacked /\ ~up => u.wire = t.wire
             /\ s.hijacked => u = s
  <1> DEFINE u == Write(s, up, data)
             t == WriteHeader(s, up, s.status)
  <1>1. u \in RW /\ HeaderInv(u, up)
    BY WriteType, WriteKeeps DEF Sound
  <1>2. CASE s.hijacked
    BY <1>1, <1>2 DEF Write
  <1>3. CASE ~s.hijacked
    <2>1. s.status \in Codes
      BY DEF RW
    <2>2. /\ t \in RW /\ Sound(t, up) /\ t.hijacked = s.hijacked
          /\ t.written
      BY <1>3, <2>1, WriteHeaderSound
    <2>3. u = IF up /\ ~t.failed
              THEN [t EXCEPT !.wire = Append(@, Body(data))]
              ELSE [t EXCEPT !.failed = TRUE]
      BY <1>3 DEF Write
    <2> HIDE DEF u, t
    <2>4. up => ~t.failed
      BY <2>2 DEF Sound
    <2>5. /\ u.hijacked = t.hijacked /\ u.written = t.written
          /\ u.status = t.status
          /\ up => u.wire = Append(t.wire, Body(data)) /\ ~u.failed
          /\ ~up => u.wire = t.wire
      BY <2>2, <2>3, <2>4 DEF RW
    <2>6. Sound(u, up)
      BY <1>1, <2>2, <2>5 DEF Sound, u
    <2> QED
      BY <1>1, <1>3, <2>2, <2>5, <2>6 DEF u, t
  <1> QED
    BY <1>2, <1>3

\* So does a whole reply.
LEMMA ReplySound ==
  ASSUME NEW s \in RW, NEW up \in BOOLEAN, NEW code \in Codes,
         NEW data \in Seq(Chunk), Sound(s, up)
  PROVE  LET u == Reply(s, up, code, data) IN
         /\ u \in RW /\ Sound(u, up) /\ u.hijacked = s.hijacked
         /\ ~s.hijacked => u.written
  <1> DEFINE t == WriteHeader(s, up, code)
             u == Reply(s, up, code, data)
  <1>1. /\ t \in RW /\ Sound(t, up) /\ t.hijacked = s.hijacked
        /\ ~s.hijacked => t.written
    BY WriteHeaderSound
  <1>2. u = t \/ u = Write(t, up, data)
    BY DEF Reply
  <1> HIDE DEF t, u
  <1>3. CASE u = t
    BY <1>1, <1>3 DEF u
  <1>4. CASE u = Write(t, up, data)
    BY <1>1, <1>4, WriteSound DEF u
  <1> QED
    BY <1>2, <1>3, <1>4

\* What a reply says is the last thing a live peer hears.
LEMMA ReplyEnds ==
  ASSUME NEW s \in RW, NEW code \in Codes, NEW data \in Seq(Chunk),
         Sound(s, TRUE), ~s.hijacked, data # <<>>
  PROVE  LET u == Reply(s, TRUE, code, data) IN
         u.wire # <<>> /\ u.wire[Len(u.wire)] = Body(data)
  <1> DEFINE t == WriteHeader(s, TRUE, code)
             u == Reply(s, TRUE, code, data)
             h == WriteHeader(t, TRUE, t.status)
  <1>1. t \in RW /\ Sound(t, TRUE) /\ ~t.hijacked
    BY WriteHeaderSound
  <1>2. u = Write(t, TRUE, data)
    BY DEF Reply
  <1> HIDE DEF t
  <1>3. h \in RW
    BY <1>1, WriteHeaderSound DEF RW
  <1>4. u.wire = Append(h.wire, Body(data))
    BY <1>1, <1>2, WriteSound
  <1> HIDE DEF u, h
  <1>5. h.wire \in Seq(Item) /\ Body(data) \in Item
    BY <1>3, ItemType DEF RW
  <1>6. u.wire # <<>> /\ u.wire[Len(u.wire)] = Body(data)
    BY <1>4, <1>5
  <1> QED
    BY <1>6 DEF u

\* The ErrorHandler's reply.
LEMMA ErrorSaid ==
  ASSUME NEW s \in RW, Sound(s, TRUE), NEW v
  PROVE  LET t == Reply(s, TRUE, ErrorCode(v), <<ErrorText>>) IN
         /\ t.hijacked = s.hijacked
         /\ ~s.hijacked => t.wire # <<>>
                           /\ t.wire[Len(t.wire)] = Body(<<ErrorText>>)
  <1>1. /\ ErrorCode(v) \in Codes /\ <<ErrorText>> \in Seq(Chunk)
        /\ <<ErrorText>> # <<>>
    BY ChunkType DEF ErrorCode, Codes
  <1> QED
    BY <1>1, ReplySound, ReplyEnds

\* Whatever touches a writer keeps it sound.
LEMMA TouchSound ==
  ASSUME NEW s \in RW, NEW up \in BOOLEAN, Sound(s, up), NEW t, Touches(s, up, t)
  PROVE  t \in RW /\ Sound(t, up) /\ (s.hijacked => t.hijacked)
  <1>0. ASSUME NEW code \in Codes, NEW data \in Seq(Chunk),
               t = Reply(s, up, code, data)
        PROVE  t \in RW /\ Sound(t, up) /\ (s.hijacked => t.hijacked)
    BY <1>0, ReplySound
  <1>1. ASSUME NEW data \in Seq(Chunk), t = Write(s, up, data)
        PROVE  t \in RW /\ Sound(t, up) /\ (s.hijacked => t.hijacked)
    BY <1>1, WriteSound
  <1>2. CASE t = [s EXCEPT !.hijacked = TRUE]
    <2>1. /\ t \in RW /\ t.wire = s.wire /\ t.written = s.written
          /\ t.failed = s.failed /\ t.status = s.status /\ t.hijacked
      BY <1>2 DEF RW
    <2> QED
      BY <2>1 DEF Sound, HeaderInv, Marks
  <1>3. CASE t = [s EXCEPT !.wire = IF up THEN Append(@, Raw) ELSE @]
    <2>1. /\ t \in RW /\ t.written = s.written /\ t.hijacked = s.hijacked
          /\ t.failed = s.failed /\ t.status = s.status
          /\ t.wire = IF up THEN Append(s.wire, Raw) ELSE s.wire
      BY <1>3, FieldType DEF RW
    <2>2. /\ Marks(t, "status") = Marks(s, "status")
          /\ Marks(t, "body") = Marks(s, "body")
      <3>1. Raw \in Item /\ Raw.kind = "raw"
        BY ItemType DEF Raw
      <3>2. CASE up
        <4>1. \A kind : Marks(t, kind) = Marks(s, kind)
                \cup {i \in {Len(s.wire) + 1} : Raw.kind = kind}
          BY <2>1, <3>1, <3>2, AppendMarks
        <4> QED
          BY <3>1, <4>1
      <3>3. CASE ~up
        BY <2>1, <3>3 DEF Marks
      <3> QED
        BY <3>2, <3>3
    <2> QED
      BY <2>1, <2>2 DEF Sound, HeaderInv
  <1> QED
    BY <1>0, <1>1, <1>2, <1>3 DEF Touches

\* There is nothing on the wire at first.
LEMMA WireInit == Init => WireInv
  <1> SUFFICES ASSUME Init PROVE \A c \in Conns : Sound(rw[c], Live(c))
    BY FlowInit DEF WireInv
  <1>1. \A c \in Conns : rw[c] = NewRW
    BY DEF Init
  <1>2. /\ NewRW.wire = <<>> /\ ~NewRW.written /\ ~NewRW.failed
        /\ NewRW.status = 200
    BY DEF NewRW
  <1>3. \A kind : Marks(NewRW, kind) = {}
    BY <1>2 DEF Marks
  <1> QED
    BY <1>1, <1>2, <1>3 DEF Sound, HeaderInv

\* Every step keeps what the wire has in line with the place in the chain.
LEMMA WireStep == WireInv /\ [Next]_vars => WireInv'
  <1> SUFFICES ASSUME WireInv, [Next]_vars, NEW d \in Conns
               PROVE  Sound(rw[d], Live(d))'
    BY FlowStep DEF WireInv
  <1>1. /\ FlowInv /\ rw \in [Conns -> RW] /\ Sound(rw[d], Live(d))
        /\ Live(d) \in BOOLEAN
    BY DEF WireInv, FlowInv, TypeOK, Live
  <1>2. Live(d)' => Live(d)
    <2>1. ASSUME NEW c \in Conns, Peer(c) PROVE Live(d)' => Live(d)
      BY <1>1, <2>1
      DEF Live, FlowInv, TypeOK, Peer, PeerStalls, PeerReads, PeerLeaves
    <2>2. CASE UNCHANGED peer
      BY <2>2 DEF Live
    <2>3. ASSUME NEW c \in Conns, Middleware(c) \/ Handler(c)
          PROVE  UNCHANGED peer
      BY <2>3
      DEF net, Middleware, Handler, PassThrough, RejectCORS, RejectRateLimit,
          RejectValidation, EnterMetrics, CacheMiss, CacheHit,
          HandlerWriteHeader, HandlerWrite, HandlerHijack, HandlerRaw,
          HandlerPanic, HandlerReturn, ExitPlain, ExitMetrics, ExitCache
    <2>4. ASSUME NEW c \in Conns, Serve(c)
          PROVE  UNCHANGED peer
      BY <2>3, <2>4
      DEF net, Serve, ReadRequest, ReadFails, Unwind, Recover, Flush,
          StdFinish, Close, Report
    <2>5. ASSUME NEW c \in Conns, Accept(c)
          PROVE  UNCHANGED peer
      BY <2>5 DEF net, Accept
    <2>6. CASE ListenerFails \/ CacheExpires \/ UNCHANGED vars
      BY <2>2, <2>6 DEF net, vars, ListenerFails, CacheExpires
    <2> QED
      BY <2>1, <2>2, <2>4, <2>5, <2>6 DEF Next, Quiet
  <1>3. CASE rw'[d] = rw[d]
    BY <1>1, <1>2, <1>3 DEF Sound, HeaderInv
  <1>4. CASE Touches(rw[d], Live(d), rw'[d]) /\ Live(d)' = Live(d)
    <2>1. Sound(rw'[d], Live(d))
      BY <1>1, <1>4, TouchSound
    <2> QED
      BY <1>4, <2>1 DEF Sound
  <1>5. rw'[d] = rw[d] \/ (Touches(rw[d], Live(d), rw'[d]) /\ Live(d)' = Live(d))
    <2>1. CASE UNCHANGED rw
      BY <2>1
    <2>2. ASSUME NEW c \in Conns, NEW t, UNCHANGED net,
                 rw' = [rw EXCEPT ![c] = t], Touches(rw[c], Live(c), t)
          PROVE  rw'[d] = rw[d] \/
                   (Touches(rw[d], Live(d), rw'[d]) /\ Live(d)' = Live(d))
      BY <1>1, <2>2 DEF net, Live
    <2> QED
      BY <1>1, <2>1, <2>2, WriterSteps
  <1> QED
    BY <1>3, <1>4, <1>5

\* The wire is in line in every state.
LEMMA WireCorrect == Spec => []WireInv
  BY WireInit, WireStep, PTL DEF Spec

-----------------------------------------------------------------------------
(* What the peer is told. *)

\* A recovered panic's text is the last thing a peer that stays receives.
Told(c) ==
  /\ outcome[c] = "panicked" /\ Live(c) /\ ~rw[c].hijacked
  /\ Recovers /\ onError # "none"
  => /\ rw[c].wire # <<>>
     /\ rw[c].wire[Len(rw[c].wire)] = Body(<<ErrorText>>)

ToldInv == WireInv /\ \A c \in Conns : Told(c)

\* onError is fixed, and nothing but Recover ends an exchange in a panic.
LEMMA PanicSteps ==
  ASSUME FlowInv, [Next]_vars, NEW d \in Conns, ~Recover(d)
  PROVE  /\ onError' = onError /\ (Live(d)' => Live(d))
         /\ outcome'[d] = "panicked" => outcome[d] = "panicked"
  <1>1. /\ outcome \in
              [Conns -> {"none", "unread", "returned", "panicked"}]
        /\ peer \in [Conns -> {"up", "stalled", "gone"}]
    BY DEF FlowInv, TypeOK
  <1> USE <1>1 DEF sys, net, mw, shr, hist, Live
  <1>2. ASSUME NEW c \in Conns, Recover(c)
        PROVE  /\ onError' = onError /\ (Live(d)' => Live(d))
               /\ outcome'[d] = "panicked" => outcome[d] = "panicked"
    BY <1>2 DEF Recover
  <1>3. ASSUME NEW c \in Conns,
               Peer(c) \/ ReadFails(c) \/ Flush(c) \/ StdFinish(c)
        PROVE  /\ onError' = onError /\ (Live(d)' => Live(d))
               /\ outcome'[d] = "panicked" => outcome[d] = "panicked"
    BY <1>3 DEF Peer, PeerStalls, PeerReads, PeerLeaves, ReadFails, Flush,
       StdFinish
  <1>4. CASE UNCHANGED <<onError, peer, outcome>>
    BY <1>4
  <1>5. ASSUME NEW c \in Conns, Middleware(c) \/ Handler(c)
        PROVE  UNCHANGED <<onError, peer, outcome>>
    BY <1>5
    DEF Middleware, Handler, PassThrough, RejectCORS, RejectRateLimit,
        RejectValidation, EnterMetrics, CacheMiss, CacheHit,
        HandlerWriteHeader, HandlerWrite, HandlerHijack, HandlerRaw,
        HandlerPanic, HandlerReturn, ExitPlain, ExitMetrics, ExitCache
  <1> QED
    BY <1>2, <1>3, <1>4, <1>5
    DEF Next, Serve, Quiet, vars, Accept, ReadRequest, Unwind, Close, Report,
        ListenerFails, CacheExpires

\* Every step keeps the last word of a panic.
LEMMA ToldStep == ToldInv /\ [Next]_vars => ToldInv'
  <1> SUFFICES ASSUME ToldInv, [Next]_vars, NEW d \in Conns PROVE Told(d)'
    BY WireStep DEF ToldInv
  <1>1. /\ FlowInv /\ Flow(d) /\ Told(d) /\ rw \in [Conns -> RW]
        /\ Sound(rw[d], Live(d)) /\ Live(d) \in BOOLEAN
    BY DEF ToldInv, WireInv, FlowInv, TypeOK, Live
  <1>2. CASE Recover(d)
    <2> DEFINE t == Reply(rw[d], TRUE, ErrorCode(pv[d]), <<ErrorText>>)
    <2>1. pc[d] \in Before
      BY <1>2 DEF Recover, Before
    <2>3. CASE Live(d) /\ Recovers /\ onError # "none"
      <3>1. Sound(rw[d], TRUE) /\ rw[d] \in RW
        BY <1>1, <2>3
      <3>2. rw'[d] = t
        BY <1>1, <1>2, <2>1, <2>3, OpenLive DEF Recover
      <3>3. /\ t.hijacked = rw[d].hijacked
            /\ ~rw[d].hijacked => t.wire # <<>>
                                  /\ t.wire[Len(t.wire)] = Body(<<ErrorText>>)
        BY <3>1, ErrorSaid
      <3> HIDE DEF t
      <3> QED
        BY <3>2, <3>3 DEF Told
    <2>4. CASE ~(Live(d) /\ Recovers /\ onError # "none")
      BY <1>2, <2>4 DEF Recover, Told, Recovers, Live, sys, net
    <2> QED
      BY <2>3, <2>4
  <1>3. CASE ~Recover(d)
    <2>1. /\ onError' = onError /\ (Live(d)' => Live(d))
          /\ outcome'[d] = "panicked" => outcome[d] = "panicked"
      BY <1>1, <1>3, PanicSteps
    <2>2. outcome[d] = "panicked" => rw'[d] = rw[d]
      BY <1>1, WriterSteps DEF Flow
    <2> QED
      BY <1>1, <2>1, <2>2 DEF Told, Recovers
  <1> QED
    BY <1>2, <1>3

\* A panic anywhere below the recover reaches a peer that stays as the last
\* thing it receives, with every framework that recovers and every chain:
\* the recover runs before the deferred Close, after every
\* CustomResponseWriter is gone, and on a bufio.Writer no write of a live
\* connection has failed.
THEOREM ErrorTold == Spec => []ErrorReachesPeer
  <1>1. Init => ToldInv
    <2>1. Init => \A c \in Conns : Told(c)
      BY DEF Init, Told
    <2> QED
      BY <2>1, WireInit DEF ToldInv
  <1>2. ToldInv => ErrorReachesPeer
    <2> SUFFICES ASSUME ToldInv, NEW c \in Conns,
                        outcome[c] = "panicked", peer[c] # "gone",
                        ~rw[c].hijacked, Recovers, onError # "none"
                 PROVE  /\ Sent(c, "body") # {}
                        /\ rw[c].wire[Len(rw[c].wire)] = Body(<<ErrorText>>)
      BY DEF ErrorReachesPeer
    <2>1. /\ rw[c].wire # <<>>
          /\ rw[c].wire[Len(rw[c].wire)] = Body(<<ErrorText>>)
      BY DEF ToldInv, Told, Live
    <2>2. rw[c].wire \in Seq(Item)
      BY DEF ToldInv, WireInv, FlowInv, TypeOK, RW
    <2>3. Len(rw[c].wire) \in 1..Len(rw[c].wire)
      BY <2>1, <2>2
    <2>4. Body(<<ErrorText>>).kind = "body"
      BY DEF Body
    <2> QED
      BY <2>1, <2>3, <2>4 DEF Sent
  <1> QED
    BY <1>1, <1>2, ToldStep, PTL DEF Spec

\* A writer that was hijacked has sent no body.
Bodiless(s) == s.hijacked => Marks(s, "body") = {}

BodilessInv == WireInv /\ \A c \in Conns : Bodiless(rw[c])

\* A status line is no body.
LEMMA HeaderNoBody ==
  ASSUME NEW s \in RW, NEW up \in BOOLEAN, NEW code \in Codes
  PROVE  Marks(WriteHeader(s, up, code), "body") = Marks(s, "body")
  <1> DEFINE t == WriteHeader(s, up, code)
  <1>1. t \in RW
    BY WriteHeaderType
  <1>2. t.wire = s.wire \/ t.wire = Append(s.wire, Status(code))
    BY DEF WriteHeader, StdWriteHeader, RWWriteHeader, RW
  <1> HIDE DEF t
  <1>3. CASE t.wire = s.wire
    BY <1>3 DEF Marks, t
  <1>4. CASE t.wire = Append(s.wire, Status(code))
    <2>1. Status(code) \in Item /\ Status(code).kind = "status"
      BY ItemType DEF Status
    <2>2. \A kind : Marks(t, kind) = Marks(s, kind)
            \cup {i \in {Len(s.wire) + 1} : Status(code).kind = kind}
      BY <1>1, <1>4, <2>1, AppendMarks
    <2> QED
      BY <2>1, <2>2 DEF t
  <1> QED
    BY <1>2, <1>3, <1>4

\* Whatever touches RW after Hijack adds no body, and Hijack comes before the
\* header, so before any body.
LEMMA TouchBodiless ==
  ASSUME Network # "HTTP", NEW s \in RW, NEW up \in BOOLEAN, Sound(s, up),
         Bodiless(s), NEW t, Touches(s, up, t)
  PROVE  Bodiless(t)
  <1>1. ASSUME NEW code \in Codes, NEW data \in Seq(Chunk),
               t = Reply(s, up, code, data)
        PROVE  Bodiless(t)
    <2> DEFINE h == WriteHeader(s, up, code)
    <2>1. h \in RW /\ h.hijacked = s.hijacked /\ Marks(h, "body") = Marks(s, "body")
      BY WriteHeaderSound, HeaderNoBody
    <2>2. t.hijacked = s.hijacked
      BY <1>1, ReplySound
    <2>3. t = h \/ t = Write(h, up, data)
      BY <1>1 DEF Reply
    <2> HIDE DEF h
    <2>4. s.hijacked => t = h
      BY <2>1, <2>3 DEF Write
    <2> QED
      BY <2>1, <2>2, <2>4 DEF Bodiless
  <1>2. ASSUME NEW data \in Seq(Chunk), t = Write(s, up, data)
        PROVE  Bodiless(t)
    BY <1>2, WriteSound DEF Bodiless
  <1>3. CASE CanHijack(s) /\ t = [s EXCEPT !.hijacked = TRUE]
    <2>1. ~s.written /\ t.wire = s.wire
      BY <1>3 DEF CanHijack, RW
    <2>2. Marks(s, "body") = {}
      BY <2>1 DEF Sound, HeaderInv
    <2> QED
      BY <2>1, <2>2 DEF Bodiless, Marks
  <1>4. CASE s.hijacked /\ t = [s EXCEPT !.wire = IF up THEN Append(@, Raw) ELSE @]
    <2>1. t \in RW /\ t.wire = IF up THEN Append(s.wire, Raw) ELSE s.wire
      BY <1>4, FieldType DEF RW
    <2>2. Raw \in Item /\ Raw.kind = "raw"
      BY ItemType DEF Raw
    <2>3. CASE up
      <3>1. \A kind : Marks(t, kind) = Marks(s, kind)
              \cup {i \in {Len(s.wire) + 1} : Raw.kind = kind}
        BY <2>1, <2>2, <2>3, AppendMarks
      <3> QED
        BY <1>4, <2>2, <3>1 DEF Bodiless
    <2>4. CASE ~up
      BY <1>4, <2>1, <2>4 DEF Bodiless, Marks
    <2> QED
      BY <2>3, <2>4
  <1> QED
    BY <1>1, <1>2, <1>3, <1>4 DEF Touches

\* On net and netpoll a connection that its handler took over carries no body,
\* whatever the handler, a middleware, a flushed buffer, the cache or the
\* ErrorHandler writes, before or after. (Its status line is another matter:
\* HijackQuiet.)
THEOREM HijackerKeeps == Spec => []HijackedNoBody
  <1>1. CASE Network = "HTTP"
    <2>1. HijackedNoBody
      BY <1>1 DEF HijackedNoBody
    <2> QED
      BY <2>1, PTL
  <1>2. CASE Network # "HTTP"
    <2>1. Init => BodilessInv
      <3>1. Init => \A c \in Conns : Bodiless(rw[c])
        BY DEF Init, NewRW, Bodiless
      <3> QED
        BY <3>1, WireInit DEF BodilessInv
    <2>2. BodilessInv /\ [Next]_vars => BodilessInv'
      <3> SUFFICES ASSUME BodilessInv, [Next]_vars, NEW d \in Conns
                   PROVE  Bodiless(rw[d])'
        BY WireStep DEF BodilessInv
      <3>1. /\ FlowInv /\ rw \in [Conns -> RW] /\ Sound(rw[d], Live(d))
            /\ Live(d) \in BOOLEAN /\ Bodiless(rw[d])
        BY DEF BodilessInv, WireInv, FlowInv, TypeOK, Live
      <3>2. rw'[d] = rw[d] \/ Touches(rw[d], Live(d), rw'[d])
        BY <3>1, WriterSteps
      <3>3. Bodiless(rw'[d])
        BY <1>2, <3>1, <3>2, TouchBodiless
      <3> QED
        BY <3>3 DEF Bodiless, Marks
    <2>3. BodilessInv => HijackedNoBody
      BY DEF BodilessInv, Bodiless, Marks, Sent, HijackedNoBody
    <2> QED
      BY <2>1, <2>2, <2>3, PTL DEF Spec
  <1> QED
    BY <1>1, <1>2

-----------------------------------------------------------------------------
(* The status of the response, when no middleware wraps the writer. *)

Wraps == {"metrics", "cache"}

Plain == \A i \in 1..N : Chain[i] \notin Wraps

\* Every status line on the wire is the handler's first choice; nobody has
\* answered before the handler, or it would not run.
Chosen(c) ==
  /\ cur[c] = 0
  /\ pc[c] \in {"idle", "read", "down"} => first[c] = 0
  /\ pc[c] \in {"idle", "read", "down", "handler"} /\ first[c] = 0 =>
       ~rw[c].written
  /\ ~rw[c].hijacked /\ first[c] # 0 =>
       /\ rw[c].written
       /\ \A i \in Marks(rw[c], "status") : rw[c].wire[i].code = first[c]

ChosenInv == WireInv /\ \A c \in Conns : Chosen(c)

\* A piece of a body changes no status line.
LEMMA BodyKeepsStatus ==
  ASSUME NEW s \in RW, NEW t \in RW, NEW data \in Seq(Chunk),
         t.wire = Append(s.wire, Body(data))
  PROVE  /\ Marks(t, "status") = Marks(s, "status")
         /\ \A i \in Marks(s, "status") : t.wire[i] = s.wire[i]
  <1>1. Body(data) \in Item /\ Body(data).kind = "body"
    BY ItemType DEF Body
  <1>2. \A kind : Marks(t, kind) = Marks(s, kind)
          \cup {i \in {Len(s.wire) + 1} : Body(data).kind = kind}
    BY <1>1, AppendMarks
  <1>3. \A i \in 1..Len(s.wire) : t.wire[i] = s.wire[i]
    BY <1>1 DEF RW
  <1> QED
    BY <1>1, <1>2, <1>3 DEF Marks

\* The status lines of a writer that has sent its header stay as they are.
LEMMA WrittenKeepsStatus ==
  ASSUME NEW s \in RW, NEW up \in BOOLEAN, Sound(s, up), s.written, ~s.hijacked,
         NEW t, Touches(s, up, t)
  PROVE  /\ t.written
         /\ Marks(t, "status") = Marks(s, "status")
         /\ \A i \in Marks(s, "status") : t.wire[i] = s.wire[i]
  <1>1. ASSUME NEW data \in Seq(Chunk), t = Write(s, up, data)
        PROVE  /\ t.written
               /\ Marks(t, "status") = Marks(s, "status")
               /\ \A i \in Marks(s, "status") : t.wire[i] = s.wire[i]
    <2>1. s.status \in Codes
      BY DEF RW
    <2>2. WriteHeader(s, up, s.status) = s
      BY <2>1, WriteHeaderSound
    <2>3. /\ t \in RW /\ t.written
          /\ up => t.wire = Append(s.wire, Body(data))
          /\ ~up => t.wire = s.wire
      BY <1>1, <2>2, WriteSound
    <2>4. CASE up
      BY <2>3, <2>4, BodyKeepsStatus
    <2>5. CASE ~up
      BY <2>3, <2>5 DEF Marks
    <2> QED
      BY <2>3, <2>4, <2>5
  <1>2. ASSUME NEW code \in Codes, NEW data \in Seq(Chunk),
               t = Reply(s, up, code, data)
        PROVE  t = s \/ t = Write(s, up, data)
    <2>1. WriteHeader(s, up, code) = s
      BY WriteHeaderSound
    <2> QED
      BY <1>2, <2>1 DEF Reply
  <1>3. CASE t = [s EXCEPT !.hijacked = TRUE]
    <2>1. t.wire = s.wire /\ t.written = s.written
      BY <1>3 DEF RW
    <2> QED
      BY <2>1 DEF Marks
  <1> QED
    BY <1>1, <1>2, <1>3 DEF Touches

\* The first WriteHeader, or the header a first Write sends, is the only one.
LEMMA FirstStatus ==
  ASSUME NEW s \in RW, NEW up \in BOOLEAN, Sound(s, up), ~s.written, ~s.hijacked,
         NEW code \in Codes, NEW t,
         \/ t = WriteHeader(s, up, code)
         \/ code = 200 /\ \E data \in Seq(Chunk) : t = Write(s, up, data)
  PROVE  t.written /\ \A i \in Marks(t, "status") : t.wire[i].code = code
  <1> DEFINE h == WriteHeader(s, up, code)
  <1>1. /\ h \in RW /\ h.written
        /\ h.wire = IF up THEN Append(s.wire, Status(code)) ELSE s.wire
    <2>1. h = RWWriteHeader(s, up, code)
      BY DEF WriteHeader, StdWriteHeader
    <2> QED
      BY <2>1, WriteHeaderSound DEF RWWriteHeader, RW
  <1>2. \A i \in Marks(h, "status") : h.wire[i].code = code
    <2>1. Marks(s, "status") = {} /\ s.wire \in Seq(Item)
      BY DEF Sound, HeaderInv, RW
    <2>2. Status(code) \in Item /\ Status(code).code = code
      BY ItemType DEF Status
    <2>3. CASE up
      BY <1>1, <2>1, <2>2, <2>3 DEF Marks
    <2>4. CASE ~up
      BY <1>1, <2>1, <2>4 DEF Marks
    <2> QED
      BY <2>3, <2>4
  <1> HIDE DEF h
  <1>3. CASE t = h
    BY <1>1, <1>2, <1>3
  <1>4. ASSUME NEW data \in Seq(Chunk), t = Write(s, up, data), code = 200
        PROVE  t.written /\ \A i \in Marks(t, "status") : t.wire[i].code = code
    <2>1. WriteHeader(s, up, s.status) = h
      BY <1>4 DEF h, Sound
    <2>2. /\ t \in RW /\ t.written
          /\ up => t.wire = Append(h.wire, Body(data))
          /\ ~up => t.wire = h.wire
      BY <1>4, <2>1, WriteSound
    <2>3. CASE up
      <3>1. t.wire = Append(h.wire, Body(data)) /\ t \in RW /\ h \in RW
        BY <1>1, <2>2, <2>3
      <3>2. /\ Marks(t, "status") = Marks(h, "status")
            /\ \A i \in Marks(h, "status") : t.wire[i] = h.wire[i]
        BY <1>4, <3>1, BodyKeepsStatus
      <3> QED
        BY <1>2, <2>2, <3>2
    <2>4. CASE ~up
      BY <1>2, <2>2, <2>4 DEF Marks
    <2> QED
      BY <2>2, <2>3, <2>4
  <1> QED
    BY <1>3, <1>4 DEF h

\* Every step keeps the first status.
LEMMA ChosenStep == Plain /\ ChosenInv /\ [Next]_vars => ChosenInv'
  <1> SUFFICES ASSUME Plain, ChosenInv, [Next]_vars, NEW d \in Conns
               PROVE  Chosen(d)'
    BY WireStep DEF ChosenInv
  <1>1. /\ FlowInv /\ Flow(d) /\ Chosen(d) /\ rw \in [Conns -> RW]
        /\ \A c \in Conns : cur[c] = 0
    BY DEF ChosenInv, Chosen, WireInv, FlowInv, TypeOK
  <1>2. pc \in [Conns -> PCs] /\ first \in [Conns -> Codes]
        /\ cur \in [Conns -> 0..N] /\ rw[d] \in RW
    BY <1>1 DEF FlowInv, TypeOK
  <1>3. Sound(rw[d], Live(d)) /\ Live(d) \in BOOLEAN
    BY <1>1 DEF ChosenInv, WireInv, FlowInv, TypeOK, Live
  <1> USE DEF sys, net, mw, shr, hist
  \* No middleware wraps the writer.
  <1>4. \A c \in Conns : ~At(c, {"metrics"}) /\ ~At(c, {"cache"})
                         /\ ~Leaving(c, {"metrics"}) /\ ~Leaving(c, {"cache"})
    BY <1>1, ChainSteps DEF Plain, Wraps, At, Leaving, FlowInv
  \* The handler names a status.
  <1>Chooses. ASSUME NEW c \in Conns, HandlerWriteHeader(c) \/ HandlerWrite(c)
              PROVE  Chosen(d)'
    <2>1. CASE c # d
      <3>1. /\ pc' = pc /\ cur' = cur /\ first'[d] = first[d]
            /\ rw'[d] = rw[d]
        BY <1>Chooses, <1>1, <1>2, <2>1
        DEF HandlerWriteHeader, HandlerWrite, Chooses, PutReply, PutWrite
      <3> QED
        BY <1>1, <3>1 DEF Chosen
    <2>2. CASE c = d
      <3>1. pc[d] = "handler" /\ pc' = pc /\ cur' = cur /\ pc[d] \in Before
        BY <1>Chooses, <2>2 DEF HandlerWriteHeader, HandlerWrite, Runs, Before
      <3>2. PICK code \in HandlerCodes :
              /\ first'[d] = IF first[d] = 0 THEN code ELSE first[d]
              /\ \/ rw'[d] = WriteHeader(rw[d], Live(d), code)
                 \/ /\ code = 200
                    /\ \E data \in Seq(Chunk) : rw'[d] = Write(rw[d], Live(d), data)
        <4>1. Up(d) = Live(d)
          BY <1>1, <3>1, OpenLive
        <4>3. CASE HandlerWriteHeader(d)
          <5>1. PICK code \in HandlerCodes :
                  Chooses(d, code) /\ PutReply(d, 0, code, <<>>)
            BY <1>1, <4>3 DEF HandlerWriteHeader
          <5>2. first'[d] = IF first[d] = 0 THEN code ELSE first[d]
            BY <1>2, <5>1 DEF Chooses
          <5>3. rw'[d] = WriteHeader(rw[d], Live(d), code)
            BY <1>1, <4>1, <5>1 DEF PutReply, Reply
          <5> QED
            BY <5>2, <5>3
        <4>4. CASE HandlerWrite(d)
          <5> DEFINE piece == <<Piece(ops[d] + 1)>>
          <5>1. /\ Chooses(d, 200) /\ PutWrite(d, 0, piece)
                /\ piece \in Seq(Chunk)
            BY <1>1, <4>4, PieceType DEF HandlerWrite, FlowInv
          <5> HIDE DEF piece
          <5>2. first'[d] = IF first[d] = 0 THEN 200 ELSE first[d]
            BY <1>2, <5>1 DEF Chooses
          <5>3. rw'[d] = Write(rw[d], Live(d), piece)
            BY <1>1, <4>1, <5>1 DEF PutWrite
          <5> QED
            BY <5>1, <5>2, <5>3 DEF HandlerCodes
        <4> QED
          BY <1>Chooses, <2>2, <4>3, <4>4
      <3>3. code \in Codes /\ code # 0 /\ first'[d] # 0
        BY <3>2 DEF Codes, HandlerCodes
      <3>4. rw'[d].hijacked = rw[d].hijacked
        <4>1. WriteHeader(rw[d], Live(d), code).hijacked = rw[d].hijacked
          BY <1>2, <1>3, <3>3, WriteHeaderSound
        <4>2. \A data \in Seq(Chunk) :
                Write(rw[d], Live(d), data).hijacked = rw[d].hijacked
          BY <1>2, <1>3, WriteSound
        <4> QED
          BY <3>2, <4>1, <4>2
      <3>5. CASE rw[d].hijacked
        BY <1>1, <3>1, <3>3, <3>4, <3>5 DEF Chosen
      <3>6. CASE ~rw[d].hijacked /\ first[d] = 0
        <4>1. ~rw[d].written /\ ~rw[d].hijacked
          BY <1>1, <3>1, <3>6 DEF Chosen
        <4>2. /\ rw'[d].written
              /\ \A i \in Marks(rw'[d], "status") : rw'[d].wire[i].code = code
          BY <1>2, <1>3, <3>2, <3>3, <4>1, FirstStatus
        <4> QED
          BY <1>1, <3>1, <3>2, <3>3, <3>6, <4>2 DEF Chosen, Marks
      <3>7. CASE ~rw[d].hijacked /\ first[d] # 0
        <4>1. /\ rw[d].written
              /\ \A i \in Marks(rw[d], "status") :
                   rw[d].wire[i].code = first[d]
          BY <1>1, <3>7 DEF Chosen
        <4>2. /\ rw'[d].written
              /\ Marks(rw'[d], "status") = Marks(rw[d], "status")
              /\ \A i \in Marks(rw[d], "status") : rw'[d].wire[i] = rw[d].wire[i]
          <5>1. Touches(rw[d], Live(d), rw'[d]) \/ rw'[d] = rw[d]
            BY <1>1, <1>2, WriterSteps
          <5> QED
            BY <1>2, <1>3, <3>7, <4>1, <5>1, WrittenKeepsStatus
        <4> QED
          BY <1>1, <3>1, <3>2, <3>3, <3>7, <4>1, <4>2 DEF Chosen, Marks
      <3> QED
        BY <3>5, <3>6, <3>7
    <2> QED
      BY <2>1, <2>2
  \* Before the handler, a writer is untouched unless the request turns back.
  <1>Early. ASSUME NEW c \in Conns,
                   \/ Accept(c) \/ Peer(c) \/ ReadRequest(c) \/ ReadFails(c)
                   \/ PassThrough(c) \/ RejectValidation(c) \/ HandlerPanic(c)
                   \/ HandlerReturn(c) \/ Unwind(c) \/ ExitPlain(c) \/ Flush(c)
                   \/ Close(c) \/ Report(c)
            PROVE  /\ rw' = rw /\ first' = first /\ cur' = cur
                   /\ pc'[d] \in {"idle", "read", "down"} =>
                        pc[d] \in {"idle", "read", "down"}
                   /\ pc'[d] \in {"idle", "read", "down", "handler"} =>
                        pc[d] \in {"idle", "read", "down", "handler"}
    BY <1>Early, <1>2 DEF Accept, Peer, PeerStalls, PeerReads, PeerLeaves,
       ReadRequest, ReadFails, PassThrough,
       RejectValidation, HandlerPanic, HandlerReturn, Unwind, ExitPlain, Flush,
       Close, Report, Ascend, Outward, At, Inward
  <1>Turn. ASSUME NEW c \in Conns,
                  RejectCORS(c) \/ RejectRateLimit(c) \/ Recover(c) \/ StdFinish(c)
           PROVE  /\ first' = first /\ cur' = cur
                  /\ c # d => pc'[d] = pc[d] /\ rw'[d] = rw[d]
                  /\ c = d => pc'[d] \notin {"idle", "read", "down", "handler"}
    BY <1>Turn, <1>1, <1>2 DEF RejectCORS, RejectRateLimit, Recover, StdFinish,
       Outward, PutReply
  <1>Hijack. ASSUME NEW c \in Conns, HandlerHijack(c) \/ HandlerRaw(c)
             PROVE  /\ first' = first /\ cur' = cur /\ pc' = pc
                    /\ rw'[d].written = rw[d].written
    BY <1>Hijack, <1>1, <1>2 DEF HandlerHijack, HandlerRaw, RW
  \* Whatever is written once the handler has chosen keeps the status line.
  <1>5. ASSUME first'[d] = first[d], cur'[d] = cur[d],
               pc'[d] \in {"idle", "read", "down"} => first[d] = 0,
               /\ pc'[d] \in {"idle", "read", "down", "handler"}
               /\ first[d] = 0
               => ~rw'[d].written
        PROVE  Chosen(d)'
    <2>1. rw'[d] = rw[d] \/ Touches(rw[d], Live(d), rw'[d])
      BY <1>1, <1>2, WriterSteps
    <2>2. CASE rw'[d] = rw[d]
      BY <1>1, <1>5, <2>2 DEF Chosen
    <2>3. CASE Touches(rw[d], Live(d), rw'[d])
      <3>1. rw[d].hijacked => rw'[d].hijacked
        BY <1>2, <1>3, <2>3, TouchSound
      <3>2. CASE rw[d].hijacked
        BY <1>1, <1>5, <3>1, <3>2 DEF Chosen
      <3>3. CASE ~rw[d].hijacked /\ first[d] # 0
        <4>1. /\ rw[d].written
              /\ \A i \in Marks(rw[d], "status") :
                   rw[d].wire[i].code = first[d]
          BY <1>1, <3>3 DEF Chosen
        <4>2. /\ rw'[d].written
              /\ Marks(rw'[d], "status") = Marks(rw[d], "status")
              /\ \A i \in Marks(rw[d], "status") : rw'[d].wire[i] = rw[d].wire[i]
          BY <1>2, <1>3, <2>3, <3>3, <4>1, WrittenKeepsStatus
        <4> QED
          BY <1>1, <1>5, <3>3, <4>1, <4>2 DEF Chosen, Marks
      <3>4. CASE first[d] = 0
        BY <1>1, <1>5, <3>4 DEF Chosen
      <3> QED
        BY <3>2, <3>3, <3>4
    <2> QED
      BY <2>1, <2>2, <2>3
  <1>6. ASSUME NEW c \in Conns, ~HandlerWriteHeader(c), ~HandlerWrite(c),
               Accept(c) \/ Peer(c) \/ Serve(c)
        PROVE  Chosen(d)'
    <2>1. \/ Accept(c) \/ Peer(c) \/ ReadRequest(c) \/ ReadFails(c)
          \/ PassThrough(c) \/ RejectValidation(c) \/ HandlerPanic(c)
          \/ HandlerReturn(c) \/ Unwind(c) \/ ExitPlain(c) \/ Flush(c)
          \/ Close(c) \/ Report(c)
          \/ RejectCORS(c) \/ RejectRateLimit(c) \/ Recover(c) \/ StdFinish(c)
          \/ HandlerHijack(c) \/ HandlerRaw(c)
      BY <1>4, <1>6 DEF Serve, Middleware, Handler, EnterMetrics, CacheMiss,
         CacheHit, ExitMetrics, ExitCache
    <2>2. /\ first'[d] = first[d] /\ cur'[d] = cur[d]
          /\ pc'[d] \in {"idle", "read", "down"} => first[d] = 0
          /\ pc'[d] \in {"idle", "read", "down", "handler"} /\ first[d] = 0
             => ~rw'[d].written
      BY <1>1, <1>Early, <1>Turn, <1>Hijack, <2>1 DEF Chosen
    <2> QED
      BY <1>5, <2>2
  <1>7. CASE ListenerFails \/ CacheExpires \/ UNCHANGED vars
    <2>1. UNCHANGED <<first, cur, pc, rw>>
      BY <1>7 DEF ListenerFails, CacheExpires, vars
    <2> QED
      BY <1>1, <2>1 DEF Chosen, Marks
  <1> QED
    BY <1>Chooses, <1>6, <1>7 DEF Next, Quiet

\* Without a middleware that wraps the writer, the status the peer receives is
\* the first one the handler chose, whatever it does after: neither a second
\* WriteHeader nor a Write, nor net/http at the end, changes what is sent.
\* (A CustomResponseWriter forwards the last one.)
THEOREM FirstChosen ==
  ASSUME Plain
  PROVE  Spec => []FirstStatusWins
  <1>1. Init => ChosenInv
    <2>1. Init => \A c \in Conns : Chosen(c)
      BY DEF Init, Chosen, NewRW
    <2> QED
      BY <2>1, WireInit DEF ChosenInv
  <1>2. ChosenInv /\ [Next]_vars => ChosenInv'
    BY ChosenStep
  <1>3. ChosenInv => FirstStatusWins
    <2> SUFFICES ASSUME ChosenInv, NEW c \in Conns, Served(c), first[c] # 0,
                        NEW i \in Sent(c, "status")
                 PROVE  rw[c].wire[i].code = first[c]
      BY DEF FirstStatusWins
    <2> QED
      BY DEF ChosenInv, Chosen, Served, Sent, Marks
  <1> QED
    BY <1>1, <1>2, <1>3, PTL DEF Spec

=============================================================================
