------------------------------ MODULE Connection ------------------------------
(***************************************************************************)
(* The request path of mahakam: a connection is accepted by one of the     *)
(* three network frameworks (net.go, netpoll.go, http.go), a request is    *)
(* read, the middleware chain and the route's handler run against a        *)
(* ResponseWriter (writer.go, extensions/rw.go), a panic is recovered into *)
(* the server's ErrorHandler (server.go), and the connection is closed.    *)
(*                                                                         *)
(* Every connection is one goroutine; they share the process (which a      *)
(* panic nobody recovers ends), the response cache and the metrics.        *)
(***************************************************************************)
EXTENDS Integers, Sequences, FiniteSets

CONSTANTS
  Conns,         \* connections, one request each
  Network,       \* the framework chosen by Server.Framework
  ServerChain,   \* middleware given to Server.Use, outermost first
  RouteChain,    \* middleware the route's handler is wrapped in
  ErrorHandlers, \* what Server.ErrorHandler may be: NewServer's ("default"),
                 \* one that looks whether it has a writer ("custom"), nil
  MayHijack,     \* whether the handler may take the connection over
  MaxOps         \* bound: calls one handler makes on its writer

Kinds == {"logger", "cors", "ratelimit", "validation", "metrics", "cache"}

ASSUME ConnectionAssumption ==
  /\ Network \in {"NET", "NETPOLL", "HTTP"}
  /\ ServerChain \in Seq(Kinds)
  /\ RouteChain \in Seq(Kinds)
  /\ ErrorHandlers \subseteq {"default", "custom", "none"}
  /\ MayHijack \in BOOLEAN
  /\ MaxOps \in Nat

\* The handler a request meets: server middleware around the mux, and the
\* route's own middleware around the route's handler.
Chain == ServerChain \o RouteChain
N == Len(Chain)

HandlerCodes == {200, 404}
Codes == HandlerCodes \cup {0, 204, 400, 403, 429, 500}

\* A piece of a response body: who wrote it, and with which of its calls.
Chunk == [by : {"handler", "reject", "error"}, n : 0..MaxOps]
Piece(n)  == [by |-> "handler", n |-> n]
Refusal   == [by |-> "reject", n |-> 0]
ErrorText == [by |-> "error", n |-> 0]

\* What the peer of a connection can tell apart in the bytes it receives.
Item == [kind : {"status", "body", "raw"}, code : Codes, data : Seq(Chunk)]
Status(code) == [kind |-> "status", code |-> code, data |-> <<>>]
Body(data)   == [kind |-> "body", code |-> 0, data |-> data]
Raw          == [kind |-> "raw", code |-> 0, data |-> <<>>]

VARIABLES
  server,    \* "up", or "crashed" by a panic no goroutine recovers
  onError,   \* Server.ErrorHandler, fixed when ListenAndServe copies it
  listening, \* the listener accepts connections
  pc,        \* where the goroutine of the connection is
  peer,      \* the other end: "up", "stalled" (it neither sends nor reads,
             \* and the buffers between are full), or "gone"
  closed,    \* conn.Close was called
  rw,        \* the connection's RW (net/http's response under HTTP)
  depth,     \* how many middleware of Chain the request is inside
  frame,     \* the CustomResponseWriter of each middleware that makes one
  cur,       \* the writer the running code holds: a frame, or 0 for rw
  pv,        \* the panic value in flight
  ret,       \* what handleConnection will return
  cache,     \* the response cache, one key: a body, <<>> when absent
  inflight,  \* the http_concurrent_requests gauge
  counted,   \* how often Metrics has counted the request of a connection
  ops,       \* calls the handler has made (bound)
  outcome,   \* history: how the exchange ended
  errs,      \* history: calls of ErrorHandler
  first,     \* history: the status the handler chose first
  said,      \* history: the body chunks the handler wrote
  wholes     \* history: bodies of handlers that returned

sys  == <<server, onError, listening>>
net  == <<peer, closed>>
mw   == <<depth, frame, cur>>
shr  == <<cache, inflight, counted>>
hist == <<outcome, errs, first, said, wholes>>
vars == <<sys, pc, net, rw, mw, pv, ret, shr, ops, hist>>

PCs == {"idle", "read", "down", "handler", "up", "panic", "flush", "close",
        "report", "done"}

\* The CustomResponseWriter, with the writer it embeds.
Frame == [status : Codes, body : Seq(Chunk), parent : 0..N]
NewFrame(parent) == [status |-> 200, body |-> <<>>, parent |-> parent]

RW == [status : Codes, written : BOOLEAN, hijacked : BOOLEAN,
       failed : BOOLEAN, wire : Seq(Item)]
NewRW == [status |-> 200, written |-> FALSE, hijacked |-> FALSE,
          failed |-> FALSE, wire |-> <<>>]

TypeOK ==
  /\ server \in {"up", "crashed"}
  /\ onError \in ErrorHandlers
  /\ listening \in BOOLEAN
  /\ pc \in [Conns -> PCs]
  /\ peer \in [Conns -> {"up", "stalled", "gone"}]
  /\ closed \in [Conns -> BOOLEAN]
  /\ rw \in [Conns -> RW]
  /\ depth \in [Conns -> 0..N]
  /\ frame \in [Conns -> [1..N -> Frame]]
  /\ cur \in [Conns -> 0..N]
  /\ pv \in [Conns -> {"nil", "error", "validation"}]
  /\ ret \in [Conns -> {"nil", "err"}]
  /\ cache \in Seq(Chunk)
  /\ inflight \in Int
  /\ counted \in [Conns -> Nat]
  /\ ops \in [Conns -> 0..MaxOps]
  /\ outcome \in [Conns -> {"none", "unread", "returned", "panicked"}]
  /\ errs \in [Conns -> Nat]
  /\ first \in [Conns -> Codes]
  /\ said \in [Conns -> Seq(Chunk)]
  /\ wholes \in SUBSET Seq(Chunk)

Init ==
  /\ server = "up"
  /\ onError \in ErrorHandlers
  /\ listening = TRUE
  /\ pc = [c \in Conns |-> "idle"]
  /\ peer = [c \in Conns |-> "up"]
  /\ closed = [c \in Conns |-> FALSE]
  /\ rw = [c \in Conns |-> NewRW]
  /\ depth = [c \in Conns |-> 0]
  /\ frame = [c \in Conns |-> [i \in 1..N |-> NewFrame(0)]]
  /\ cur = [c \in Conns |-> 0]
  /\ pv = [c \in Conns |-> "nil"]
  /\ ret = [c \in Conns |-> "nil"]
  /\ cache = <<>>
  /\ inflight = 0
  /\ counted = [c \in Conns |-> 0]
  /\ ops = [c \in Conns |-> 0]
  /\ outcome = [c \in Conns |-> "none"]
  /\ errs = [c \in Conns |-> 0]
  /\ first = [c \in Conns |-> 0]
  /\ said = [c \in Conns |-> <<>>]
  /\ wholes = {}

-----------------------------------------------------------------------------
(* The writers. *)

\* A write to the connection arrives unless the peer left or we closed it.
Up(c) == peer[c] # "gone" /\ ~closed[c]

\* The writer of c becomes t. Nothing sets a deadline on a connection: while
\* the peer is stalled, a call that has bytes to send waits.
Sends(c, t) ==
  /\ rw' = [rw EXCEPT ![c] = t]
  /\ t.wire # rw[c].wire => peer[c] # "stalled"

\* Mutant: no look at RW.written.
RWWriteHeaderTwice(s, up, code) ==
  [s EXCEPT !.status = code, !.written = TRUE,
            !.wire = IF up THEN Append(@, Status(code)) ELSE @]

\* RW.WriteHeader: the first call wins, and its errors are not looked at.
RWWriteHeader(s, up, code) ==
  IF s.written THEN s
  ELSE [s EXCEPT !.status = code, !.written = TRUE,
                 !.wire = IF up THEN Append(@, Status(code)) ELSE @]

\* net/http's response ignores WriteHeader once the connection is hijacked.
StdWriteHeader(s, up, code) ==
  IF s.hijacked THEN s ELSE RWWriteHeader(s, up, code)

WriteHeader(s, up, code) ==
  IF Network = "HTTP" THEN StdWriteHeader(s, up, code)
  ELSE RWWriteHeader(s, up, code)

\* Mutant: the call that sends the header forgets its own data.
WriteDropsFirst(s, up, data) ==
  IF s.hijacked \/ s.failed \/ ~up THEN s
  ELSE IF ~s.written THEN WriteHeader(s, up, s.status)
  ELSE [s EXCEPT !.wire = Append(@, Body(data))]

\* Mutant: a hijacked connection can still be written to.
WriteHijacked(s, up, data) ==
  LET t == WriteHeader(s, up, s.status) IN
  IF up /\ ~t.failed THEN [t EXCEPT !.wire = Append(@, Body(data))] ELSE t

\* RW.Write: refused once hijacked, sends the header first if need be; a
\* failed flush sticks to the bufio.Writer.
Write(s, up, data) ==
  IF s.hijacked THEN s
  ELSE LET t == WriteHeader(s, up, s.status) IN
       IF up /\ ~t.failed THEN [t EXCEPT !.wire = Append(@, Body(data))]
       ELSE [t EXCEPT !.failed = TRUE]

\* WriteHeader(code) and, when there is a body, Write(data).
Reply(s, up, code, data) ==
  LET t == WriteHeader(s, up, code) IN
  IF data = <<>> THEN t ELSE Write(t, up, data)

\* RW.Hijack succeeds once, and only before the header; net/http's does not
\* mind the header.
CanHijack(s) == ~s.hijacked /\ (s.written => Network = "HTTP")

\* The same two calls on writer w of connection c: a CustomResponseWriter
\* records the status and buffers the body.
PutReply(c, w, code, data) ==
  IF w = 0
  THEN /\ Sends(c, Reply(rw[c], Up(c), code, data))
       /\ UNCHANGED frame
  ELSE /\ frame' = [frame EXCEPT ![c][w] =
              [status |-> code, body |-> @.body \o data, parent |-> @.parent]]
       /\ UNCHANGED rw

\* Mutant: the buffer puts a write before what it has.
PutWritePrepends(c, w, data) ==
  IF w = 0
  THEN Sends(c, Write(rw[c], Up(c), data)) /\ UNCHANGED frame
  ELSE frame' = [frame EXCEPT ![c][w].body = data \o @] /\ UNCHANGED rw

\* Mutant: the CustomResponseWriter writes through.
PutWriteThrough(c, w, data) ==
  /\ Sends(c, Write(rw[c], Up(c), data))
  /\ UNCHANGED frame

PutWrite(c, w, data) ==
  IF w = 0
  THEN /\ Sends(c, Write(rw[c], Up(c), data))
       /\ UNCHANGED frame
  ELSE /\ frame' = [frame EXCEPT ![c][w] =
              [status |-> @.status, body |-> @.body \o data,
               parent |-> @.parent]]
       /\ UNCHANGED rw

-----------------------------------------------------------------------------
(* Accepting, and the other end. *)

Accept(c) ==
  /\ listening
  /\ pc[c] = "idle"
  /\ pc' = [pc EXCEPT ![c] = "read"]
  /\ UNCHANGED <<sys, net, rw, mw, pv, ret, shr, ops, hist>>

\* Accept (or the event loop) returns an error: listenAndServe returns it and
\* closes the listener, the connections it has go on.
ListenerFails ==
  /\ listening
  /\ listening' = FALSE
  /\ UNCHANGED <<server, onError, pc, net, rw, mw, pv, ret, shr, ops, hist>>

\* The peer stops sending and reading, for a while or for good.
PeerStalls(c) ==
  /\ pc[c] \notin {"idle", "done"}
  /\ peer[c] = "up"
  /\ peer' = [peer EXCEPT ![c] = "stalled"]
  /\ UNCHANGED <<sys, pc, closed, rw, mw, pv, ret, shr, ops, hist>>

PeerReads(c) ==
  /\ pc[c] \notin {"idle", "done"}
  /\ peer[c] = "stalled"
  /\ peer' = [peer EXCEPT ![c] = "up"]
  /\ UNCHANGED <<sys, pc, closed, rw, mw, pv, ret, shr, ops, hist>>

PeerLeaves(c) ==
  /\ pc[c] \notin {"idle", "done"}
  /\ peer[c] # "gone"
  /\ peer' = [peer EXCEPT ![c] = "gone"]
  /\ UNCHANGED <<sys, pc, closed, rw, mw, pv, ret, shr, ops, hist>>

\* Steps nobody owes.
Peer(c) == PeerStalls(c) \/ PeerReads(c) \/ PeerLeaves(c)

Inward(d)  == IF d = N THEN "handler" ELSE "down"
Outward(d) == IF d = 0 THEN "flush" ELSE "up"

\* http.ReadRequest waits for the peer, without a deadline.
ReadRequest(c) ==
  /\ pc[c] = "read"
  /\ peer[c] # "stalled"
  /\ pc' = [pc EXCEPT ![c] = Inward(0)]
  /\ UNCHANGED <<sys, net, rw, mw, pv, ret, shr, ops, hist>>

\* http.ReadRequest fails: a connection closed early or half sent.
ReadFails(c) ==
  /\ pc[c] = "read"
  /\ peer[c] # "stalled"
  /\ pc' = [pc EXCEPT ![c] = "close"]
  /\ ret' = [ret EXCEPT ![c] = "err"]
  /\ outcome' = [outcome EXCEPT ![c] = "unread"]
  /\ UNCHANGED <<sys, net, rw, mw, pv, shr, ops,
                 errs, first, said, wholes>>

-----------------------------------------------------------------------------
(* The middleware chain, on the way in. *)

At(c, kinds) == pc[c] = "down" /\ depth[c] < N /\ Chain[depth[c] + 1] \in kinds

\* Logger and Tracer call next, and so do CORS, the rate limiter and the
\* validation when they admit the request.
PassThrough(c) ==
  /\ At(c, {"logger", "cors", "ratelimit", "validation"})
  /\ depth' = [depth EXCEPT ![c] = @ + 1]
  /\ pc' = [pc EXCEPT ![c] = Inward(depth[c] + 1)]
  /\ UNCHANGED <<sys, net, rw, frame, cur, pv, ret, shr, ops, hist>>

\* CORS answers a refused origin or a preflight itself.
RejectCORS(c) ==
  /\ At(c, {"cors"})
  /\ \E code \in {403, 204} : PutReply(c, cur[c], code, <<>>)
  /\ pc' = [pc EXCEPT ![c] = Outward(depth[c])]
  /\ UNCHANGED <<sys, net, depth, cur, pv, ret, shr, ops, hist>>

RejectRateLimit(c) ==
  /\ At(c, {"ratelimit"})
  /\ PutReply(c, cur[c], 429, <<Refusal>>)
  /\ pc' = [pc EXCEPT ![c] = Outward(depth[c])]
  /\ UNCHANGED <<sys, net, depth, cur, pv, ret, shr, ops, hist>>

\* ValidationMiddleware panics with the decoder's error or the validator's.
RejectValidation(c) ==
  /\ At(c, {"validation"})
  /\ \E v \in {"error", "validation"} : pv' = [pv EXCEPT ![c] = v]
  /\ pc' = [pc EXCEPT ![c] = "panic"]
  /\ UNCHANGED <<sys, net, rw, mw, ret, shr, ops, hist>>

\* A middleware that hands next a CustomResponseWriter around its own writer.
Wrap(c) ==
  LET k == depth[c] + 1 IN
  /\ depth' = [depth EXCEPT ![c] = k]
  /\ frame' = [frame EXCEPT ![c][k] = NewFrame(cur[c])]
  /\ cur' = [cur EXCEPT ![c] = k]
  /\ pc' = [pc EXCEPT ![c] = Inward(k)]

EnterMetrics(c) ==
  /\ At(c, {"metrics"})
  /\ Wrap(c)
  /\ inflight' = inflight + 1
  /\ UNCHANGED <<sys, net, rw, pv, ret, cache, counted, ops, hist>>

CacheMiss(c) ==
  /\ At(c, {"cache"})
  /\ cache = <<>>
  /\ Wrap(c)
  /\ UNCHANGED <<sys, net, rw, pv, ret, shr, ops, hist>>

CacheHit(c) ==
  /\ At(c, {"cache"})
  /\ cache # <<>>
  /\ PutReply(c, cur[c], 200, cache)
  /\ pc' = [pc EXCEPT ![c] = Outward(depth[c])]
  /\ UNCHANGED <<sys, net, depth, cur, pv, ret, shr, ops, hist>>

\* The key is deleted or its time to live ends.
CacheExpires ==
  /\ cache # <<>>
  /\ cache' = <<>>
  /\ UNCHANGED <<sys, pc, net, rw, mw, pv, ret, inflight, counted, ops, hist>>

-----------------------------------------------------------------------------
(* The route's handler: any program of at most MaxOps calls. *)

Runs(c) == pc[c] = "handler" /\ ops[c] < MaxOps

Counts(c) == ops' = [ops EXCEPT ![c] = @ + 1]

\* The first status a net/http handler names is the status of its response.
Chooses(c, code) ==
  first' = [first EXCEPT ![c] = IF @ = 0 THEN code ELSE @]

HandlerWriteHeader(c) ==
  /\ Runs(c)
  /\ Counts(c)
  /\ \E code \in HandlerCodes :
        /\ Chooses(c, code)
        /\ PutReply(c, cur[c], code, <<>>)
  /\ UNCHANGED <<sys, pc, net, depth, cur, pv, ret, shr,
                 outcome, errs, said, wholes>>

HandlerWrite(c) ==
  /\ Runs(c)
  /\ Counts(c)
  /\ Chooses(c, 200)
  /\ PutWrite(c, cur[c], <<Piece(ops[c] + 1)>>)
  /\ said' = [said EXCEPT ![c] = Append(@, Piece(ops[c] + 1))]
  /\ UNCHANGED <<sys, pc, net, depth, cur, pv, ret, shr,
                 outcome, errs, wholes>>

\* Hijack reaches the RW through every CustomResponseWriter.
HandlerHijack(c) ==
  /\ MayHijack
  /\ Runs(c)
  /\ CanHijack(rw[c])
  /\ Counts(c)
  /\ rw' = [rw EXCEPT ![c].hijacked = TRUE]
  /\ UNCHANGED <<sys, pc, net, mw, pv, ret, shr, hist>>

\* The new owner writes to the connection itself (the 101, frames).
HandlerRaw(c) ==
  /\ Runs(c)
  /\ rw[c].hijacked
  /\ Counts(c)
  /\ Sends(c, [rw[c] EXCEPT !.wire = IF Up(c) THEN Append(@, Raw) ELSE @])
  /\ UNCHANGED <<sys, pc, net, mw, pv, ret, shr, hist>>

\* Mutant: conn.Close deferred after the recover, so run before it.
HandlerPanicCloses(c) ==
  /\ pc[c] = "handler"
  /\ pv' = [pv EXCEPT ![c] = "error"]
  /\ pc' = [pc EXCEPT ![c] = "panic"]
  /\ closed' = [closed EXCEPT ![c] = TRUE]
  /\ UNCHANGED <<sys, peer, rw, mw, ret, shr, ops, hist>>

HandlerPanic(c) ==
  /\ pc[c] = "handler"
  /\ pv' = [pv EXCEPT ![c] = "error"]
  /\ pc' = [pc EXCEPT ![c] = "panic"]
  /\ UNCHANGED <<sys, net, rw, mw, ret, shr, ops, hist>>

HandlerReturn(c) ==
  /\ pc[c] = "handler"
  /\ pc' = [pc EXCEPT ![c] = Outward(depth[c])]
  /\ wholes' = wholes \cup {said[c]}
  /\ UNCHANGED <<sys, net, rw, mw, pv, ret, shr, ops,
                 outcome, errs, first, said>>

-----------------------------------------------------------------------------
(* The middleware chain, on the way out. *)

Leaving(c, kinds) == pc[c] = "up" /\ depth[c] > 0 /\ Chain[depth[c]] \in kinds

\* Mutant: the chain is left two middleware at a time.
AscendTwo(c) ==
  /\ depth' = [depth EXCEPT ![c] = @ - 2]
  /\ pc' = [pc EXCEPT ![c] = Outward(depth[c] - 2)]

Ascend(c) ==
  /\ depth' = [depth EXCEPT ![c] = @ - 1]
  /\ pc' = [pc EXCEPT ![c] = Outward(depth[c] - 1)]

ExitPlain(c) ==
  /\ Leaving(c, {"logger", "cors", "ratelimit", "validation"})
  /\ Ascend(c)
  /\ UNCHANGED <<sys, net, rw, frame, cur, pv, ret, shr, ops, hist>>

\* Mutant: a request that fails goes into the error counter only.
ExitMetricsFailed(c) ==
  LET f == frame[c][depth[c]] IN
  /\ Leaving(c, {"metrics"})
  /\ Ascend(c)
  /\ cur' = [cur EXCEPT ![c] = f.parent]
  /\ inflight' = inflight - 1
  /\ counted' = [counted EXCEPT ![c] = @ + (IF f.status >= 400 THEN 0 ELSE 1)]
  /\ UNCHANGED <<sys, net, rw, frame, pv, ret, cache, ops, hist>>

\* Metrics counts the request (RequestCounter, and with it the other counters)
\* and drops what its CustomResponseWriter holds.
ExitMetrics(c) ==
  /\ Leaving(c, {"metrics"})
  /\ Ascend(c)
  /\ cur' = [cur EXCEPT ![c] = frame[c][depth[c]].parent]
  /\ inflight' = inflight - 1
  /\ counted' = [counted EXCEPT ![c] = @ + 1]
  /\ UNCHANGED <<sys, net, rw, frame, pv, ret, cache, ops, hist>>

\* CacheMiddleware keeps a 200 with a body, then flushes its writer.
ExitCache(c) ==
  LET f == frame[c][depth[c]] IN
  /\ Leaving(c, {"cache"})
  /\ Ascend(c)
  /\ cur' = [cur EXCEPT ![c] = f.parent]
  /\ cache' = IF f.status = 200 /\ f.body # <<>> THEN f.body ELSE cache
  /\ PutReply(c, f.parent, f.status, f.body)
  /\ UNCHANGED <<sys, net, pv, ret, inflight, counted, ops, hist>>

\* Mutant: the gauge is decremented after next, not in a deferred call.
UnwindNoDec(c) ==
  /\ pc[c] = "panic"
  /\ depth[c] > 0
  /\ depth' = [depth EXCEPT ![c] = @ - 1]
  /\ UNCHANGED <<sys, pc, net, rw, frame, cur, pv, ret, shr, ops, hist>>

\* Mutant: the cache is filled in a deferred call, panic or not.
UnwindCaches(c) ==
  /\ pc[c] = "panic"
  /\ depth[c] > 0
  /\ depth' = [depth EXCEPT ![c] = @ - 1]
  /\ cache' = IF Chain[depth[c]] = "cache" THEN frame[c][depth[c]].body
              ELSE cache
  /\ UNCHANGED <<sys, pc, net, rw, frame, cur, pv, ret, inflight, counted,
                 ops, hist>>

\* A panic unwinds one middleware; only Metrics has a deferred call.
Unwind(c) ==
  /\ pc[c] = "panic"
  /\ depth[c] > 0
  /\ depth' = [depth EXCEPT ![c] = @ - 1]
  /\ inflight' = inflight - (IF Chain[depth[c]] = "metrics" THEN 1 ELSE 0)
  /\ UNCHANGED <<sys, pc, net, rw, frame, cur, pv, ret, cache, counted, ops,
                 hist>>

-----------------------------------------------------------------------------
(* The end of handleConnection. *)

\* net and netpoll always defer a recover; http.go only with middleware.
Recovers == Network # "HTTP" \/ ServerChain # <<>>

\* The status NewServer's ErrorHandler answers with.
ErrorCode(v) == IF v = "validation" THEN 400 ELSE 500

\* Mutant: the recovered panic is also returned as an error.
RecoverReturns(c) ==
  /\ pc[c] = "panic"
  /\ depth[c] = 0
  /\ Sends(c, Reply(rw[c], Up(c), ErrorCode(pv[c]), <<ErrorText>>))
  /\ errs' = [errs EXCEPT ![c] = @ + 1]
  /\ pc' = [pc EXCEPT ![c] = "close"]
  /\ ret' = [ret EXCEPT ![c] = "err"]
  /\ outcome' = [outcome EXCEPT ![c] = "panicked"]
  /\ UNCHANGED <<sys, net, mw, pv, shr, ops, first, said, wholes>>

Recover(c) ==
  /\ pc[c] = "panic"
  /\ depth[c] = 0
  /\ IF Recovers /\ onError # "none"
     THEN /\ Sends(c, Reply(rw[c], Up(c), ErrorCode(pv[c]), <<ErrorText>>))
          /\ errs' = [errs EXCEPT ![c] = @ + 1]
     ELSE UNCHANGED <<rw, errs>>
  /\ pc' = [pc EXCEPT ![c] = "close"]
  /\ outcome' = [outcome EXCEPT ![c] = "panicked"]
  /\ UNCHANGED <<sys, net, mw, pv, ret, shr, ops,
                 first, said, wholes>>

\* Mutant: a failed Flush is tried again.
FlushRetries(c) ==
  /\ Network # "HTTP"
  /\ pc[c] = "flush"
  /\ pc' = [pc EXCEPT ![c] = IF rw[c].failed THEN "flush" ELSE "close"]
  /\ outcome' = [outcome EXCEPT ![c] = "returned"]
  /\ UNCHANGED <<sys, net, rw, mw, pv, ret, shr, ops,
                 errs, first, said, wholes>>

\* The handler returned. RW: the last Flush reports an earlier failure.
Flush(c) ==
  /\ Network # "HTTP"
  /\ pc[c] = "flush"
  /\ ret' = [ret EXCEPT ![c] = IF rw[c].failed THEN "err" ELSE "nil"]
  /\ pc' = [pc EXCEPT ![c] = "close"]
  /\ outcome' = [outcome EXCEPT ![c] = "returned"]
  /\ UNCHANGED <<sys, net, rw, mw, pv, shr, ops,
                 errs, first, said, wholes>>

\* The handler returned. net/http sends the header if nobody did.
StdFinish(c) ==
  /\ Network = "HTTP"
  /\ pc[c] = "flush"
  /\ Sends(c, Reply(rw[c], Up(c), 200, <<>>))
  /\ pc' = [pc EXCEPT ![c] = "close"]
  /\ outcome' = [outcome EXCEPT ![c] = "returned"]
  /\ UNCHANGED <<sys, net, mw, pv, ret, shr, ops,
                 errs, first, said, wholes>>

\* The deferred conn.Close; net/http leaves a hijacked connection alone.
Close(c) ==
  /\ pc[c] = "close"
  /\ closed' = [closed EXCEPT ![c] =
                  @ \/ ~(Network = "HTTP" /\ rw[c].hijacked)]
  /\ pc' = [pc EXCEPT ![c] =
              IF ret[c] = "err" /\ Network # "HTTP" THEN "report" ELSE "done"]
  /\ UNCHANGED <<sys, peer, rw, mw, pv, ret, shr, ops, hist>>

\* handleConnection returned an error: ErrorHandler(nil, nil, err). The
\* default one calls a method of the nil writer; netpoll's worker pool
\* recovers that panic, the bare goroutine of net.go does not.
Report(c) ==
  /\ pc[c] = "report"
  /\ pc' = [pc EXCEPT ![c] = "done"]
  /\ errs' = [errs EXCEPT ![c] = @ + (IF onError = "none" THEN 0 ELSE 1)]
  /\ server' = IF onError = "default" /\ Network = "NET"
               THEN "crashed" ELSE server
  /\ UNCHANGED <<onError, listening, net, rw, mw, pv, ret, shr, ops,
                 outcome, first, said, wholes>>

-----------------------------------------------------------------------------

\* The steps of one connection's goroutine.
Middleware(c) ==
  \/ PassThrough(c) \/ RejectCORS(c) \/ RejectRateLimit(c)
  \/ RejectValidation(c) \/ EnterMetrics(c) \/ CacheMiss(c) \/ CacheHit(c)
  \/ ExitPlain(c) \/ ExitMetrics(c) \/ ExitCache(c)

Handler(c) ==
  \/ HandlerWriteHeader(c) \/ HandlerWrite(c) \/ HandlerHijack(c)
  \/ HandlerRaw(c) \/ HandlerPanic(c) \/ HandlerReturn(c)

Serve(c) ==
  \/ ReadRequest(c) \/ ReadFails(c) \/ Middleware(c) \/ Handler(c)
  \/ Unwind(c) \/ Recover(c) \/ Flush(c) \/ StdFinish(c) \/ Close(c)
  \/ Report(c)

\* Nothing is left to do: the process is gone, or it waits in Accept.
Quiet ==
  /\ \/ server = "crashed"
     \/ \A c \in Conns : pc[c] \in {"idle", "done"}
  /\ UNCHANGED vars

Next ==
  \/ /\ server = "up"
     /\ \/ \E c \in Conns : Accept(c) \/ Peer(c) \/ Serve(c)
        \/ ListenerFails
        \/ CacheExpires
  \/ Quiet

\* The Go scheduler runs every goroutine that can run, and handlers return:
\* a handler is a finite program here (MaxOps). Nothing is assumed of peers:
\* a goroutine that waits for a stalled one has no step.
Fairness == \A c \in Conns : WF_vars(server = "up" /\ Serve(c))

Spec == Init /\ [][Next]_vars /\ Fairness

-----------------------------------------------------------------------------
(* Properties. *)

Sent(c, kind) == {i \in 1..Len(rw[c].wire) : rw[c].wire[i].kind = kind}

\* The body the peer has received: its pieces, put together.
BodyOf(wire) ==
  LET b[i \in 0..Len(wire)] ==
        IF i = 0 THEN <<>> ELSE b[i-1] \o wire[i].data
  IN  b[Len(wire)]

\* The handler returned and its exchange is over, with the peer still there
\* and nobody but the server in charge of the connection.
Served(c) ==
  /\ pc[c] = "done"
  /\ outcome[c] = "returned"
  /\ peer[c] # "gone"
  /\ ~rw[c].hijacked

\* Whatever the handler, the middleware, a flushed CustomResponseWriter and
\* the ErrorHandler write, and in whatever order, a connection carries at
\* most one status line, and no body before it: RW.written is set by the
\* first of them and looked at by all.
WellFormed ==
  \A c \in Conns :
    /\ \A i, j \in Sent(c, "status") : i = j
    /\ \A j \in Sent(c, "body") : \E i \in Sent(c, "status") : i < j

\* What the handler wrote is what the peer gets, all of it and in the order
\* of its calls, whichever writers the chain put in between.
BodyIntact ==
  \A c \in Conns :
    Served(c) /\ said[c] # <<>> => BodyOf(rw[c].wire) = said[c]

\* The status of the response is the first one the handler chose, as
\* net/http promises handlers ("superfluous WriteHeader" calls are dropped).
FirstStatusWins ==
  \A c \in Conns :
    Served(c) /\ first[c] # 0 =>
      \A i \in Sent(c, "status") : rw[c].wire[i].code = first[c]

\* A request whose handler returned has an answer, as net/http gives one.
\* TLC refutes it where RW serves the request, whose header only the handler's
\* own calls send (netpool.go:74).
Answered == \A c \in Conns : Served(c) => Sent(c, "status") # {}

\* A panic anywhere below the recover reaches a live peer as the
\* ErrorHandler's text: the recover runs before the deferred Close, and
\* no writer on the way keeps the text to itself.
ErrorReachesPeer ==
  \A c \in Conns :
    /\ pc[c] = "done" /\ outcome[c] = "panicked"
    /\ peer[c] # "gone" /\ ~rw[c].hijacked
    /\ Recovers /\ onError # "none"
    => /\ Sent(c, "body") # {}
       /\ rw[c].wire[Len(rw[c].wire)] = Body(<<ErrorText>>)

\* A recovered panic is not reported a second time as a returned error.
ErrorHandledOnce == \A c \in Conns : errs[c] <= 1

\* Behind CacheMiddleware a response is the handler's or the ErrorHandler's,
\* never a piece of one followed by the other: a panic drops the buffer.
ErrorUnmixed ==
  (\E i \in 1..N : Chain[i] = "cache") =>
    \A c \in Conns :
      LET from == {rw[c].wire[i].data : i \in Sent(c, "body")} IN
      <<ErrorText>> \in from => from = {<<ErrorText>>}

\* The cache holds nothing but the whole body of a handler that returned: not
\* what a handler had written when it panicked, not an error's text.
CachedWhole == cache # <<>> => cache \in wholes

\* The http_concurrent_requests gauge is the number of requests inside the
\* metrics middleware, through panics and rejections.
GaugeExact ==
  inflight = Cardinality({x \in Conns \X (1..N) :
               x[2] <= depth[x[1]] /\ Chain[x[2]] = "metrics"})

Meters == Cardinality({k \in 1..N : Chain[k] = "metrics"})

\* Each metrics middleware counts a request at most once, and one that returns
\* through it for certain, whatever status or body was written inside.
CountedOnce ==
  \A c \in Conns :
    /\ counted[c] <= Meters
    /\ pc[c] = "done" /\ outcome[c] = "returned" => counted[c] = Meters

\* Every request that was read is in the total, as the counters' help text
\* says. TLC refutes it: a panic skips the counting after next
\* (extensions/metrics.go:142).
EveryRequestCounted ==
  \A c \in Conns :
    pc[c] = "done" /\ outcome[c] # "unread" => counted[c] = Meters

\* What happens on one connection does not end the process for the others:
\* violated on net (net.go:32).
ServerStaysUp == server = "up"

\* A connection that its handler took over carries no response body: neither
\* the handler's own, nor a rejection, nor the ErrorHandler's text. Hijack
\* refuses once the header is out, and Write refuses after Hijack.
HijackedNoBody ==
  Network # "HTTP" =>
    \A c \in Conns : rw[c].hijacked => Sent(c, "body") = {}

\* Once hijacked, a connection carries only what its new owner writes, as
\* under net/http. TLC refutes it: RW.WriteHeader does not look at
\* RW.hijacked (writer.go:59).
HijackQuiet ==
  [][\A c \in Conns :
       rw[c].hijacked /\ rw'[c].wire # rw[c].wire
         => rw'[c].wire[Len(rw'[c].wire)] = Raw]_rw

\* A connection accepted is let go, unless its own peer stalls for good: no
\* path through the handler, the middleware, a panic or an I/O error leaves
\* its goroutine behind, and neither does another connection's peer.
EveryConnectionEnds ==
  \A c \in Conns :
    <>[](peer[c] # "stalled") => <>[](pc[c] \in {"idle", "done"})
=============================================================================
