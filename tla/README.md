# A verification project for mahakam

mahakam is a small Go HTTP framework: a server that runs `net/http` handlers on
one of three network frameworks, a set of middleware, a response cache, a rate
limiter and a websocket client with chat rooms. This directory holds TLA+
modules for it, the TLC configurations that check them on small instances, and
theorems about them that TLAPS checks for every value of the constants.

To check a run, `tlc -config <run>.cfg <module>`; to check the proofs,
`tlapm <module>_proofs.tla`. `PROJECT.json` lists the runs, the source lines of
every definition, the mutants (small bugs put into a definition, each of which
breaks the property it is listed with), the hazards and the theorems.

## Inventory

| Part | State it keeps | Operations | What makes it correct | Modelled in |
|---|---|---|---|---|
| Network frameworks `net.go`, `netpool.go`, `http.go` | listener, one goroutine and one connection per peer | accept, read the request, run the chain, recover a panic, flush, close, report an error | a connection ends if its peer does not stall for good; a panic reaches its peer once; one connection cannot end the process | `Connection` |
| Response writers `writer.go`, `extensions/rw.go` | status, written, hijacked, sticky write error; a buffered status and body | WriteHeader, Write, Hijack, Flush | one header and before the body; the whole body; nothing into a hijacked connection | `Connection` |
| Server and its ErrorHandler `server.go` | address, chain, framework, handler of errors | Use, Handle, SetTLS, ListenAndServe | an error is answered when there is somebody to answer | `Connection` (the handler and the choice of framework) |
| Middleware: logger, tracer, validation | none | call next, or panic with an error | transparent, or rejects | `Connection` |
| CORS `middleware/cors.go` | an option object | pass, 403, 204; AddOrigin ... | no answer without a header | `Connection` (outcomes only) |
| Metrics `extensions/metrics.go` | gauge, counters, registration | Middleware, Register, Unregister | the gauge counts the requests inside, the counter each request once; the response gets through | `Connection` (middleware, gauge and request counter) |
| Response cache `extensions/cache.go` | in a store | hit, miss, fill | whole responses only, never an error's; what was deleted does not come back | `Connection` (the responses), `Cache` (the calls of the store) |
| Cache stores `extensions/map.go`, `redis.go` | entries with an expiry, a cleaner | Get, Set, SetWithExpiration, Delete, Exists, Close | both do what the interface promises; nothing expired is served; the expired is removed | `MapCache`, `RedisCache`, `CacheAbs`, `Cache` |
| Rate limiter `middleware/ratelimiter.go` | token buckets under a mutex, a cleaner | Allow, Set, SetWithExpiration, Delete, Cleanup, Close | never more than burst and rate; every request decided | `RateLimiter` |
| Websocket room `websocket/extensions/room.go` | clients, three channels, a stop channel | Run, Enter, Leave, Message, Stop, Close | members get what is broadcast, in order; leaving and stopping always work | `Room`, `RoomAbs` |
| Websocket client and frames `websocket/*.go` | a hijacked connection | Upgrade, Read, Write, Close, EncodeFrame, DecodeFrame | frames arrive as sent, however TCP cuts them; the connection is closed | `Frame`, `WsStream` |

How they interact: a framework's goroutine calls the middleware, which wrap one
another around the mux; all of them write to one `ResponseWriter`, directly or
through a `CustomResponseWriter`, and a panic anywhere goes back through them to
the framework's `recover`. The cache, the metrics, the rate limiter and a room
are shared by all connections. A websocket handler takes the connection over
(`Hijack`) and talks to the room over unbuffered channels.

What is hard in it: the order in which handler, middleware and error handler
write; panics in mid-response; peers that leave, or neither send nor read; shared state under a mutex held
across a call; int64 arithmetic on time; background goroutines that must end;
channels that are closed while others send. `PROJECT.json` lists each hazard at
its line.

The repository has no tests. Where a module needs to know what a dependency does
(`net/http`'s response, netpoll's worker pool, `time.Ticker`), it is modelled
from how this code uses it and marked external.

## Connection

One request per connection, as the frameworks serve it: one goroutine per
connection (`pc`), which reads the request, descends the middleware of `Chain`
(`depth`), runs the handler, ascends (or unwinds a panic), flushes or recovers,
closes, and reports an error. A *chain* is a sequence of kinds of middleware;
the handler is any program of at most `MaxOps` calls of WriteHeader, Write,
Hijack and raw writes, ended by a return or a panic.

* `rw[c]` is the `RW` of `writer.go` with what has reached the peer (`wire`);
  under HTTP it is `net/http`'s response. A `CustomResponseWriter` is a record of
  `frame`, and `cur` is the writer that the running code holds.
* A step of the model is one call on the writer or one middleware's way in or
  out: these are what other connections and the peer can come between. A piece of
  a body says who wrote it and with which of its calls (`Piece(n)`), so that a
  writer that changed the order of two writes would show.
* `server` becomes `"crashed"` when a goroutine panics with nobody to recover:
  that is what `net.go:32` does with the default ErrorHandler, whose writer is
  nil. netpoll's worker pool recovers the same panic.
* Left out: header fields other than the status, TLS, the text of messages. The
  cache has one key, and loses its entry at any time.
* `PeerLeaves` is a peer that goes at any moment: writes then fail, and stick to
  the buffered writer as in `bufio`. `PeerStalls` is one that neither sends nor
  reads, for a while or for good: the code sets no deadline (`net.go:44`,
  `writer.go:46`, `:67`), so `ReadRequest` and every call that has bytes for it
  (`Sends`) wait.

Properties: `WellFormed` (one status line, before any body), `BodyIntact` (the
peer gets what the handler wrote, whole and in order), `FirstStatusWins`,
`ErrorReachesPeer` and `ErrorHandledOnce` (a panic is answered, once),
`ErrorUnmixed` and `CachedWhole` (the cache never sees half a body, and the peer
never half a body and an error), `GaugeExact`, `CountedOnce` (metrics count a
request at most once, and one that returns through them for certain),
`HijackedNoBody` (a connection carries a hijack or a body, not both),
`EveryConnectionEnds` and `ServerStaysUp`.

Fairness: each goroutine that can run does (`WF` on `Serve(c)`). The Go scheduler
is preemptive and a handler here is a finite program. A goroutine that waits for a
stalled peer has no step, so nothing is assumed of peers, nor of the listener or
of the cache's clock. `EveryConnectionEnds` therefore has the premise that the
connection's own peer does not stall for good; that another one's does is no
excuse.

| Run | Instance | Shows |
|---|---|---|
| `ConnNetpoll` | netpoll, CORS and rate limiter, default or no ErrorHandler, hijacking handlers of two calls | the writer's and the recover's properties hold; no body after a hijack |
| `ConnNet` | net, a cached route, own ErrorHandler, handlers of two calls | two connections that share a cache: whole bodies only, in the order of the writes, through a buffer or from the cache; a connection ends if its peer does not stall for good |
| `ConnHTTP` | net/http, logger, metrics, a validated route, hijacking handlers | panics from the handler or the validation reach the peer; exact gauge; what returns is counted once |
| `ConnMetricsBody` | netpoll behind the metrics | **violated**: `Metrics.Middleware` never flushes its writer, so no response gets through |
| `ConnNetCrash` | net, default ErrorHandler | **violated**: one unreadable request ends the process |

Bounds: two connections are enough for one to act between any two steps of
another, and the properties relate at most two; handlers of two calls cover a
header and a body, two bodies, two headers, a hijack and a raw write, each with
a panic at any place between. Without `Recovers` (net/http with no server middleware)
a panic is net/http's. What net/http does after a hijack, or for a silent handler, is
its own: no run makes a claim of it.

Three more statements at the end of the module fail, and have no run; each takes one
connection and a handler of two calls:

| Statement | Put into | Fails because |
|---|---|---|
| `EveryRequestCounted` | `ConnHTTP.cfg` | the counters are incremented after next returns (`metrics.go:142`): a request that panics, a refused one included, is not in "the total number of processed events" (`metrics.go:30`) |
| `Answered` | `ConnNetpoll.cfg` | `RW` sends a header only from WriteHeader or Write (`netpool.go:74`): a handler that calls neither leaves its peer with nothing |
| `HijackQuiet` (a PROPERTY) | `ConnNetpoll.cfg` | `RW.WriteHeader` does not look at `hijacked` (`writer.go:59`): a status line goes into a connection that has another owner, from the handler or the ErrorHandler |

## RateLimiter

`InMemoryRateLimiter`. A method's body between Lock and Unlock is one step that
waits for the mutex; the mutex is a variable because one method keeps it: `Allow`
calls itself on an expired bucket (`ratelimiter.go:168`) before its deferred
Unlock has run. The clock (`now`) ticks `TicksPerSec` times a second, so that
whole seconds are lost and kept as in the code (`LastRefill` moves only when
seconds are paid). Integers wrap at `MaxInt` (2^63-1 in the code; 3 in the runs,
so that sums overflow). The cleaner is a goroutine with a ticker that drops
ticks. `granted`, `born` and `refusedAt` are history: what a bucket has admitted,
since when, and since when it refuses.

* `RateBound`: a bucket has admitted at most its capacity and its rate for every
  whole second since it was made. It holds under overflow too: a wrapped sum can
  only pay less.
* `RetryAfterHonest`: the 429 says `Retry-After: 1`; a client is not refused a
  second after its first refusal, however often it retries in between, as long
  as the bucket's sums fit.
* `DecidedUnlessStuck`: every request gets through the limiter unless an Allow
  has met an expired bucket; `EveryRequestDecided`, without that exception, is
  **violated** (`RateExpired`): one such request stops the limiter for all.
* `CleanerEnds`: Close ends the cleaner's goroutine, with a tick waiting or a
  sweep under way.

Fairness: a request inside the limiter and the cleaner run when they can; the
mutex is free between any two steps unless the recursive Allow keeps it, so
weak fairness is what Go's mutex gives (a waiter is not passed over for ever).
Nothing is assumed of the operator, the ticker or the clock.

Bounds of `RateLimit`: one key (buckets share nothing but the mutex), two
clients, limits 0, 1 and the largest integer, two ticks a second and four ticks,
that is two payments of a bucket or one and an expiry. Limits below 0, which
`Set` would accept, are not modelled. Get, GetWithExpiration and Exists change
nothing; the values of the middleware's headers decide nothing.

CHECK_DEADLOCK is off for these runs: the clock is bounded, and a limiter whose
mutex is lost stops.

## Room

`Room` of `websocket/extensions/room.go`, with the chat handler of
`example/websocket` as its client. The goroutines are the loop of `Room.Run` and
others that call `Broadcast` (`at`, `job`, `todo`), one handler per client (`pc`)
and one that calls Stop (`stopper`).

* A send on an unbuffered channel and the loop's receive are one step (`Enter`,
  `Leave`, `Post`, `Stop`). Add and Remove hold the mutex for one step; a
  broadcast holds it (`mutex`) from `Lock` to `Unlock` and writes to the members
  in any order in between, one step each, as a range over a map does.
* `link` is a client's connection: a write to a `"stalled"` peer waits, one to a
  `"broken"` connection fails. A close frame is such a write, and it is written
  before the connection is closed.
* `CloseChannels` is the end of `Room.Close` and the call of `OnClose`; from then on
  a handler's send panics (`SendPanics`). The framework recovers that panic and
  the handler's deferred Close still runs. Without `OnClose`, as in the example,
  the loop's goroutine panics and the process ends.
* `ReadPanics` is `DecodeFrame` on a frame whose length is negative as an int
  (`frame.go:74`): the handler unwinds past its Leave, and only the deferred Close
  runs. `panicked` keeps where a handler has panicked.
* The callbacks do nothing. Calls of the exported Add, Remove and Close from
  outside the loop are left out; Count, Has and Clients change nothing. What a
  handler reads that is not a message (an empty read, JSON that does not parse)
  changes nothing either.

`RoomAbs` is the promise: members, what each is still to get (`queue`), and what it
got last. `Room` implements it (`KeepsPromise`): a client's abstract queue is the
message of the broadcast that holds the mutex, while the range has not come to
the client. So every member of that moment gets every broadcast, in the order in
which they took the mutex; it misses one only if its connection is broken or, in
a restricted room, some member's is (`GiveUp`).

* `Membership`: `Room.clients` is the set of clients between their Enter and their
  Leave, and of those that a panic took past their Leave, but for the one the loop
  is about to add or remove.
* `LeaveReturns`, `StopReturns`: a handler that leaves and a caller of Stop get
  through, whatever broadcast, stop or failed write is under way.
* `StopEndsHandlers`: once the loop has ended every handler ends.
* `StopHarmsNobody`: **violated** (`RoomStop`): Stop makes handlers panic.

Two more statements fail, and have no run. `NoneLeftBehind`: a client whose handler has
ended is not in the room. In `Room.cfg` TLC shows the read that panics
(`frame.go:74`), after which Count and Clients go on reporting the client, and every
broadcast tries its closed connection. `StopSparesProcess`: Stop does not end the
process. With `Options <- ExampleRoom`, the option of the example, which has no
`OnClose`, it does (`room.go:87`).

The three liveness properties hold if from some time on every peer reads or is
gone (`PeersRead`). They need it: no write has a deadline, and a broadcast holds
the mutex, so one peer that never reads holds up everybody.

Fairness: the loop, a handler that has something to do and an announcer run when
they can, `WF` each; Go's mutex and its select pass nobody over for ever, and here
the calls that compete are finitely many. Nothing is assumed of peers, nor that
anybody enters or stops.

Bounds of `Room`: two clients (a broadcast that is half done, a broken member
beside a live one), both of whose peers may stall, one announcer beside the loop,
one posted message, rooms with and without restricted broadcasts. Deadlock is
checked: `Quiet` is the only way to stop, with everybody done or with the process.

## Cache

`Cache` is an application behind `extensions/cache.go`: requests go through
`CacheMiddleware` (`pc`: its Get, the handler, its Set), and a writer changes what
the handlers show (`version`) and calls the store itself. `store` is one of the two
stores, `MapCache` or `RedisCache`, instances of their own modules.

* A call of the store is three steps: `Issue`, what the store does, and the return.
  What `MapCache` does under its mutex is one step (`Do`). A method of `RedisCache`
  checks its arguments when it is called (`Px`, `Refused`) and hands the client a
  command. `Serve` is the server's work on it.
* `Retry`, `GiveUp`, `ServeLate`, `DropLate` and `Lose` are the client library, the
  network and the server, which the repository does not have: an attempt that
  times out is made again or given up, what it sent may still arrive (`late`), and
  the server may lose keys. They are marked external.
* The clock has `TicksPerSec` ticks in a second: `MapCache` counts in whole seconds
  and keeps an entry to the end of its last one, Redis counts in ticks.
* `cleaner` is the goroutine of `startCleaner`; a tick that finds nothing to remove is
  left out. After Close the select may still take a tick.
* Left out: times to live of 0 or less (`SetDefaultTTL` would take them, and the
  stores differ), a second Close (a panic of its caller), the ping of
  `NewRedisCache`, and values but for what the middleware tells apart: a body, nil,
  and something that is not a []byte.

`CacheAbs` is the promise of the interface: a write that returns without an error
has taken effect between its call and its return; what was written can be got
until its time is over and less than a second longer, and exists until it is
swept, some time after that. A *lossy* store may lose entries, not answer, and let
a write take effect twice or after its caller has gone on. `KeepsPromise`:
`MapCache` implements it, and `RedisCache` its lossy form; the abstract entry is what
can be got, the abstract `sent` are the calls that wait and the late commands.

* `Fresh`: a request does not get a body older than a Delete of its key that
  returned before the request began, unless that body was on its way into the store
  when the Delete took effect. `floor` keeps what may still come back: the code has
  no way to tell a slow handler's Set from a new one (`cache.go:36` to `:56`).
* `ExpiredRemoved`: an expired entry, which `Get` hides and `Exists` shows, is removed
  while the cleaner is there.
* `RequestsEnd`: a request ends whatever the store answers, or if Redis does not.

Fairness: a request's own steps, `MapCache`'s and those of the Redis client (its
time-outs are its own) are taken, one `WF` for each request, and the cleaner's ticker
ticks. The server and the network owe nothing.

Bounds of `Cache`: one key (the stores keep keys apart), one request goroutine,
which serves one request after another, and one writer, so that a slow fill, a
delete and a next request can meet; two versions; two seconds of two ticks, so
that entries are live, in their last second and expired; deadlines of 0 (never,
or refused) and 1, which is ahead, now and over within four ticks; one late command at a time. The
run checks deadlock: the writer can always call.

## WsStream

One connection after `Upgrade`: the read loop of `example/websocket`, the room that
writes to it and stops, and a peer that frames as RFC 6455 has it. `stream` and `out`
are the bytes under way to the server and to the peer; TCP keeps them in order and
a read takes any number of them (`Reads`).

* `Frame` has `DecodeFrame` and `EncodeFrame` as operators on sequences of bytes, with
  a byte of `ByteValues` values, so that both changes of the length's form and the
  top bit of a 64-bit length fit a small model. `Uint` and `PutUint` are
  `encoding/binary`'s, with the digits' values from `Power`. The exclusive or of the
  mask is a parameter, `XorByte`, of which `XorAssumption` says that it gives bytes and
  undoes itself; the runs give it the real one (`BitXor`). A length that is negative
  as an int makes the slice expression panic: the outcome `"panic"`.
* `Client.Read` decodes the whole buffer, whatever part was read: the rest of it is
  zeros, and what follows the first frame is lost. An error or a panic ends the loop.
* `Client.Close` is `CloseFrame` and `CloseConn`, by the handler's defer and by
  `Room.Close`, interleaved. It returns early when the frame cannot be written
  (`CloseFails`); then the framework's own deferred Close (`net.go:40`) is what closes
  the connection (`FrameworkCloses`).
* `room` is where the room is, as far as this connection can tell: it runs, it waits
  for another client's peer in a write (`"held"`), it has taken this client's Leave,
  it closes its clients, it is over. `Post` and `LeaveRoom` are sends on its unbuffered
  channels: they wait while the loop does, and panic when it is over.
* Left out: `Upgrade`'s look at the headers and its digest, fragments, control frames
  other than CLOSE (the code treats each frame as a message and answers none).

`ReadsInOrder`: as long as every read has ended at the end of a frame, the handler
gets only messages that were sent, unmasked, in order and once each, and goes on
reading. `ReadsEachFrame`, without that proviso, is **violated** (`WsRead`): one byte
of a frame, read alone, is taken for an empty message. `WritesArrive`: what was
written is what the peer reads, at every form of the length. `ConnectionEnds`: when
the peer has gone or the room has closed the connection, the handler ends and the
connection is closed, through errors, panics and close frames that fail, unless the
room waits for another client's peer for ever (`RoomGoesOn`): the handler has to get
its Leave to the loop first. Without that premise TLC finds the handler stuck.

Fairness: one `WF` on `Moves`, the steps that neither a peer nor the loop's other
clients can hold up. A close frame is a write, which may wait for ever, and so may
the loop. The peer owes nothing.
`ConnectionEnds` rests on the deferred Close of net and netpoll: net/http leaves
a hijacked connection to its owner, and there `websocket.go:92` leaks it.

Bounds of `WsStream`: two frames from the peer, one of each form of the length (1, 6
and 16), and its CLOSE; one broadcast, of the smallest payload of either extended form
(6 and 16), where an off-by-one would show, and up to two close frames, which are
short; a buffer that holds two short frames or one of the first extended form, but
not the longest, which is read in pieces. CHECK_DEADLOCK is off: everything may have been said.

## Proofs

What a run shows on its instance the theorems below show for every value of the
constants that the module's ASSUMEs allow: `PROJECT.json` gives the property of
each. Every invariant of a passing run is a theorem, and so are its action
properties and the two refinements. Each proof has the same shape: an inductive invariant
that TLC has also checked on the run's instance, one step per action for what the
action can disturb, lemmas for what an operator of the model does.

| Module | Theorems |
|---|---|
| `Connection_proofs` | `TypeCorrect`, `OneHeader` |
| `ConnFlow_proofs` | `HandledOnce`, `GaugeCorrect`, `CountCorrect` |
| `ConnWire_proofs` | `ErrorTold`, `HijackerKeeps`, `FirstChosen` |
| `ConnCache_proofs` | `CacheWhole`, `NeverMixed`, `BodyWhole` |
| `RateLimiter_proofs` | `TypeCorrect`, `RateBounded`, `RetryAfterKept` |
| `Room_proofs` | `TypeCorrect`, `MembershipHolds`, `PromiseKept` |
| `Cache_proofs` | `TypeCorrect`, `NothingStale`, `ImplementsCacheAbs` |
| `WsStream_proofs` | `DecodesEncoded`, `DecodesWithin`, `TypeCorrect`, `ReadsOrdered`, `WritesWhole` |

### Connection

For every set of connections, framework, chain, handler length and error handler;
each of the four modules extends the one before it.

* `OneHeader` (`WellFormed`): `IInv` adds that a status line or a body on the wire
  implies `written`, that there is at most one status line and that it comes before
  every body. Every write to a connection goes through `WriteHeader` and `Write`,
  lemmas of their own.
* `HandledOnce`, `GaugeCorrect`, `CountCorrect` rest on `FlowInv`: what a
  connection's step says of its depth in the chain, of its outcome and of who has
  dealt with its error. `GaugeInv` says that the gauge is the number of pairs of a
  connection and a metrics middleware it is inside of, so that a panic which leaves
  several at once is one set difference. `Counted` compares the counter with the
  metrics middleware further in than the connection's depth.
* `ErrorTold`, `HijackerKeeps`, `FirstChosen` rest on `WireInv`: what
  the writer of a connection has, and in particular that on a `bufio.Writer` no
  write of a live connection has failed. `Told`, `Bodiless` and `Chosen` say it of the
  last thing on the wire, of the body of a hijacked connection and of the first status.
* `CacheWhole`, `NeverMixed`, `BodyWhole` say something of every writer a middleware
  has wrapped around another one. `NestInv`: those inside a connection's depth are
  nested, the innermost is the current one. `Held`: what each of them has in its
  buffer at each step of the request, nothing but in the innermost one. `Clean`:
  the text of an error is in no buffer and not in the cache. `Intact`: the body on
  the wire and the innermost buffer, one after the other, are what the handler has
  said, piece by piece in the order of the calls. `WhoseText` says whose pieces these
  are. `BodyOf` is a recursive function; what it does with one more item
  (`BodyOfAppend`) is proved by a least counterexample (`LeastNat`, `NatSet`), the
  library's induction theorems being out of reach.

Three of them have a hypothesis on the constants. Each is as wide as the code
allows, and what it leaves out is what the code really does:

| Theorem | Hypothesis | Without it |
|---|---|---|
| `CountCorrect` | `MetricsOutside` | metrics inside a middleware that answers by itself are rightly not reached |
| `FirstChosen` | `Plain`: no middleware wraps the writer | a `CustomResponseWriter` forwards the last status |
| `BodyWhole` | `NoMetrics` | metrics drop the body: run `ConnMetricsBody` |

### RateLimiter

For every set of keys, clients and limits, every clock resolution and integer width.

* `TypeCorrect`: the tokens of an overflowing refill included.
* `RateBounded`: the inductive invariant `Bounded` of a bucket says that what it has
  admitted *and still holds* is within what it was made with and what it was paid up
  to `LastRefill`. A refill pays for the seconds since `LastRefill`, and whole
  seconds only lose from being counted in parts (`SecondsFacts`, `PayFacts`); a
  wrapped value is never above the value that was wrapped (`WrapRange`).
* `RetryAfterKept` is an action property: it compares the history of a refusal with
  the step that refuses again. `Patient` says that a bucket which owes a client a
  token has not moved its `LastRefill` past the refusal, because a refusal writes
  nothing; a second later the refill pays at least one (`RefillPays`), if no sum
  wraps (`WrapFits`).

### Room

For every set of clients and announcers, every option, any number of messages and
any set of peers that stall.

* `TypeCorrect`: `Typed` adds that a handler that is to post has counted its message,
  and that a job that changes the map comes from a client.
* `MembershipHolds`: `Membership` excepts the client that the loop is about to add or
  remove; `Moved` says where that client's handler is, so that the step of the map
  restores the equivalence. `Unwound`: a handler that has panicked in a read never
  comes back to the room.
* `PromiseKept`: every step of `Room` is one of `RoomAbs` or none. It needs
  `Exclusive`: only the goroutine with the mutex is writing, so a client's abstract
  queue is the message of at most one broadcast. `Lock` is Publish, a write is
  Receive, Miss or GiveUp, `CloseChannels` is Shut.

### Cache

For any requests, writers and keys, any clock resolution, times to live and
deadlines, and any bounds on time, versions and late commands.

* `TypeCorrect`: `Typed` adds that a call carries its caller's name, that a late
  command is a write of a body or a delete, and what a request has and waits for at
  each of its steps (`Placed`).
* `NothingStale` (`Fresh`): `Newer` says that whatever is in the store, on its way into
  it or in a handler is no older than the floor of its key, and that a request began
  at this floor or a lower one. A delete may raise the floor no further than to what
  is on its way (`FloorBound`), and takes away what is stored.
* `ImplementsCacheAbs` (`KeepsPromise`): Issue is Call, `Do` is Get, Exists, Finish or
  Fail, and for Redis `Serve` is Get, Exists or Finish, `Retry` Copy, a refusal Fail,
  giving up Fail or a Get that misses, a late command Finish or Drop, and an entry
  that is swept or lost Sweep. `Timely` is what the times need: a time to live worked
  out at the call, from a clock rounded down to a second, reaches the deadline
  however late the command arrives, and a command that Redis would be asked to keep
  for no time has not been sent. `MapTimes` relates the seconds of `MapCache` to the
  ticks of the promise.

The hypotheses are the two ASSUMEs of `Cache`: numbers are numbers, requests and
writers are different goroutines, and the values that stand for answers, for no
entry and for nil can be told apart.

### WsStream

For every size of a byte, a length, a key and a buffer, every key and every payload
that a length can carry. The proof goes from numbers to bytes to streams:

* Numbers. `Power` and the sum in `Uint` are recursive functions. That they satisfy
  their recursions is shown by induction on how far they are defined
  (`PowersExist`, `PowersAgree`, `UintCounts`), from the same set induction as in
  `ConnCache_proofs`. `UintPutUint`: a number written in enough bytes is read back.
* Frames. `EncodeForm` and `WireForm`: what the server and the peer write has one
  `Form`, a first byte, a length in one of three forms, a key or none, and data.
  `DecodeForm` and `HearForm`: who finds these bytes at the beginning of a buffer, zeros
  or other frames behind them, reads the length, the key and the data back.
  `DecodesEncoded` is what follows for the two functions of `frame.go`. It asks that
  the buffer's length is an int, as that of a slice is. `DecodesWithin` is about every
  buffer, also one that is no frame: `DecodeFrame` takes nothing from outside it.
* Streams. `Framed(s, fs, k)` says that the bytes of `s` are the frames of `fs` after
  the first `k`. It is kept when a frame is added at the end (`FramedAppend`) or the
  first one is taken away (`FramedFirst`), and a stream that is cut behind a byte that
  only ends frames is cut between two (`FramedCut`).
* `StreamInv`, the inductive invariant. `Outgoing`: the peer has read the first
  messages that were written, and what is on its way is the others, encoded. `Incoming`:
  as long as every read has ended with a frame, what is left of the stream is the frames
  behind some `k`, and what the handler got is some of the first `k` messages. A read
  moves `k` by as many frames as it took, and hands on the first of them. `Ending` says
  that neither the handler nor the room ends before the peer has gone or the
  connection is closed. `ReadsInOrder`
  and `WritesArrive` alone are not inductive: they say nothing of bytes on their way.

The hypotheses are the ASSUMEs of `Frame` and `WsStream`: a byte has room for the bits of
the header, the exclusive or undoes itself, a buffer has two bytes or more and its
length is an int, and payloads are no longer than a length can say.

### What stays with TLC

* Liveness, under the fairness each section gives: `EveryConnectionEnds`,
  `DecidedUnlessStuck`, `CleanerEnds`, `LeaveReturns`, `StopReturns`, `StopEndsHandlers`,
  `ExpiredRemoved`, `RequestsEnd`, `ConnectionEnds`. The prover has no fairness.
* The violations: what they show is a behaviour, not an invariant.

## Plan

Modelled: `Connection`, `RateLimiter`, `Room` with `RoomAbs`, `Cache` with `CacheAbs`,
`MapCache` and `RedisCache`, `WsStream` with `Frame`. Proved: every safety property of
a passing run. What could follow, in this order:

1. `Connection` and `Room` in one module: a chat handler on a hijacked connection, whose
   stalled peer holds up both.
2. `Upgrade`'s headers and its answer, before `WsStream` begins.

## Not modelled

Build files have no behaviour. Registration and configuration (`Use`, `SetTLS`,
`Metrics.Register`, the options of CORS and their shared default) are over before
a request is served: the hazards of theirs that `PROJECT.json` lists are mistakes
of one sequential call, which a test shows as well. Of the examples, the chat handler is in
`Room` and `WsStream`, the cached routes in `Cache`, and the others supply the chains of
the runs. What each modelled part leaves out is said in its section. TLS, header
fields, JSON, Prometheus and OpenTelemetry values, the validator's rules and the
websocket digest are data that no property tells apart.
