--------------------------------- MODULE Room ---------------------------------
(***************************************************************************)
(* A chat room (websocket/extensions/room.go) and the handlers that use it *)
(* (example/websocket/websocket.go). The goroutine of Room.Run takes what  *)
(* handlers send it over unbuffered channels; it and any goroutine that    *)
(* calls Broadcast write to the members one by one with the room's mutex   *)
(* held; Stop ends the loop, which closes the members and the channels.    *)
(*                                                                         *)
(* Callbacks do nothing here: what an application's do is its own.         *)
(***************************************************************************)
EXTENDS Naturals, Sequences

CONSTANTS
  Clients,    \* connections, each with the goroutine of its handler
  Announcers, \* other goroutines, which call Broadcast once
  Run,        \* the goroutine of Room.Run
  NoOne,      \* nobody holds the mutex
  Nothing,    \* no message
  Options,    \* what the application may configure
  Slow,       \* bound: clients whose peer may stop reading for a while
  MaxPosts    \* bound: messages the peers send, together

ASSUME RoomAssumption ==
  /\ Options \subseteq [restricted : BOOLEAN, onClose : BOOLEAN]
  /\ Slow \subseteq Clients
  /\ MaxPosts \in Nat
  /\ Run \notin Announcers
  /\ NoOne \notin Announcers \cup {Run}

Senders == Announcers \cup {Run}

Messages == [kind : {"enter", "leave"}, from : Clients, n : {0}]
            \cup [kind : {"post"}, from : Clients, n : 1..MaxPosts]
            \cup [kind : {"note"}, from : Announcers, n : {0}]
Message(kind, from, n) == [kind |-> kind, from |-> from, n |-> n]

VARIABLES
  option,   \* Room.Option: RestrictedBroadcast, and whether OnClose is set
  process,  \* "up", or "crashed" by a panic in the loop's goroutine
  clients,  \* Room.clients
  open,     \* Enter, Leave and Message are not closed
  mutex,    \* who holds Room.Mutex between two steps
  at,       \* where the loop and the announcers are
  job,      \* the message each has to broadcast
  todo,     \* the clients its range has still to come to
  stopper,  \* the goroutine that calls Stop
  pc,       \* where each client's handler is
  posts,    \* messages the handlers have read, together
  panicked, \* where the handler's goroutine has panicked, if it has (the server
            \* recovers it): in a read, or in a send to the room
  link,     \* a connection: "up", "stalled": its peer does not read, or
            \* "broken": closed by either side
  heard     \* history: the last message that reached each peer

loop    == <<mutex, at, job, todo>>
handler == <<pc, posts, panicked>>
vars    == <<option, process, clients, open, loop, stopper, handler,
             link, heard>>

TypeOK ==
  /\ option \in Options
  /\ process \in {"up", "crashed"}
  /\ clients \subseteq Clients
  /\ open \in BOOLEAN
  /\ mutex \in Senders \cup {NoOne}
  /\ at \in [Senders -> {"select", "update", "lock", "write", "shut",
                         "closing", "done"}]
  /\ job \in [Senders -> Messages \cup {Nothing}]
  /\ \A x \in Senders : at[x] \in {"update", "lock", "write"}
                          => job[x] \in Messages
  /\ todo \in [Senders -> SUBSET Clients]
  /\ stopper \in {"idle", "stopping", "done"}
  /\ pc \in [Clients -> {"idle", "enter", "read", "send", "leave", "close",
                         "done"}]
  /\ posts \in 0..MaxPosts
  /\ panicked \in [Clients -> {"no", "read", "send"}]
  /\ link \in [Clients -> {"up", "stalled", "broken"}]
  /\ heard \in [Clients -> Messages \cup {Nothing}]

Init ==
  /\ option \in Options
  /\ process = "up"
  /\ clients = {}
  /\ open = TRUE
  /\ mutex = NoOne
  /\ at = [x \in Senders |-> IF x = Run THEN "select" ELSE "lock"]
  /\ job = [x \in Senders |-> IF x = Run THEN Nothing ELSE Message("note", x, 0)]
  /\ todo = [x \in Senders |-> {}]
  /\ stopper = "idle"
  /\ pc = [c \in Clients |-> "idle"]
  /\ posts = 0
  /\ panicked = [c \in Clients |-> "no"]
  /\ link = [c \in Clients |-> "up"]
  /\ heard = [c \in Clients |-> Nothing]

-----------------------------------------------------------------------------
(* The other end of a connection. *)

PeerStalls(c) ==
  /\ c \in Slow
  /\ pc[c] # "idle"
  /\ link[c] = "up"
  /\ link' = [link EXCEPT ![c] = "stalled"]
  /\ UNCHANGED <<option, process, clients, open, loop, stopper, handler, heard>>

PeerReads(c) ==
  /\ link[c] = "stalled"
  /\ link' = [link EXCEPT ![c] = "up"]
  /\ UNCHANGED <<option, process, clients, open, loop, stopper, handler, heard>>

PeerLeaves(c) ==
  /\ pc[c] # "idle"
  /\ link[c] # "broken"
  /\ link' = [link EXCEPT ![c] = "broken"]
  /\ UNCHANGED <<option, process, clients, open, loop, stopper, handler, heard>>

\* A write is done, with or without an error: to a stalled peer it waits.
Writes(c) == link[c] # "stalled"

-----------------------------------------------------------------------------
(* A client's handler. *)

Upgrade(c) ==
  /\ pc[c] = "idle"
  /\ pc' = [pc EXCEPT ![c] = "enter"]
  /\ UNCHANGED <<option, process, clients, open, loop, stopper, posts,
                 panicked, link, heard>>

ReadMessage(c) ==
  /\ pc[c] = "read"
  /\ link[c] # "broken"
  /\ posts < MaxPosts
  /\ posts' = posts + 1
  /\ pc' = [pc EXCEPT ![c] = "send"]
  /\ UNCHANGED <<option, process, clients, open, loop, stopper, panicked, link,
                 heard>>

ReadFails(c) ==
  /\ pc[c] = "read"
  /\ link[c] = "broken"
  /\ pc' = [pc EXCEPT ![c] = "leave"]
  /\ UNCHANGED <<option, process, clients, open, loop, stopper, posts,
                 panicked, link, heard>>

\* A frame that does not decode is an error like any other.
ReadRefuses(c) ==
  /\ pc[c] = "read"
  /\ link[c] # "broken"
  /\ pc' = [pc EXCEPT ![c] = "leave"]
  /\ UNCHANGED <<option, process, clients, open, loop, stopper, posts,
                 panicked, link, heard>>

\* A frame with a length that makes DecodeFrame slice out of bounds: the handler
\* unwinds past its BroadcastLeave, and only what is deferred still runs.
ReadPanics(c) ==
  /\ pc[c] = "read"
  /\ link[c] # "broken"
  /\ pc' = [pc EXCEPT ![c] = "close"]
  /\ panicked' = [panicked EXCEPT ![c] = "read"]
  /\ UNCHANGED <<option, process, clients, open, loop, stopper, posts, link,
                 heard>>

\* A send on a channel that Close has closed, whether the handler was waiting
\* in it or comes to it later.
SendPanics(c) ==
  /\ pc[c] \in {"enter", "send", "leave"}
  /\ ~open
  /\ pc' = [pc EXCEPT ![c] = "close"]
  /\ panicked' = [panicked EXCEPT ![c] = "send"]
  /\ UNCHANGED <<option, process, clients, open, loop, stopper, posts, link,
                 heard>>

\* The deferred client.Close, and the framework's conn.Close behind it.
CloseOwn(c) ==
  /\ pc[c] = "close"
  /\ Writes(c)
  /\ link' = [link EXCEPT ![c] = "broken"]
  /\ pc' = [pc EXCEPT ![c] = "done"]
  /\ UNCHANGED <<option, process, clients, open, loop, stopper, posts,
                 panicked, heard>>

Handler(c) == ReadFails(c) \/ SendPanics(c) \/ CloseOwn(c)

-----------------------------------------------------------------------------
(* The loop's select: a channel's two ends move together. *)

Selects == at[Run] = "select" /\ open

Enter(c) ==
  /\ Selects
  /\ pc[c] = "enter"
  /\ pc' = [pc EXCEPT ![c] = "read"]
  /\ job' = [job EXCEPT ![Run] = Message("enter", c, 0)]
  /\ at' = [at EXCEPT ![Run] = "update"]
  /\ UNCHANGED <<option, process, clients, open, mutex, todo, stopper, posts,
                 panicked, link, heard>>

\* Mutant: the farewell goes out on Message.
LeaveAsPost(c) ==
  /\ Selects
  /\ pc[c] = "leave"
  /\ pc' = [pc EXCEPT ![c] = "close"]
  /\ job' = [job EXCEPT ![Run] = Message("post", c, 0)]
  /\ at' = [at EXCEPT ![Run] = "lock"]
  /\ UNCHANGED <<option, process, clients, open, mutex, todo, stopper, posts,
                 panicked, link, heard>>

Leave(c) ==
  /\ Selects
  /\ pc[c] = "leave"
  /\ pc' = [pc EXCEPT ![c] = "close"]
  /\ job' = [job EXCEPT ![Run] = Message("leave", c, 0)]
  /\ at' = [at EXCEPT ![Run] = "update"]
  /\ UNCHANGED <<option, process, clients, open, mutex, todo, stopper, posts,
                 panicked, link, heard>>

Post(c) ==
  /\ Selects
  /\ pc[c] = "send"
  /\ pc' = [pc EXCEPT ![c] = "read"]
  /\ job' = [job EXCEPT ![Run] = Message("post", c, posts)]
  /\ at' = [at EXCEPT ![Run] = "lock"]
  /\ UNCHANGED <<option, process, clients, open, mutex, todo, stopper, posts,
                 panicked, link, heard>>

Stop ==
  /\ Selects
  /\ stopper = "stopping"
  /\ stopper' = "done"
  /\ at' = [at EXCEPT ![Run] = "shut"]
  /\ UNCHANGED <<option, process, clients, open, mutex, job, todo, handler,
                 link, heard>>

\* Mutant: the client of a Leave stays in the map.
UpdateAddsOnly ==
  /\ at[Run] = "update"
  /\ mutex = NoOne
  /\ clients' = clients \cup {job[Run].from}
  /\ at' = [at EXCEPT ![Run] = "lock"]
  /\ UNCHANGED <<option, process, open, mutex, job, todo, stopper, handler,
                 link, heard>>

\* Room.Add and Room.Remove.
Update ==
  /\ at[Run] = "update"
  /\ mutex = NoOne
  /\ clients' = IF job[Run].kind = "enter" THEN clients \cup {job[Run].from}
                ELSE clients \ {job[Run].from}
  /\ at' = [at EXCEPT ![Run] = "lock"]
  /\ UNCHANGED <<option, process, open, mutex, job, todo, stopper, handler,
                 link, heard>>

-----------------------------------------------------------------------------
(* Room.Broadcast, in the loop or in another goroutine. *)

\* Mutant: RLock for Lock, so that broadcasts overlap.
LockShared(x) ==
  /\ at[x] = "lock"
  /\ mutex' = x
  /\ todo' = [todo EXCEPT ![x] = clients]
  /\ at' = [at EXCEPT ![x] = "write"]
  /\ UNCHANGED <<option, process, clients, open, job, stopper, handler, link,
                 heard>>

Lock(x) ==
  /\ at[x] = "lock"
  /\ mutex = NoOne
  /\ mutex' = x
  /\ todo' = [todo EXCEPT ![x] = clients]
  /\ at' = [at EXCEPT ![x] = "write"]
  /\ UNCHANGED <<option, process, clients, open, job, stopper, handler, link,
                 heard>>

Deliver(x, c) ==
  /\ at[x] = "write"
  /\ c \in todo[x]
  /\ link[c] = "up"
  /\ heard' = [heard EXCEPT ![c] = job[x]]
  /\ todo' = [todo EXCEPT ![x] = @ \ {c}]
  /\ UNCHANGED <<option, process, clients, open, mutex, at, job, stopper,
                 handler, link>>

\* Mutant: a write that failed is tried again.
WriteRetries(x, c) ==
  /\ at[x] = "write"
  /\ c \in todo[x]
  /\ link[c] = "broken"
  /\ UNCHANGED vars

\* OnError, or the end of a restricted broadcast, whose error Run drops.
WriteFails(x, c) ==
  /\ at[x] = "write"
  /\ c \in todo[x]
  /\ link[c] = "broken"
  /\ todo' = [todo EXCEPT ![x] = IF option.restricted THEN {} ELSE @ \ {c}]
  /\ UNCHANGED <<option, process, clients, open, mutex, at, job, stopper,
                 handler, link, heard>>

Unlock(x) ==
  /\ at[x] = "write"
  /\ todo[x] = {}
  /\ mutex' = NoOne
  /\ job' = [job EXCEPT ![x] = Nothing]
  /\ at' = [at EXCEPT ![x] = IF x = Run THEN "select" ELSE "done"]
  /\ UNCHANGED <<option, process, clients, open, todo, stopper, handler,
                 link, heard>>

Broadcast(x) ==
  Lock(x) \/ (\E c \in Clients : Deliver(x, c) \/ WriteFails(x, c)) \/ Unlock(x)

-----------------------------------------------------------------------------
(* Room.Stop and Room.Close. *)

CallStop ==
  /\ stopper = "idle"
  /\ stopper' = "stopping"
  /\ UNCHANGED <<option, process, clients, open, loop, handler, link, heard>>

Shut ==
  /\ at[Run] = "shut"
  /\ mutex = NoOne
  /\ mutex' = Run
  /\ todo' = [todo EXCEPT ![Run] = clients]
  /\ at' = [at EXCEPT ![Run] = "closing"]
  /\ UNCHANGED <<option, process, clients, open, job, stopper, handler, link,
                 heard>>

\* Mutant: clients are forgotten, not closed.
ForgetClient(c) ==
  /\ at[Run] = "closing"
  /\ c \in todo[Run]
  /\ Writes(c)
  /\ todo' = [todo EXCEPT ![Run] = @ \ {c}]
  /\ UNCHANGED <<option, process, clients, open, mutex, at, job, stopper,
                 handler, link, heard>>

\* client.Close: the connection is closed once the close frame is written; if
\* that fails it is left as it is, for OnError and the handler's own Close.
CloseClient(c) ==
  /\ at[Run] = "closing"
  /\ c \in todo[Run]
  /\ Writes(c)
  /\ link' = [link EXCEPT ![c] = "broken"]
  /\ todo' = [todo EXCEPT ![Run] = @ \ {c}]
  /\ UNCHANGED <<option, process, clients, open, mutex, at, job, stopper,
                 handler, heard>>

\* The channels are closed, and OnClose called: without one that is a panic
\* in a goroutine nobody recovers.
CloseChannels ==
  /\ at[Run] = "closing"
  /\ todo[Run] = {}
  /\ clients' = {}
  /\ open' = FALSE
  /\ mutex' = NoOne
  /\ at' = [at EXCEPT ![Run] = "done"]
  /\ process' = IF option.onClose THEN process ELSE "crashed"
  /\ UNCHANGED <<option, job, todo, stopper, handler, link, heard>>

Loop ==
  \/ \E c \in Clients : Enter(c) \/ Leave(c) \/ Post(c) \/ CloseClient(c)
  \/ Stop
  \/ Update
  \/ Broadcast(Run)
  \/ Shut
  \/ CloseChannels

-----------------------------------------------------------------------------

\* Everybody is done, or the process is.
Quiet ==
  /\ \/ process = "crashed"
     \/ /\ \A c \in Clients : pc[c] = "done"
        /\ \A x \in Senders : at[x] = "done"
  /\ UNCHANGED vars

Next ==
  \/ /\ process = "up"
     /\ \/ \E c \in Clients :
             \/ PeerStalls(c) \/ PeerReads(c) \/ PeerLeaves(c)
             \/ Upgrade(c) \/ ReadMessage(c) \/ ReadRefuses(c) \/ ReadPanics(c)
             \/ Handler(c)
        \/ \E x \in Announcers : Broadcast(x)
        \/ Loop
        \/ CallStop
  \/ Quiet

\* Every goroutine that can run does. Nothing is assumed of peers, nor that
\* anybody ever connects or stops.
Fairness ==
  /\ WF_vars(process = "up" /\ Loop)
  /\ \A c \in Clients : WF_vars(process = "up" /\ Handler(c))
  /\ \A x \in Announcers : WF_vars(process = "up" /\ Broadcast(x))

Spec == Init /\ [][Next]_vars /\ Fairness

-----------------------------------------------------------------------------
(* Properties. *)

\* Whom the loop is just taking in or out.
Moving(c) == at[Run] = "update" /\ job[Run].from = c

\* Until the room is closed, its map of clients is the set of those whose
\* handlers are between their Enter and their Leave, and of those whose handlers
\* a panic took past their Leave, but for the one the loop is just taking in or
\* out: nobody else stays behind in the room, and nobody is in it unnoticed.
Membership ==
  open =>
    \A c \in Clients :
      IF Moving(c) THEN c \in clients <=> job[Run].kind = "leave"
      ELSE c \in clients <=> \/ pc[c] \in {"read", "send", "leave"}
                            \/ panicked[c] = "read"

\* What Count, Has and Clients call a client in the room has a handler: one whose
\* handler has ended, and whose connection is closed with it, is not in the map.
\* TLC refutes it: it is, for ever, if DecodeFrame panicked on what the client
\* sent (websocket/frame.go:74).
NoneLeftBehind ==
  \A c \in Clients : pc[c] = "done" => c \notin clients \/ Moving(c)

\* The room keeps what RoomAbs promises: what a member's queue holds is the
\* broadcast under way, if the range has not come to the member yet.
Abs == INSTANCE RoomAbs WITH
  restricted <- option.restricted,
  members    <- clients,
  broken     <- {c \in Clients : link[c] = "broken"},
  queue      <- [c \in Clients |->
                   IF mutex # NoOne /\ at[mutex] = "write" /\ c \in todo[mutex]
                   THEN <<job[mutex]>> ELSE <<>>]

KeepsPromise == Abs!Spec

\* From some time on, every peer reads or is gone.
PeersRead == <>[](\A c \in Clients : link[c] # "stalled")

\* If in the end no peer holds up a write, no handler stays where it leaves or
\* closes, whatever the loop is at and whoever stops it: a closed channel is a
\* panic that still closes the connection.
LeaveReturns ==
  PeersRead => \A c \in Clients : <>[](pc[c] \notin {"leave", "close"})

\* If in the end no peer holds up a write, no call of Stop stays.
StopReturns == PeersRead => <>[](stopper # "stopping")

\* When the loop has ended, every handler ends too: its connection is closed
\* under it, or its next send panics.
StopEndsHandlers ==
  PeersRead => \A c \in Clients :
                 <>[](at[Run] = "done" => pc[c] \in {"idle", "done"})

\* Stop is for the loop: it ends no handler that only takes part in the room or
\* leaves it by a panic.
StopHarmsNobody == \A c \in Clients : panicked[c] # "send"

\* Nor does it end the process, whatever callbacks the room's option has. TLC
\* refutes it without an OnClose (websocket/extensions/room.go:87).
StopSparesProcess == process = "up"
===============================================================================
