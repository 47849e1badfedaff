----------------------------- MODULE Room_proofs -----------------------------
(***************************************************************************)
(* Theorems about Room, for every set of clients and announcers, every     *)
(* option and any number of messages: type correctness, the membership of  *)
(* the room, and that the room implements RoomAbs.                         *)
(***************************************************************************)
EXTENDS Room, TLAPS

USE RoomAssumption

\* A handler that is to post has counted its message.
Counted == \A c \in Clients : pc[c] = "send" => posts > 0

\* A job that changes the map of clients comes from a client.
Owned == at[Run] = "update" => job[Run].from \in Clients

Typed == TypeOK /\ Counted /\ Owned

\* Every step keeps every variable's type.
LEMMA TypedStep == Typed /\ [Next]_vars => Typed'
  <1> SUFFICES ASSUME Typed, [Next]_vars PROVE Typed'
    OBVIOUS
  <1> USE DEF Typed, Counted, Owned, TypeOK, Senders, loop, handler, vars
  <1>PeerStalls. ASSUME NEW c \in Clients, PeerStalls(c) PROVE Typed'
    BY <1>PeerStalls DEF PeerStalls
  <1>PeerReads. ASSUME NEW c \in Clients, PeerReads(c) PROVE Typed'
    BY <1>PeerReads DEF PeerReads
  <1>PeerLeaves. ASSUME NEW c \in Clients, PeerLeaves(c) PROVE Typed'
    BY <1>PeerLeaves DEF PeerLeaves
  <1>Upgrade. ASSUME NEW c \in Clients, Upgrade(c) PROVE Typed'
    BY <1>Upgrade DEF Upgrade
  <1>ReadMessage. ASSUME NEW c \in Clients, ReadMessage(c) PROVE Typed'
    BY <1>ReadMessage DEF ReadMessage
  <1>ReadRefuses. ASSUME NEW c \in Clients, ReadRefuses(c) PROVE Typed'
    BY <1>ReadRefuses DEF ReadRefuses
  <1>ReadPanics. ASSUME NEW c \in Clients, ReadPanics(c) PROVE Typed'
    BY <1>ReadPanics DEF ReadPanics
  <1>ReadFails. ASSUME NEW c \in Clients, ReadFails(c) PROVE Typed'
    BY <1>ReadFails DEF ReadFails
  <1>SendPanics. ASSUME NEW c \in Clients, SendPanics(c) PROVE Typed'
    BY <1>SendPanics DEF SendPanics
  <1>CloseOwn. ASSUME NEW c \in Clients, CloseOwn(c) PROVE Typed'
    BY <1>CloseOwn DEF CloseOwn
  <1>Enter. ASSUME NEW c \in Clients, Enter(c) PROVE Typed'
    BY <1>Enter DEF Enter, Messages, Message
  <1>Leave. ASSUME NEW c \in Clients, Leave(c) PROVE Typed'
    BY <1>Leave DEF Leave, Messages, Message
  <1>Post. ASSUME NEW c \in Clients, Post(c) PROVE Typed'
    BY <1>Post DEF Post, Messages, Message
  <1>Stop. CASE Stop
    BY <1>Stop DEF Stop
  <1>Update. CASE Update
    BY <1>Update DEF Update, Messages
  <1>Lock. ASSUME NEW x \in Senders, Lock(x) PROVE Typed'
    BY <1>Lock DEF Lock
  <1>Deliver. ASSUME NEW x \in Senders, NEW c \in Clients, Deliver(x, c)
         PROVE Typed'
    BY <1>Deliver DEF Deliver
  <1>WriteFails. ASSUME NEW x \in Senders, NEW c \in Clients, WriteFails(x, c)
         PROVE Typed'
    BY <1>WriteFails DEF WriteFails
  <1>Unlock. ASSUME NEW x \in Senders, Unlock(x) PROVE Typed'
    BY <1>Unlock DEF Unlock
  <1>CallStop. CASE CallStop
    BY <1>CallStop DEF CallStop
  <1>Shut. CASE Shut
    BY <1>Shut DEF Shut
  <1>CloseClient. ASSUME NEW c \in Clients, CloseClient(c) PROVE Typed'
    BY <1>CloseClient DEF CloseClient
  <1>CloseChannels. CASE CloseChannels
    BY <1>CloseChannels DEF CloseChannels
  <1>Stutter. CASE UNCHANGED vars
    BY <1>Stutter
  <1> QED
    BY <1>PeerStalls, <1>PeerReads, <1>PeerLeaves, <1>Upgrade,
       <1>ReadMessage, <1>ReadRefuses, <1>ReadPanics, <1>ReadFails,
       <1>SendPanics, <1>CloseOwn, <1>Enter, <1>Leave, <1>Post, <1>Stop,
       <1>Update, <1>Lock, <1>Deliver, <1>WriteFails, <1>Unlock, <1>CallStop,
       <1>Shut, <1>CloseClient, <1>CloseChannels, <1>Stutter
       DEF Next, Handler, Loop, Broadcast, Quiet

\* Every variable keeps its type. A job is a message, for as long as it is
\* being worked on (room.go:71-91, 129-145).
THEOREM TypeCorrect == Spec => []TypeOK
  <1>1. Init => Typed
    BY DEF Init, Typed, Counted, Owned, TypeOK, Senders, Messages, Message
  <1>2. Typed => TypeOK
    BY DEF Typed
  <1> QED
    BY <1>1, <1>2, TypedStep, PTL DEF Spec

-----------------------------------------------------------------------------
(* Membership. *)

\* A job that changes the map of clients is an enter or a leave, and the
\* handler it came from has gone on.
Moved ==
  at[Run] = "update" /\ open =>
    LET c == job[Run].from IN
    \/ /\ job[Run].kind = "enter"
       /\ pc[c] \in {"read", "send", "leave"} \/ panicked[c] = "read"
    \/ /\ job[Run].kind = "leave"
       /\ pc[c] \in {"close", "done"} /\ panicked[c] # "read"

\* A handler that has panicked is about to end.
Unwound ==
  \A c \in Clients : panicked[c] = "read" => pc[c] \in {"close", "done"}

IInv == Typed /\ Moved /\ Unwound /\ Membership

\* Every step keeps the map of clients in line with the handlers.
LEMMA MembershipStep ==
  IInv /\ [Next]_vars => (Moved /\ Unwound /\ Membership)'
  <1> SUFFICES ASSUME IInv, [Next]_vars PROVE (Moved /\ Unwound /\ Membership)'
    OBVIOUS
  <1> USE DEF IInv, Typed, TypeOK, Moved, Unwound, Moving, Membership,
              Senders, loop, handler, vars
  <1>Upgrade. ASSUME NEW c \in Clients, Upgrade(c)
         PROVE (Moved /\ Unwound /\ Membership)'
    BY <1>Upgrade DEF Upgrade
  <1>ReadMessage. ASSUME NEW c \in Clients, ReadMessage(c)
         PROVE (Moved /\ Unwound /\ Membership)'
    BY <1>ReadMessage DEF ReadMessage
  <1>ReadRefuses. ASSUME NEW c \in Clients, ReadRefuses(c)
         PROVE (Moved /\ Unwound /\ Membership)'
    BY <1>ReadRefuses DEF ReadRefuses
  <1>ReadPanics. ASSUME NEW c \in Clients, ReadPanics(c)
         PROVE (Moved /\ Unwound /\ Membership)'
    BY <1>ReadPanics DEF ReadPanics
  <1>ReadFails. ASSUME NEW c \in Clients, ReadFails(c)
         PROVE (Moved /\ Unwound /\ Membership)'
    BY <1>ReadFails DEF ReadFails
  <1>SendPanics. ASSUME NEW c \in Clients, SendPanics(c)
         PROVE (Moved /\ Unwound /\ Membership)'
    BY <1>SendPanics DEF SendPanics
  <1>CloseOwn. ASSUME NEW c \in Clients, CloseOwn(c)
         PROVE (Moved /\ Unwound /\ Membership)'
    BY <1>CloseOwn DEF CloseOwn
  <1>Enter. ASSUME NEW c \in Clients, Enter(c)
         PROVE (Moved /\ Unwound /\ Membership)'
    BY <1>Enter DEF Enter, Selects, Message
  <1>Leave. ASSUME NEW c \in Clients, Leave(c)
         PROVE (Moved /\ Unwound /\ Membership)'
    BY <1>Leave DEF Leave, Selects, Message
  <1>Post. ASSUME NEW c \in Clients, Post(c)
         PROVE (Moved /\ Unwound /\ Membership)'
    BY <1>Post DEF Post, Selects, Message
  <1>Stop. CASE Stop
    BY <1>Stop DEF Stop, Selects
  <1>Update. CASE Update
    BY <1>Update DEF Update
  <1>Lock. ASSUME NEW x \in Senders, Lock(x)
         PROVE (Moved /\ Unwound /\ Membership)'
    BY <1>Lock DEF Lock
  <1>Deliver. ASSUME NEW x \in Senders, NEW c \in Clients,
                     Deliver(x, c) \/ WriteFails(x, c)
         PROVE (Moved /\ Unwound /\ Membership)'
    BY <1>Deliver DEF Deliver, WriteFails
  <1>Unlock. ASSUME NEW x \in Senders, Unlock(x)
         PROVE (Moved /\ Unwound /\ Membership)'
    BY <1>Unlock DEF Unlock
  <1>Shut. CASE Shut
    BY <1>Shut DEF Shut
  <1>CloseClient. ASSUME NEW c \in Clients, CloseClient(c)
         PROVE (Moved /\ Unwound /\ Membership)'
    BY <1>CloseClient DEF CloseClient
  <1>CloseChannels. CASE CloseChannels
    BY <1>CloseChannels DEF CloseChannels
  <1>Elsewhere. ASSUME UNCHANGED <<clients, open, at, job, pc, panicked>>
         PROVE (Moved /\ Unwound /\ Membership)'
    BY <1>Elsewhere
  <1> QED
    BY <1>Upgrade, <1>ReadMessage, <1>ReadRefuses, <1>ReadPanics,
       <1>ReadFails, <1>SendPanics, <1>CloseOwn, <1>Enter, <1>Leave, <1>Post,
       <1>Stop, <1>Update, <1>Lock, <1>Deliver, <1>Unlock, <1>Shut, <1>CloseClient,
       <1>CloseChannels, <1>Elsewhere
       DEF Next, Handler, Loop, Broadcast, Quiet, PeerStalls, PeerReads,
           PeerLeaves, CallStop

\* The room's map of clients is the set of those whose handlers are between
\* their Enter and their Leave (room.go:74-81, 94-107), or were when a read
\* panicked (frame.go:74-80, which skips example/websocket/websocket.go:109).
THEOREM MembershipHolds == Spec => []Membership
  <1>1. Init => IInv
    BY DEF Init, IInv, Typed, Counted, Owned, TypeOK, Moved, Unwound, Moving, Membership,
           Senders, Messages, Message
  <1>2. IInv /\ [Next]_vars => IInv'
    BY TypedStep, MembershipStep DEF IInv
  <1>3. IInv => Membership
    BY DEF IInv
  <1> QED
    BY <1>1, <1>2, <1>3, PTL DEF Spec

-----------------------------------------------------------------------------
(* The room implements RoomAbs. *)

\* The mutex is with the broadcast that is being written, or with the loop
\* when it closes the room.
Exclusive ==
  /\ mutex # NoOne => at[mutex] \in {"write", "closing"}
  /\ \A x \in Senders : at[x] \in {"write", "closing"} => mutex = x
  /\ \A x \in Senders : at[x] = "closing" => x = Run

\* What a client is still to get, and who cannot get anything more.
Queue == [c \in Clients |->
            IF mutex # NoOne /\ at[mutex] = "write" /\ c \in todo[mutex]
            THEN <<job[mutex]>> ELSE <<>>]
Broken == {c \in Clients : link[c] = "broken"}

\* Every step keeps the mutex with one goroutine.
LEMMA ExclusiveStep == Typed /\ Exclusive /\ [Next]_vars => Exclusive'
  <1> SUFFICES ASSUME Typed, Exclusive, [Next]_vars PROVE Exclusive'
    OBVIOUS
  <1> USE DEF Typed, TypeOK, Exclusive, Senders, loop, handler, vars
  <1>Enter. ASSUME NEW c \in Clients, Enter(c) \/ Leave(c) \/ Post(c)
         PROVE Exclusive'
    BY <1>Enter DEF Enter, Leave, Post, Selects
  <1>Stop. CASE Stop
    BY <1>Stop DEF Stop, Selects
  <1>Update. CASE Update
    BY <1>Update DEF Update
  <1>Lock. ASSUME NEW x \in Senders, Lock(x) PROVE Exclusive'
    BY <1>Lock DEF Lock
  <1>Unlock. ASSUME NEW x \in Senders, Unlock(x) PROVE Exclusive'
    BY <1>Unlock DEF Unlock
  <1>Shut. CASE Shut
    BY <1>Shut DEF Shut
  <1>CloseChannels. CASE CloseChannels
    BY <1>CloseChannels DEF CloseChannels
  <1>Elsewhere. ASSUME UNCHANGED <<mutex, at>> PROVE Exclusive'
    BY <1>Elsewhere
  <1> QED
    BY <1>Enter, <1>Stop, <1>Update, <1>Lock, <1>Unlock, <1>Shut,
       <1>CloseChannels, <1>Elsewhere
       DEF Next, Handler, Loop, Broadcast, Quiet, PeerStalls, PeerReads,
           PeerLeaves, Upgrade, ReadMessage, ReadRefuses, ReadPanics, ReadFails,
           SendPanics, CloseOwn, Deliver, WriteFails, CallStop, CloseClient

AbsVars == <<option.restricted, clients, Broken, Queue, heard>>

\* Every step of the room is one of RoomAbs, or none.
LEMMA AbsStep ==
  Typed /\ Exclusive /\ [Next]_vars => [Abs!Next]_(Abs!vars)
  <1> SUFFICES ASSUME Typed, Exclusive, [Next]_vars
               PROVE  Abs!Next \/ UNCHANGED AbsVars
    BY DEF Abs!vars, AbsVars, Queue, Broken
  <1> USE DEF Typed, TypeOK, Exclusive, Senders, loop, handler, vars
  <1>Break. ASSUME NEW c \in Clients,
                   PeerLeaves(c) \/ CloseOwn(c) \/ CloseClient(c)
         PROVE Abs!Next
    <2>1. Abs!Break(c)
      <3>1. Broken' = Broken \cup {c}
        BY <1>Break DEF PeerLeaves, CloseOwn, CloseClient, Broken
      <3>2. Queue' = Queue
        BY <1>Break DEF PeerLeaves, CloseOwn, CloseClient, Queue
      <3> QED
        BY <1>Break, <3>1, <3>2
           DEF PeerLeaves, CloseOwn, CloseClient, Broken, Queue, Abs!Break
    <2> QED
      BY <2>1 DEF Abs!Next
  <1>Reads. ASSUME NEW c \in Clients, PeerStalls(c) \/ PeerReads(c)
         PROVE UNCHANGED AbsVars
    BY <1>Reads DEF PeerStalls, PeerReads, AbsVars, Broken, Queue
  <1>Handles. ASSUME NEW c \in Clients,
                     \/ Upgrade(c) \/ ReadMessage(c) \/ ReadRefuses(c)
                     \/ ReadPanics(c) \/ ReadFails(c) \/ SendPanics(c)
         PROVE UNCHANGED AbsVars
    BY <1>Handles DEF Upgrade, ReadMessage, ReadRefuses, ReadPanics, ReadFails,
                      SendPanics, AbsVars, Broken, Queue
  <1>Takes. ASSUME NEW c \in Clients, Enter(c) \/ Leave(c) \/ Post(c)
         PROVE UNCHANGED AbsVars
    <2>1. Queue' = Queue
      BY <1>Takes DEF Enter, Leave, Post, Selects, Queue
    <2> QED
      BY <1>Takes, <2>1 DEF Enter, Leave, Post, AbsVars, Broken
  <1>Stop. CASE Stop
    <2>1. Queue' = Queue
      BY <1>Stop DEF Stop, Selects, Queue
    <2> QED
      BY <1>Stop, <2>1 DEF Stop, AbsVars, Broken
  <1>Update. CASE Update
    <2> DEFINE c == job[Run].from
    <2>1. c \in Clients
      BY <1>Update DEF Update, Owned
    <2>2. Queue' = Queue
      BY <1>Update DEF Update, Queue
    <2>3. Abs!Join(c) \/ Abs!Part(c)
      BY <1>Update, <2>2 DEF Update, Queue, Broken, Abs!Join, Abs!Part
    <2> QED
      BY <2>1, <2>3 DEF Abs!Next
  <1>Lock. ASSUME NEW x \in Senders, Lock(x) PROVE Abs!Next
    <2>1. job[x] \in Messages
      BY <1>Lock DEF Lock
    <2>2. Queue = [c \in Clients |-> <<>>]
      BY <1>Lock DEF Lock, Queue
    <2>3. Queue' = [c \in Clients |-> IF c \in clients THEN <<job[x]>>
                                     ELSE <<>>]
      BY <1>Lock DEF Lock, Queue
    <2>4. Append(<<>>, job[x]) = <<job[x]>>
      BY <2>1
    <2>5. Queue' = [c \in Clients |-> IF c \in clients
                                     THEN Append(Queue[c], job[x])
                                     ELSE Queue[c]]
      BY <2>2, <2>3, <2>4, Zenon
    <2>6. \E m \in Messages : Abs!Publish(m)
      BY <1>Lock, <2>1, <2>5 DEF Lock, Queue, Broken, Abs!Publish
    <2> QED
      BY <2>6 DEF Abs!Next
  <1>Unlock. ASSUME NEW x \in Senders, Unlock(x) PROVE UNCHANGED AbsVars
    <2>1. Queue' = Queue
      BY <1>Unlock DEF Unlock, Queue
    <2> QED
      BY <1>Unlock, <2>1 DEF Unlock, AbsVars, Broken
  <1>Shut. CASE Shut
    <2>1. Queue' = Queue
      BY <1>Shut DEF Shut, Queue
    <2> QED
      BY <1>Shut, <2>1 DEF Shut, AbsVars, Broken
  <1>CloseChannels. CASE CloseChannels
    <2>1. Queue' = Queue
      BY <1>CloseChannels DEF CloseChannels, Queue
    <2>2. Abs!Shut
      BY <1>CloseChannels, <2>1 DEF CloseChannels, Queue, Broken, Abs!Shut
    <2> QED
      BY <2>2 DEF Abs!Next
  <1>Range. ASSUME NEW x \in Senders, NEW c \in Clients,
                   Deliver(x, c) \/ WriteFails(x, c)
         PROVE Abs!Next
    <2>1. mutex = x /\ mutex # NoOne /\ at[mutex] = "write" /\ c \in todo[x]
      BY <1>Range DEF Deliver, WriteFails
    <2>2. Queue[c] = <<job[x]>> /\ Queue[c] # <<>>
      BY <2>1 DEF Queue
    <2>3. Head(Queue[c]) = job[x] /\ Tail(Queue[c]) = <<>>
      BY <2>2
    <2>4. ASSUME todo' = [todo EXCEPT ![x] = @ \ {c}],
                 UNCHANGED <<mutex, at, job>>
          PROVE  Queue' = [Queue EXCEPT ![c] = Tail(@)]
      <3>1. Queue' = [Queue EXCEPT ![c] = <<>>]
        BY <2>1, <2>4 DEF Queue
      <3> QED
        BY <2>3, <3>1
    <2>Deliver. CASE Deliver(x, c)
      <3>1. Queue' = [Queue EXCEPT ![c] = Tail(@)]
        BY <2>4, <2>Deliver DEF Deliver
      <3>2. heard' = [heard EXCEPT ![c] = Head(Queue[c])]
        BY <2>3, <2>Deliver DEF Deliver
      <3>3. Abs!Receive(c)
        BY <2>2, <2>Deliver, <3>1, <3>2
           DEF Deliver, Queue, Broken, Abs!Receive, Abs!Take
      <3> QED
        BY <3>3 DEF Abs!Next
    <2>Miss. CASE WriteFails(x, c) /\ ~option.restricted
      <3>1. Queue' = [Queue EXCEPT ![c] = Tail(@)]
        BY <2>4, <2>Miss DEF WriteFails
      <3>2. Abs!Miss(c)
        BY <2>2, <2>Miss, <3>1
           DEF WriteFails, Queue, Broken, Abs!Miss, Abs!Take
      <3> QED
        BY <3>2 DEF Abs!Next
    <2>GiveUp. CASE WriteFails(x, c) /\ option.restricted
      <3>1. Queue' = [d \in Clients |-> <<>>]
        BY <2>1, <2>GiveUp DEF WriteFails, Queue
      <3>2. Abs!GiveUp
        BY <2>2, <2>GiveUp, <3>1 DEF WriteFails, Queue, Broken, Abs!GiveUp
      <3> QED
        BY <3>2 DEF Abs!Next
    <2> QED
      BY <1>Range, <2>Deliver, <2>Miss, <2>GiveUp
  <1>Elsewhere. ASSUME CallStop \/ UNCHANGED vars PROVE UNCHANGED AbsVars
    BY <1>Elsewhere DEF CallStop, AbsVars, Broken, Queue
  <1> QED
    BY <1>Break, <1>Reads, <1>Handles, <1>Takes, <1>Stop, <1>Update, <1>Lock,
       <1>Unlock, <1>Shut, <1>CloseChannels, <1>Range, <1>Elsewhere
       DEF Next, Handler, Loop, Broadcast, Quiet

\* Every broadcast reaches, in the order of the broadcasts, everybody who was
\* a member when it began, unless a connection is broken: the room implements
\* RoomAbs (room.go:129-145).
THEOREM PromiseKept == Spec => KeepsPromise
  <1>1. Init => Typed /\ Exclusive
    BY DEF Init, Typed, Counted, Owned, TypeOK, Exclusive, Senders, Messages,
           Message
  <1>2. Init => Abs!Init
    BY DEF Init, Abs!Init
  <1> QED
    BY <1>1, <1>2, TypedStep, ExclusiveStep, AbsStep, PTL
       DEF Spec, KeepsPromise, Abs!Spec
==============================================================================
