------------------------------- MODULE RoomAbs -------------------------------
(***************************************************************************)
(* What a chat room promises (websocket/extensions/room.go): a broadcast   *)
(* is for everybody who is a member at that moment, each member gets what  *)
(* is for it in the order of the broadcasts, and misses none of it unless  *)
(* its connection is broken or, in a room with restricted broadcasts, some *)
(* member's is.                                                            *)
(***************************************************************************)
EXTENDS Sequences

CONSTANTS
  Clients,
  Messages,
  Nothing     \* no message yet

VARIABLES
  restricted, \* RoomOption.RestrictedBroadcast
  members,    \* the clients in the room
  broken,     \* the clients whose connection is closed, by either side
  queue,      \* what each client is still to get
  heard       \* the last message each client has got

vars == <<restricted, members, broken, queue, heard>>

TypeOK ==
  /\ restricted \in BOOLEAN
  /\ members \subseteq Clients
  /\ broken \subseteq Clients
  /\ queue \in [Clients -> Seq(Messages)]
  /\ heard \in [Clients -> Messages \cup {Nothing}]

Init ==
  /\ restricted \in BOOLEAN
  /\ members = {}
  /\ broken = {}
  /\ queue = [c \in Clients |-> <<>>]
  /\ heard = [c \in Clients |-> Nothing]

Join(c) ==
  /\ members' = members \cup {c}
  /\ UNCHANGED <<restricted, broken, queue, heard>>

Part(c) ==
  /\ members' = members \ {c}
  /\ UNCHANGED <<restricted, broken, queue, heard>>

Shut ==
  /\ members' = {}
  /\ UNCHANGED <<restricted, broken, queue, heard>>

Publish(m) ==
  /\ queue' = [c \in Clients |-> IF c \in members THEN Append(queue[c], m)
                                 ELSE queue[c]]
  /\ UNCHANGED <<restricted, members, broken, heard>>

\* The next message for c leaves its queue.
Take(c) ==
  /\ queue[c] # <<>>
  /\ queue' = [queue EXCEPT ![c] = Tail(@)]
  /\ UNCHANGED <<restricted, members, broken>>

Receive(c) ==
  /\ Take(c)
  /\ heard' = [heard EXCEPT ![c] = Head(queue[c])]

Miss(c) ==
  /\ Take(c)
  /\ c \in broken
  /\ UNCHANGED heard

\* A restricted broadcast stops at the first broken member.
GiveUp ==
  /\ restricted
  /\ \E c \in broken : queue[c] # <<>>
  /\ queue' = [c \in Clients |-> <<>>]
  /\ UNCHANGED <<restricted, members, broken, heard>>

Break(c) ==
  /\ broken' = broken \cup {c}
  /\ UNCHANGED <<restricted, members, queue, heard>>

Next ==
  \/ \E c \in Clients : Join(c) \/ Part(c) \/ Receive(c) \/ Miss(c) \/ Break(c)
  \/ \E m \in Messages : Publish(m)
  \/ GiveUp
  \/ Shut

Spec == Init /\ [][Next]_vars
=============================================================================
