------------------------------- MODULE WsStream -------------------------------
(***************************************************************************)
(* A connection after Upgrade (websocket/websocket.go): the read loop of   *)
(* its handler (example/websocket), the goroutines that write to it, and   *)
(* its peer, which frames as RFC 6455 has it. TCP keeps bytes in order and *)
(* hands out as many of them as it likes. Of the room (module Room) there  *)
(* is what one of its clients meets: a loop that takes what it sends, or   *)
(* that waits for another client's peer.                                   *)
(***************************************************************************)
EXTENDS Frame

CONSTANTS
  BufSize,    \* 1024: the buffer that the handler gives to Read
  Key,        \* the peer's masking key
  Lengths,    \* of the payloads the peer sends
  Writes,     \* of the payloads that are broadcast to it
  MaxFrames,  \* bound: data frames the peer sends
  MaxWrites,  \* bound: payloads that are broadcast
  Text, Bye,  \* opcodes: TEXT and CLOSE
  Status      \* of a close frame, such as 1000

ASSUME WsStreamAssumption ==
  /\ BufSize \in 2..MaxInt
  /\ Status \in 0..(Power[2] - 1)
  /\ Key \in [1..MaskBytes -> Bytes]
  /\ Lengths \cup Writes \subseteq 0..(Power[LongBytes] - 1)
  /\ {Text, Bye} \subseteq 0..(Opcodes - 1)
  /\ MaxFrames \in Bytes /\ MaxWrites \in Bytes

VARIABLES
  \* the peer
  sent,     \* the messages it has sent
  heard,    \* the messages it has read
  gone,     \* it has closed its side
  \* the server
  pc,       \* the handler: "read", "post", "leave", "close", "shut", "done"
  room,     \* the room's loop: "run", "held" by another peer, "left": it has
            \* taken the client's Leave; or Room.Close: at this client, as in
            \* pc, "done" with it, or "over", with its channels closed
  conn,     \* "open" or "closed"
  stream,   \* bytes that conn.Read may take; last: it is a frame's last
  got,      \* history: the messages that the handler was given, up to the
            \* first read that ended inside a frame; Junk: one never sent
  written,  \* the messages written to conn
  out,      \* bytes written and not yet read by the peer
  whole     \* history: every read has ended at the end of a frame

vars == <<sent, heard, gone, pc, room, conn, stream, got, written, out, whole>>

Message(opcode, payload) == [opcode |-> opcode, payload |-> payload]
Payload(tag, n) == [i \in 1..n |-> tag]
IsMessage(m) ==
  /\ m.opcode \in 0..(Opcodes - 1)
  /\ m.payload \in Seq(Bytes)

TypeOK ==
  /\ \A s \in {sent, heard, got, written} : \A i \in DOMAIN s : IsMessage(s[i])
  /\ gone \in BOOLEAN /\ whole \in BOOLEAN
  /\ pc \in {"read", "post", "leave", "close", "shut", "done"}
  /\ room \in {"run", "held", "left", "close", "shut", "done", "over"}
  /\ conn \in {"open", "closed"}
  /\ stream \in Seq([byte : Bytes, last : BOOLEAN])
  /\ out \in Seq(Bytes)

Init ==
  /\ sent = <<>> /\ heard = <<>> /\ gone = FALSE
  /\ pc = "read" /\ room = "run" /\ conn = "open"
  /\ stream = <<>> /\ got = <<>> /\ whole = TRUE
  /\ written = <<>> /\ out = <<>>

-----------------------------------------------------------------------------
(* The peer. *)

\* A frame on the wire, masked, in the shortest form of its length.
Wire(m) ==
  LET n == Len(m.payload) IN
  <<FinBit + m.opcode>>
  \o (IF n < ShortCode THEN <<MaskBit + n>>
      ELSE IF n <= MaxShort THEN <<MaskBit + ShortCode>> \o PutUint(ShortBytes, n)
      ELSE <<MaskBit + LongCode>> \o PutUint(LongBytes, n))
  \o Key
  \o [i \in 1..n |-> XorByte(m.payload[i], Key[((i - 1) % MaskBytes) + 1])]

SendFrame(m) ==
  LET w == Wire(m) IN
  /\ sent' = Append(sent, m)
  /\ stream' = stream \o
       [i \in DOMAIN w |-> [byte |-> w[i], last |-> i = Len(w)]]

Sends ==
  /\ ~gone
  /\ ~\E i \in DOMAIN sent : sent[i].opcode = Bye
  /\ \/ /\ Len(sent) < MaxFrames
        /\ \E n \in Lengths : SendFrame(Message(Text, Payload(Len(sent) + 1, n)))
     \/ SendFrame(Message(Bye, Payload(0, 2)))
  /\ UNCHANGED <<heard, gone, pc, room, conn, got, written, out, whole>>

\* The first frame of what has come, if all of it is there.
Hears ==
  LET code     == out[2]
      extended == CASE code = ShortCode -> ShortBytes
                    [] code = LongCode  -> LongBytes
                    [] OTHER            -> 0
      length   == IF extended = 0 THEN code
                  ELSE Uint(SubSeq(out, 3, 2 + extended))
      end      == 2 + extended + length
  IN /\ ~gone /\ Len(out) >= 2 /\ Len(out) >= end
     /\ heard' = Append(heard, Message(out[1] % Opcodes,
                                       SubSeq(out, end - length + 1, end)))
     /\ out' = SubSeq(out, end + 1, Len(out))
     /\ UNCHANGED <<sent, gone, pc, room, conn, stream, got, written, whole>>

Leaves ==
  /\ ~gone
  /\ gone' = TRUE
  /\ out' = <<>>
  /\ UNCHANGED <<sent, heard, pc, room, conn, stream, got, written, whole>>

-----------------------------------------------------------------------------
(* The handler's read loop. *)

\* conn.Read fails: the connection is closed, or the stream has ended.
ReadFails ==
  /\ pc = "read"
  /\ conn = "closed" \/ (gone /\ stream = <<>>)
  /\ pc' = "leave"
  /\ UNCHANGED <<sent, heard, gone, room, conn, stream, got, written, out, whole>>

Junk     == Message(0, <<>>)
Known(m) == IF \E i \in DOMAIN sent : sent[i] = m THEN m ELSE Junk

\* Client.Read into a new buffer; what follows the first frame in it is lost.
\* A frame is a message for the room, or none that it knows. An error or a panic
\* ends the loop.
Read(n) ==
  LET data == [i \in 1..BufSize |-> IF i <= n THEN stream[i].byte ELSE 0]
      f    == DecodeFrame(data)
  IN /\ pc = "read" /\ conn = "open"
     /\ stream' = SubSeq(stream, n + 1, Len(stream))
     /\ whole' = (whole /\ stream[n].last)
     /\ got' = IF whole /\ f.outcome = "frame"
               THEN Append(got, Known(Message(f.opcode, f.payload))) ELSE got
     /\ \/ f.outcome = "frame" /\ pc' \in {"read", "post"}
        \/ f.outcome = "error" /\ pc' = "leave"
        \/ f.outcome = "panic" /\ pc' = "close"
     /\ UNCHANGED <<sent, heard, gone, room, conn, written, out>>

Reads == \E n \in 1..BufSize : n <= Len(stream) /\ Read(n)

\* Room.BroadcastMessage returns when the loop takes the message.
Post ==
  /\ pc = "post" /\ room = "run"
  /\ pc' = "read"
  /\ UNCHANGED <<sent, heard, gone, room, conn, stream, got, written, out, whole>>

\* So does Room.BroadcastLeave, and the deferred Close begins.
LeaveRoom ==
  /\ pc = "leave" /\ room = "run"
  /\ pc' = "close" /\ room' = "left"
  /\ UNCHANGED <<sent, heard, gone, conn, stream, got, written, out, whole>>

\* On a channel that is closed they panic, which runs the deferred Close too.
SendPanics ==
  /\ pc \in {"post", "leave"} /\ room = "over"
  /\ pc' = "close"
  /\ UNCHANGED <<sent, heard, gone, room, conn, stream, got, written, out, whole>>

-----------------------------------------------------------------------------
(* Writers. net.Conn writes one buffer at a time. *)

\* What is written to a peer that has gone is lost.
WriteFrame(m) ==
  /\ IF gone THEN UNCHANGED <<written, out>>
     ELSE /\ written' = Append(written, m)
          /\ out' = out \o EncodeFrame(m.payload, m.opcode)
  /\ UNCHANGED <<sent, heard, gone, stream, got, whole>>

\* A broadcast of the room, also while the handler is on its way out.
Write ==
  /\ conn = "open" /\ room \in {"run", "left"}
  /\ Len(written) < MaxWrites /\ ~gone
  /\ \E n \in Writes : WriteFrame(Message(Text, Payload(Len(written) + 1, n)))
  /\ UNCHANGED <<pc, room, conn>>

\* The loop writes to another client, whose peer does not read, or reads again.
Waits ==
  /\ \/ room = "run" /\ room' = "held"
     \/ room = "held" /\ room' = "run"
  /\ UNCHANGED <<sent, heard, gone, pc, conn, stream, got, written, out, whole>>

StopRoom ==
  /\ room = "run"
  /\ room' = "close"
  /\ UNCHANGED <<sent, heard, gone, pc, conn, stream, got, written, out, whole>>

\* Room.Close is done with the other clients, too, and closes the channels.
CloseChannels ==
  /\ room = "done"
  /\ room' = "over"
  /\ UNCHANGED <<sent, heard, gone, pc, conn, stream, got, written, out, whole>>

\* Client.Close, for the handler (its deferred call) or the room: a close
\* frame, and if the connection takes it, then the connection.
Closing ==
  Message(Bye, <<Status \div ByteValues, Status % ByteValues>>)

CloseFrame ==
  /\ conn = "open"
  /\ WriteFrame(Closing)
  /\ \/ pc = "close" /\ pc' = "shut" /\ UNCHANGED room
     \/ room = "close" /\ room' = "shut" /\ UNCHANGED pc
  /\ UNCHANGED conn

CloseFails ==
  /\ conn = "closed" \/ gone
  /\ \/ pc = "close" /\ pc' = "done" /\ UNCHANGED room
     \/ room = "close" /\ room' = "done" /\ UNCHANGED pc
  /\ UNCHANGED <<sent, heard, gone, conn, stream, got, written, out, whole>>

CloseConn ==
  /\ conn' = "closed"
  /\ \/ pc = "shut" /\ pc' = "done" /\ UNCHANGED room
     \/ room = "shut" /\ room' = "done" /\ UNCHANGED pc
  /\ UNCHANGED <<sent, heard, gone, stream, got, written, out, whole>>

\* Mutant: the framework leaves a hijacked connection alone.
FrameworkLeaves == FALSE /\ UNCHANGED vars

\* The conn.Close that the framework has deferred.
FrameworkCloses ==
  /\ pc = "done" /\ conn = "open"
  /\ conn' = "closed"
  /\ UNCHANGED <<sent, heard, gone, pc, room, stream, got, written, out, whole>>

-----------------------------------------------------------------------------

\* What no peer and no other goroutine can hold up once it is enabled.
Moves ==
  \/ ReadFails \/ Reads \/ Post \/ LeaveRoom \/ SendPanics
  \/ CloseFails \/ CloseConn \/ FrameworkCloses

Next ==
  \/ Sends \/ Hears \/ Leaves
  \/ Write \/ Waits \/ StopRoom \/ CloseFrame \/ CloseChannels
  \/ Moves

\* The server's goroutines run, but a write may wait for a peer for ever: for
\* this one in CloseFrame, for another in the loop of the room.
Spec == Init /\ [][Next]_vars /\ WF_vars(Moves)

-----------------------------------------------------------------------------
(* Properties. *)

Within(s, t) ==
  \E at \in [DOMAIN s -> DOMAIN t] :
    /\ \A i, j \in DOMAIN s : i < j => at[i] < at[j]
    /\ \A i \in DOMAIN s : s[i] = t[at[i]]

\* As long as every read has ended at the end of a frame, the handler gets only
\* messages that were sent, unmasked, in order, each once, and reads on; what
\* it misses came together with an earlier one (websocket/websocket.go:52).
ReadsInOrder ==
  whole => /\ Within(got, sent)
           /\ pc \notin {"read", "post"} => gone \/ conn = "closed"

\* What broadcasts and Close write is what the peer reads, whole and in order,
\* at every form of the length (websocket/frame.go:93).
WritesArrive ==
  /\ IsPrefix(heard, written)
  /\ out = <<>> /\ ~gone => heard = written

\* The loop of the room does not wait for another client's peer for ever.
RoomGoesOn == <>[](room \notin {"held", "done"})

\* The handler ends, and the connection is closed, when the peer has gone or the
\* room has closed it, though Client.Close returns at a close frame that it
\* cannot write (websocket/websocket.go:92), and though the handler has to get
\* its Leave to the room first (example/websocket/websocket.go:109).
ConnectionEnds ==
  RoomGoesOn =>
    (gone \/ conn = "closed" ~> pc = "done" /\ conn = "closed")

\* "Read reads a WebSocket frame from the connection." (websocket/websocket.go:51)
ReadsEachFrame == IsPrefix(got, sent)
===============================================================================
