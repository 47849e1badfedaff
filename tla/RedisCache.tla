------------------------------ MODULE RedisCache ------------------------------
(***************************************************************************)
(* The store on a Redis server (extensions/redis.go). A method checks its  *)
(* arguments and hands one command to the go-redis client, which sends it, *)
(* waits, sends it again when an attempt has timed out, and at last gives  *)
(* up. Server and client library are not in the repository: the server     *)
(* runs commands one by one, keeps a key for the time that came with it,   *)
(* and may lose keys (it restarts, it evicts); the network may deliver     *)
(* what the client has given up on.                                        *)
(***************************************************************************)
EXTENDS Integers, FiniteSets

CONSTANTS
  Keys, TicksPerSec, Nobody, None, Nil, Waiting, Done, Failed, Found, Miss,
  Other,   \* a value that is neither string nor []byte
  MaxLate  \* bound: commands given up on that may still arrive

VARIABLES
  now, ttl, call, reply,  \* as in MapCache; a call also has by and px
  db,     \* the server: for each key a value and the last tick it is kept
  late,   \* commands on the way whose caller does not wait for them
  closed  \* the client is closed

Seconds(t) == t \div TicksPerSec

Init ==
  /\ db = [k \in Keys |-> None]
  /\ late = {}
  /\ closed = FALSE

\* Mutant: expiration is not compared with now.
PxUnchecked(op, expiration) ==
  CASE op = "set"   -> ttl
    [] op = "setAt" -> (expiration - Seconds(now)) * TicksPerSec
    [] OTHER        -> 0

\* The time to live that a write asks the server for, worked out at the call.
Px(op, expiration) ==
  CASE op = "set" -> ttl
    [] op = "setAt" /\ expiration > Seconds(now) ->
         (expiration - Seconds(now)) * TicksPerSec
    [] OTHER -> 0

\* What Set and SetWithExpiration refuse without asking the server.
Refused(m) ==
  m.op \in {"set", "setAt"} /\ (m.value \in {Nil, Other} \/ m.px = 0)

-----------------------------------------------------------------------------

Return(p, answer) ==
  /\ reply' = [reply EXCEPT ![p] = answer]
  /\ call' = [call EXCEPT ![p] = None]

Kept(k) == db[k] # None /\ now <= db[k].until

\* What a command does on the server.
Apply(m) ==
  CASE m.op \in {"set", "setAt"} ->
         db' = [db EXCEPT ![m.key] = [value |-> m.value, until |-> now + m.px]]
    [] m.op = "delete" -> db' = [db EXCEPT ![m.key] = None]
    [] OTHER -> UNCHANGED db

Answer(m) ==
  CASE m.op = "get"    -> IF Kept(m.key) THEN db[m.key].value ELSE Miss
    [] m.op = "exists" -> IF Kept(m.key) THEN Found ELSE Miss
    [] OTHER           -> Done

Refuse(p) ==
  /\ reply[p] = Waiting
  /\ Refused(call[p])
  /\ Return(p, Failed)
  /\ UNCHANGED <<now, ttl, db, late, closed>>

Serve(p) ==
  /\ reply[p] = Waiting
  /\ ~closed /\ ~Refused(call[p])
  /\ Apply(call[p])
  /\ Return(p, Answer(call[p]))
  /\ UNCHANGED <<now, ttl, late, closed>>

\* An attempt has timed out: what it wrote may still arrive.
Left(m) ==
  \/ UNCHANGED late
  \/ /\ m.op \in {"set", "setAt", "delete"} /\ Cardinality(late) < MaxLate
     /\ late' = late \cup {[m EXCEPT !.by = Nobody]}

Retry(p) ==
  /\ reply[p] = Waiting
  /\ ~closed /\ ~Refused(call[p])
  /\ Left(call[p])
  /\ UNCHANGED <<now, ttl, call, reply, db, closed>>

\* Mutant: the client has no time-out.
GiveUpClosed(p) ==
  /\ reply[p] = Waiting
  /\ closed /\ ~Refused(call[p])
  /\ Left(call[p])
  /\ Return(p, IF call[p].op \in {"get", "exists"} THEN Miss ELSE Failed)
  /\ UNCHANGED <<now, ttl, db, closed>>

\* The last attempt has timed out, or the client is closed.
GiveUp(p) ==
  /\ reply[p] = Waiting
  /\ ~Refused(call[p])
  /\ Left(call[p])
  /\ Return(p, IF call[p].op \in {"get", "exists"} THEN Miss ELSE Failed)
  /\ UNCHANGED <<now, ttl, db, closed>>

ServeLate(m) ==
  /\ Apply(m)
  /\ late' = late \ {m}
  /\ UNCHANGED <<now, ttl, call, reply, closed>>

DropLate(m) ==
  /\ late' = late \ {m}
  /\ UNCHANGED <<now, ttl, call, reply, db, closed>>

Lose(k) ==
  /\ db' = [db EXCEPT ![k] = None]
  /\ UNCHANGED <<now, ttl, call, reply, late, closed>>

Close ==
  /\ ~closed
  /\ closed' = TRUE
  /\ UNCHANGED <<now, ttl, call, reply, db, late>>
===============================================================================
