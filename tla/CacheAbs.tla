------------------------------- MODULE CacheAbs -------------------------------
(***************************************************************************)
(* What a store behind the Cache interface (extensions/cache.go) promises. *)
(* A write that returns without an error has taken effect between its call *)
(* and its return. What was written can be got until its time is over, and *)
(* less than a second longer; it exists until it is swept, some time after *)
(* that. A lossy store is a server at the end of a network: it may lose    *)
(* entries or not answer, and a write may take effect more than once, even *)
(* after its caller has gone on.                                           *)
(***************************************************************************)
EXTENDS Integers

CONSTANTS
  Callers,     \* goroutines that use the store
  Keys,
  TicksPerSec, \* resolution of the clock; times are in ticks
  Nobody,      \* the caller of a write whose caller has gone on
  None,        \* no entry, no answer
  Nil,         \* the value nil
  Waiting,     \* no answer yet
  Done,        \* the answer to a write that worked
  Failed,      \* an error
  Found,       \* Exists: yes
  Miss         \* Exists: no; or Get found nothing

VARIABLES
  lossy,
  now,   \* the clock
  ttl,   \* how long a write without a deadline keeps its value
  sent,  \* writes that may still take effect: by, op, key, value, exp (the
         \* deadline in seconds, 0 for none), px (the time to live that was
         \* worked out at the call, if any)
  entry, \* for each key a value and the last tick it can be got (0: always)
  reply  \* for each caller the answer to its last call

vars == <<lossy, now, ttl, sent, entry, reply>>

\* The last ticks of an entry that m may write now.
Untils(m) ==
  LET short == TicksPerSec - 1
      due   == m.exp * TicksPerSec IN
  CASE m.op = "setAt" /\ m.exp = 0           -> {0}
    [] m.op = "setAt" /\ m.exp # 0 /\ ~lossy -> due..(due + short)
    [] m.op = "setAt" /\ m.exp # 0 /\ lossy  -> due..(now + m.px)
    [] m.op = "set" /\ ~lossy                -> (now + ttl)..(now + ttl + short)
    [] m.op = "set" /\ lossy                 -> {now + m.px}

Gone(k)    == entry[k] # None /\ entry[k].until > 0 /\ now > entry[k].until
Visible(k) == entry[k] # None /\ ~Gone(k)

Write(m) ==
  IF m.op = "delete" THEN entry' = [entry EXCEPT ![m.key] = None]
  ELSE \E u \in Untils(m) :
         entry' = [entry EXCEPT ![m.key] = [value |-> m.value, until |-> u]]

-----------------------------------------------------------------------------

Init ==
  /\ lossy \in BOOLEAN
  /\ now \in Nat /\ ttl \in Nat
  /\ sent = {}
  /\ entry = [k \in Keys |-> None]
  /\ reply = [p \in Callers |-> None]

\* A call, and the write it asks for, if it is not a read.
Call(p) ==
  /\ reply[p] = None
  /\ reply' = [reply EXCEPT ![p] = Waiting]
  /\ UNCHANGED sent \/ \E m \in sent' : m.by = p /\ sent' = sent \cup {m}
  /\ UNCHANGED <<lossy, now, ttl, entry>>

Return(p) ==
  /\ reply[p] \notin {None, Waiting}
  /\ reply' = [reply EXCEPT ![p] = None]
  /\ UNCHANGED <<lossy, now, ttl, sent, entry>>

\* A write takes effect, and its caller, if it has one, will know.
Finish(m) ==
  /\ reply' = IF m.by = Nobody THEN reply ELSE [reply EXCEPT ![m.by] = Done]
  /\ sent' = sent \ {m}
  /\ Write(m)
  /\ UNCHANGED <<lossy, now, ttl>>

\* The network keeps a copy of a write, or forgets one.
Copy(m) ==
  /\ lossy
  /\ sent' = sent \cup {[m EXCEPT !.by = Nobody]}
  /\ UNCHANGED <<lossy, now, ttl, entry, reply>>

Drop(m) ==
  /\ m.by = Nobody
  /\ sent' = sent \ {m}
  /\ UNCHANGED <<lossy, now, ttl, entry, reply>>

\* The caller is told of an error. Only a lossy store fails a write of
\* something, and there a copy of the write may remain.
Fail(p) ==
  /\ reply[p] = Waiting
  /\ reply' = [reply EXCEPT ![p] = Failed]
  /\ LET mine == {m \in sent : m.by = p} IN
     /\ lossy \/ \E m \in mine : m.value = Nil
     /\ \/ sent' = sent \ mine
        \/ /\ lossy
           /\ sent' = (sent \ mine) \cup {[m EXCEPT !.by = Nobody] : m \in mine}
  /\ UNCHANGED <<lossy, now, ttl, entry>>

Answer(p, a) ==
  /\ reply[p] = Waiting
  /\ reply' = [reply EXCEPT ![p] = a]
  /\ UNCHANGED <<lossy, now, ttl, sent, entry>>

Get(p, k) ==
  \/ Visible(k) /\ Answer(p, entry[k].value)
  \/ (Visible(k) => lossy) /\ Answer(p, Miss)

Exists(p, k) ==
  \/ entry[k] # None /\ Answer(p, Found)
  \/ (Visible(k) => lossy) /\ Answer(p, Miss)

\* Entries go: those whose time is over, from a lossy store any.
Sweep(keys) ==
  /\ entry' = [k \in Keys |-> IF k \in keys THEN None ELSE entry[k]]
  /\ \A k \in keys : Visible(k) => lossy
  /\ UNCHANGED <<lossy, now, ttl, sent, reply>>

SetDefaultTTL ==
  /\ ttl' \in Nat
  /\ UNCHANGED <<lossy, now, sent, entry, reply>>

Tick ==
  /\ now' = now + 1
  /\ UNCHANGED <<lossy, ttl, sent, entry, reply>>

Next ==
  \/ \E p \in Callers : \/ Call(p) \/ Return(p) \/ Fail(p)
                        \/ \E k \in Keys : Get(p, k) \/ Exists(p, k)
  \/ \E m \in sent : Finish(m) \/ Copy(m) \/ Drop(m)
  \/ \E keys \in SUBSET Keys : Sweep(keys)
  \/ SetDefaultTTL
  \/ Tick

Spec == Init /\ [][Next]_vars
===============================================================================
