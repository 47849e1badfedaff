-------------------------------- MODULE Frame --------------------------------
(***************************************************************************)
(* The frames of websocket/frame.go, with bytes and lengths scaled down:   *)
(* a byte has ByteValues values; in the first one FIN is the highest bit,  *)
(* one bit stands for the three RSV bits, the rest is the opcode; in the   *)
(* second one the highest bit is MASK, the rest a length or one of the     *)
(* last two codes (126 and 127) for a length in the bytes that follow.     *)
(***************************************************************************)
EXTENDS Integers, SequencesExt

CONSTANTS
  ByteValues, \* 256
  Opcodes,    \* 16: opcodes are 0..Opcodes - 1
  ShortBytes, \* 2: bytes of a length after 126
  LongBytes,  \* 8: bytes of a length after 127
  MaskBytes,  \* 4
  MaxInt,     \* 2^63 - 1
  XorByte(_, _) \* ^ of two bytes

Bytes == 0..(ByteValues - 1)

\* The value of the digit with k others to its right.
Power[k \in Nat] == IF k = 0 THEN 1 ELSE ByteValues * Power[k - 1]

ASSUME FrameAssumption ==
  /\ ByteValues = 4 * Opcodes
  /\ {Opcodes, ShortBytes, LongBytes, MaskBytes, MaxInt} \subseteq Nat \ {0}

\* What is masked twice is as it was.
ASSUME XorAssumption ==
  \A a, b \in Bytes : XorByte(a, b) \in Bytes /\ XorByte(XorByte(a, b), b) = a

MaskBit    == ByteValues \div 2
LenCodes   == ByteValues \div 2
ShortCode  == LenCodes - 2
LongCode   == LenCodes - 1
FinBit     == ByteValues \div 2
RsvBit     == ByteValues \div 4
MaxShort   == Power[ShortBytes] - 1

\* binary.BigEndian: Uint16 and Uint64, PutUint16 and PutUint64.
Uint(bytes) ==
  LET n[i \in 0..Len(bytes)] ==
        IF i = 0 THEN 0 ELSE n[i - 1] * ByteValues + bytes[i]
  IN  n[Len(bytes)]

\* Mutant: a byte that is not cut off.
PutUintUncut(size, n) == [i \in 1..size |-> n \div Power[size - i]]

PutUint(size, n) ==
  [i \in 1..size |-> (n \div Power[size - i]) % ByteValues]

\* Arithmetic of a Go int, and the conversion of a uint64.
Int64(n) == ((n + MaxInt + 1) % (2 * (MaxInt + 1))) - (MaxInt + 1)

\* Mutant: the key starts with its second byte.
UnmaskedFromNext(payload, key) ==
  [i \in 1..Len(payload) |-> XorByte(payload[i], key[(i % MaskBytes) + 1])]

Unmasked(payload, key) ==
  [i \in 1..Len(payload) |-> XorByte(payload[i], key[((i - 1) % MaskBytes) + 1])]

Outcome(outcome, opcode, payload) ==
  [outcome |-> outcome, opcode |-> opcode, payload |-> payload]

\* A frame, an error, or a panic (of a slice that ends before it starts). All
\* of data counts, whatever part of it was read.
DecodeFrame(data) ==
  LET rsv      == (data[1] \div RsvBit) % 2 = 1
      opcode   == data[1] % Opcodes
      isMasked == data[2] >= MaskBit
      code     == data[2] % LenCodes
      extended == CASE code = ShortCode -> ShortBytes
                    [] code = LongCode  -> LongBytes
                    [] OTHER            -> 0
      length   == IF extended = 0 THEN code
                  ELSE Uint(SubSeq(data, 3, 2 + extended))
      start    == 2 + extended + (IF isMasked THEN MaskBytes ELSE 0)
      end      == Int64(start + Int64(length))
      key      == SubSeq(data, start - MaskBytes + 1, start)
      payload  == SubSeq(data, start + 1, end)
  IN IF \/ Len(data) < 2 \/ rsv
        \/ Len(data) < start \/ Len(data) < end THEN Outcome("error", 0, <<>>)
     ELSE IF end < start THEN Outcome("panic", 0, <<>>)
     ELSE IF isMasked THEN Outcome("frame", opcode, Unmasked(payload, key))
     ELSE Outcome("frame", opcode, payload)

\* Mutant: the first code is taken for a length.
EncodeLong(payload, opcode) ==
  LET n == Len(payload) IN
  <<FinBit + opcode>>
  \o (CASE n <= ShortCode -> <<n>>
        [] n > ShortCode /\ n <= MaxShort ->
             <<ShortCode>> \o PutUint(ShortBytes, n)
        [] OTHER -> <<LongCode>> \o PutUint(LongBytes, n))
  \o payload

EncodeFrame(payload, opcode) ==
  LET n == Len(payload) IN
  <<FinBit + opcode>>
  \o (CASE n < ShortCode -> <<n>>
        [] n >= ShortCode /\ n <= MaxShort ->
             <<ShortCode>> \o PutUint(ShortBytes, n)
        [] OTHER -> <<LongCode>> \o PutUint(LongBytes, n))
  \o payload
===============================================================================
