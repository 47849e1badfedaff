SPECIFICATION Spec
CONSTANTS
  ByteValues = 16
  Opcodes = 4
  ShortBytes = 1
  LongBytes = 2
  MaskBytes = 2
  MaxInt = 127
  XorByte <- BitXor
  BufSize = 11
  Key <- TwoBytes
  Lengths = {1, 6, 16}
  Writes = {6, 16}
  MaxFrames = 2
  MaxWrites = 1
  Text = 1
  Bye = 3
  Status = 62
INVARIANTS TypeOK ReadsInOrder WritesArrive
PROPERTIES ConnectionEnds
CHECK_DEADLOCK FALSE
