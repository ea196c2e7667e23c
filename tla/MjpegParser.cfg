CONSTANTS
  FF = FF
  D8 = D8
  D9 = D9
  ReadSize = 3
  MaxBuffered = 4
  MaxStream = 10
SPECIFICATION Spec
INVARIANTS
  TypeOK
  FramesAreTheStreams
  BufferBounded
CHECK_DEADLOCK FALSE
