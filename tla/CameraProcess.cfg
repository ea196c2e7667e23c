CONSTANTS
  MaxStarts = 2
  PipeCapacity = 2
  ChunkFrames = 2
SPECIFICATION StreamingSpec
INVARIANTS
  TypeOK
  StopLeavesNothing
  EndIsReported
  PidIsChild
PROPERTIES
  StopReturns
  DeadChildReaped
CHECK_DEADLOCK FALSE
