CONSTANTS
  MaxStarts = 1
  PipeCapacity = 1
  ChunkFrames = 1
SPECIFICATION FairSpec
PROPERTY StopReturns
CHECK_DEADLOCK FALSE
