CONSTANTS
  NoFrame = NoFrame
  MaxFrames = 2
  PipeCapacity = 1
  ChunkFrames = 1
  BackoffCap = 4
  TokenIsRight = FALSE
SPECIFICATION RespondingSpec
INVARIANT RefusedTokenBacksOff
CHECK_DEADLOCK FALSE
