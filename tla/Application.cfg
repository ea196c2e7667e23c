CONSTANTS
  NoFrame = NoFrame
  MaxFrames = 2
  PipeCapacity = 1
  ChunkFrames = 1
  BackoffCap = 4
  TokenIsRight = TRUE
SPECIFICATION RespondingSpec
INVARIANTS
  TypeOK
  ReturnLeavesNothing
  ExitHasReason
  BackoffFollowsOutage
PROPERTIES
  SendsAreFresh
  RunEnds
CHECK_DEADLOCK FALSE
