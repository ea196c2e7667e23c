CONSTANTS
  Consumers = {c1, c2}
  NoFrame = NoFrame
  MaxFrames = 4
SPECIFICATION FairSpec
INVARIANTS
  TypeOK
  NoLostWakeup
  Conservation
PROPERTIES
  CloseReleasesWaiters
  StreamSpec
