CONSTANTS
  NoVerdict = NoVerdict
  MaxFrames = 3
  MaxLinks = 2
  MaxNoise = 2
SPECIFICATION FairSpec
INVARIANTS
  TypeOK
  ConnectedIsConfirmed
  ReadPingsAreAnswered
  AcksAreNotAhead
PROPERTIES
  ExchangeSpec
  CallsReturn
CHECK_DEADLOCK FALSE
