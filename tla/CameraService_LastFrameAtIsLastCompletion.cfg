CONSTANTS
  Cameras = {cam1}
  Undefined = Undefined
  Null = Null
  MinimumInterval = 2
  StartTime = 2
  MaxNow = 5
  MaxFrames = 2
  MaxConnects = 1
SPECIFICATION Spec
INVARIANT LastFrameAtIsLastCompletion
