CONSTANTS
  Cameras = {cam1}
  Undefined = Undefined
  Null = Null
  MinimumInterval = 2
  StartTime = 2
  MaxNow = 7
  MaxFrames = 3
  MaxConnects = 1
SPECIFICATION VisionSpec
INVARIANTS
  VisionTypeOK
  OneInFlight
PROPERTIES
  AdmissionsApart
  GateSpec
  MotionLooksBack
