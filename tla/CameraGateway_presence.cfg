CONSTANTS
  Cameras = {cam1, cam2}
  Undefined = Undefined
  Null = Null
  MinimumInterval = 0
  StartTime = 0
  MaxNow = 0
  MaxFrames = 2
  MaxConnects = 2
  Sockets = {s1, s2, s3}
  CameraTokenIsSet = TRUE
  ViewerTokenIsSet = TRUE
SPECIFICATION FairSpec
INVARIANT SocketIsOnline
