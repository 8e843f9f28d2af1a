\* A bare codestream is out when a frame with metadata comes: boxes follow it.
CONSTANTS
  Pictures <- MCPictures
  Rooms = {1, 2, 5, 20}
  MaxFrames = 2
  SmallHeader = 2
  LargeHeader = 3
  IndexLen = 1
  FileHeader = 2
  StreamHeader = 1
  JbrdLen = 1
SPECIFICATION OutputSpec
INVARIANT ContainerFromStart
CHECK_DEADLOCK FALSE
