\* Frames assembled, animations rendered, frames written out.
CONSTANTS
  Frames <- MCFrames
  MaxEntries = 10
  MaxRefusals = 1
  Animations <- MCAnimations
  Width = 2
  Crops <- MCCrops
  MaxCalls = 4
  Pictures <- MCPictures
  Rooms = {1, 2, 5, 20}
  MaxFrames = 2
  SmallHeader = 2
  LargeHeader = 3
  IndexLen = 1
  FileHeader = 2
  StreamHeader = 1
  JbrdLen = 1
SPECIFICATION FramesSpec
INVARIANTS
  TypeOK
  BytesAtOffsets
  DoneWhenAllTaken
  SectionsFound
  AnimationTypeOK
  PlaysInOrder
  RefsFollowChain
  ModularHistoryFree
  HandedOutInOrder
  CodestreamInParts
PROPERTIES
  ImplementsSections
  Drains
\* A frame is loaded or given up, calls are bounded, and encoding may fail.
CHECK_DEADLOCK FALSE
