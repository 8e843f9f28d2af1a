\* Frames that are not shown but fill a slot: a keyframe blends on nothing.
CONSTANTS
  Animations <- HiddenFiles
  Width = 2
  Crops = {}
  MaxCalls = 4
SPECIFICATION AnimationSpec
INVARIANT NoFrameSkipped
CHECK_DEADLOCK FALSE
