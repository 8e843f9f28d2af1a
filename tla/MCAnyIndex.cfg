\* The same keyframe again, or one that resets the canvas: the next is wrong.
CONSTANTS
  Animations <- MCAnimations
  Width = 2
  Crops = {}
  MaxCalls = 4
SPECIFICATION AnimationSpec
INVARIANT AnyIndex
CHECK_DEADLOCK FALSE
