\* An RLE stream in which a fast channel is followed by a slow one.
CONSTANTS
  WindowSize = 4
  Capacities = {2, 4}
  MinLength = 2
  MaxLength = 20
  Special <- MCSpecial
  Images <- MCMixedImages
SPECIFICATION TokenSpec
INVARIANT VarintsUnlessAllFast
CHECK_DEADLOCK FALSE
