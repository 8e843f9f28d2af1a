\* Keyframes played in order under one crop: VarDCT frames blend on the wrong pixels.
CONSTANTS
  Animations <- VardctFiles
  Width = 2
  Crops <- MCCrops
  MaxCalls = 4
SPECIFICATION PlaySpec
INVARIANT CropMatchesFull
CHECK_DEADLOCK FALSE
