\* A compressed box in pieces: its length comes out wrong.
CONSTANTS
  Files <- MCFiles
  AuxTypes <- MCAuxTypes
  JbrHeaderLen = 2
  BufferLen = 4
  RingLen = 2
SPECIFICATION ReaderFairSpec
INVARIANT SmallBoxesExact
CHECK_DEADLOCK FALSE
