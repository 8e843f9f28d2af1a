\* A compressed box in one piece, too long for the first buffer: its length
\* comes out wrong.
CONSTANTS
  Files <- MCFiles
  AuxTypes <- MCAuxTypes
  JbrHeaderLen = 2
  BufferLen = 4
  RingLen = 2
SPECIFICATION ReaderFairSpec
INVARIANT WholeBoxesExact
CHECK_DEADLOCK FALSE
