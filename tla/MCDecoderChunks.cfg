\* A sound file in chunks: the decoder refuses some of them.
CONSTANTS
  Files <- MCFiles
  AuxTypes <- MCAuxTypes
  JbrHeaderLen = 2
  BufferLen = 4
  RingLen = 2
  ImageHeaderLen = 3
SPECIFICATION SessionFairSpec
INVARIANT AnyChunksAccepted
CHECK_DEADLOCK FALSE
