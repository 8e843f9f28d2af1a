\* Parser, reader and decoder on every cut of small files.
CONSTANTS
  Files <- FeedingFiles
  AuxTypes <- MCAuxTypes
  JbrHeaderLen = 2
  BufferLen = 4
  RingLen = 2
  ImageHeaderLen = 3
SPECIFICATION FeedingSpec
INVARIANTS
  TypeOK
  Aligned
  DataFaithful
  CodestreamOrdered
  NoMoreIsTrue
  ReaderTypeOK
  HandledBoxesExact
  SoundAccepted
  CleanChunksAccepted
  InitializedFromCodestream
PROPERTIES
  KindStable
  SoundFileConsumedByParser
  ImplementsContainerStream
  EveryBoxListedByReader
  AnswersFinal
  SoundFileInitializes
\* A file ends, and the caller stops when a call fails.
CHECK_DEADLOCK FALSE
