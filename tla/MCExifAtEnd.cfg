\* A sound file, all of it fed: the Exif query still asks for more input.
CONSTANTS
  Files <- MCFiles
  AuxTypes <- MCAuxTypes
  JbrHeaderLen = 2
  BufferLen = 4
  RingLen = 2
  ImageHeaderLen = 3
SPECIFICATION SessionFairSpec
PROPERTY ExifAnsweredAtEnd
CHECK_DEADLOCK FALSE
