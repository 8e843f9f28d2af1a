\* The machines that read and write coded data.
CONSTANTS
  Codes <- MCCodes
  StreamLengths = {1, 15}
  Widths = {0, 3, 32, 70}
  MaxPosition = 120
  MinCapacity = 2
  Sizes = {0, 7, 56, 57}
  Budgets = {1, 20, 66}
  Appended = {2}
  MaxDepth = 3
  MaxBytes = 3
  WindowSize = 4
  Capacities = {2, 4}
  MinLength = 2
  MaxLength = 20
  Special <- MCSpecial
  Images <- MCImages
SPECIFICATION CodingSpec
INVARIANTS
  TypeOK
  IsPermutation
  HasLehmerCode
  OnlyBadCodesRefused
  BitTypeOK
  BufferExact
  PositionExact
  WriterExact
  StorageSuffices
  WindowIsHistory
PROPERTIES
  ImplementsStream
  ReadsLz77
\* A permutation and a sub-image are read once.
CHECK_DEADLOCK FALSE
