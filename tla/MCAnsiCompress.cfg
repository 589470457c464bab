SPECIFICATION Spec
CONSTANTS
  N = 512
  F = 18
  THRESHOLD = 2
  FREQUENT_CHAR = 35
  bufsize = 6
  TableSize = 2
  MaxPieces = 3
  LongLength = 900
  Logos <- SomeLogos
  TwoLogos <- SomeTwoLogos
INVARIANTS RleReadBack OldLongestMatch OldRoundTrip StatusComplete
CHECK_DEADLOCK FALSE
