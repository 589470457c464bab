SPECIFICATION Spec
CONSTANTS
  ByteBits = 3
  PositionBits = 4
  N = 16
  F = 4
  Threshold = 1
  FrequentChar = 0
  Alphabet = {0, 1, 2}
  MaxLen = 5
  MaxPart = 2
  Texts <- SomeTexts
INVARIANTS TypeOK CodeBufFits LinksAgree TreesFindable WindowIsText MatchFound LongestMatch NoStaleString
PROPERTIES Terminates
CHECK_DEADLOCK FALSE
