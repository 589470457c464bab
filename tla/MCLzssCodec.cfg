SPECIFICATION Spec
CONSTANTS
  Byte <- MCByte
  Fill = 0
  N = 4
  F = 2
  Threshold = 0
  Prefilled = TRUE
  MaxLen = 6
  Texts <- AnyText
INVARIANTS TypeOK RoundTrip WindowAgrees PairInWindow
PROPERTIES ImplementsByteCopy Delivered
CHECK_DEADLOCK FALSE
