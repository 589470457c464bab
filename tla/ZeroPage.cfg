SPECIFICATION Spec6502
CONSTANTS
  ByteBits = 3
  PositionBits = 4
  N = 16
  F = 4
  Threshold = 1
  Linefeed = 2
  CarriageReturn = 5
  Garbage = {4, 6}
  Logos <- SomeLogos
  ZeroPage = 4
  Saved = 3
  SaveSize = 3
INVARIANT ZeroPageRestored
CHECK_DEADLOCK FALSE
