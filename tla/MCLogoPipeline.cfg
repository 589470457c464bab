SPECIFICATION PipeSpec
CONSTANTS
  ByteBits = 3
  PositionBits = 4
  N = 16
  F = 4
  Threshold = 1
  FrequentChar = 0
  Linefeed = 2
  CarriageReturn = 5
  Garbage = {4, 6}
  Jobs <- AllJobs
  Texts <- AllTexts
PROPERTIES LogoCopied CodecPerformed LogoPrinted
CHECK_DEADLOCK FALSE
