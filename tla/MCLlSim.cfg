SPECIFICATION Spec
CONSTANTS
  MaxPieces = 2
  Starts <- SomeStarts
  version <- Version
  one <- One
  nmos <- Nmos
  cmos <- Cmos
  processor <- Processor
  ram <- Ram
  apple <- Apple
INVARIANTS PictureRight TextShown Finishes
