SPECIFICATION Spec
CONSTANTS
  Half <- MCHalf
  Word <- MCWord
  Places <- MCPlaces
  Jobs <- GoodJobs
INVARIANTS DigitsRight BufferFits
PROPERTIES DividesByTen
CHECK_DEADLOCK FALSE
