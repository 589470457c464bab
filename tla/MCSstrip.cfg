SPECIFICATION Spec
CONSTANTS
  Names = {"a", "b"}
  Disks <- SomeDisks
  Argvs <- CommandLines
  Contents = 2
  Page = 4
  MaxData = 3
  Sizes = {0, 1, 3, 6}
INVARIANTS ImageKept Smallest StatusTells
PROPERTIES SecondTimeSame Terminates
CHECK_DEADLOCK FALSE
