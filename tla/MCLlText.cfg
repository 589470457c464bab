SPECIFICATION Spec
CONSTANTS
  Columns <- MCColumns
  Size <- MCSize
  Jobs <- MCJobs
INVARIANTS TextShown Centered LinesEnded
PROPERTY ReachesExit
CHECK_DEADLOCK FALSE
