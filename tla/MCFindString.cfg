SPECIFICATION Spec
CONSTANTS
  Size <- MCSize
  Jobs <- MCJobs
INVARIANT LineKept
PROPERTIES FieldGrabbed FieldComplete
CHECK_DEADLOCK FALSE
