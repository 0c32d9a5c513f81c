CONSTANTS
  NTESTS = 1
  counts = 2
  Caught = {"opening", "body", "closing", "off", "hung"}
SPECIFICATION Spec
INVARIANTS PassIsEarned FailureIsReal
PROPERTY HostEnds
CHECK_DEADLOCK FALSE
