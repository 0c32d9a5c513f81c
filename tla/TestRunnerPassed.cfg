CONSTANTS
  NTESTS = 1
  counts = 2
  Caught = {"opening", "body", "closing", "off", "hung"}
SPECIFICATION Spec
INVARIANT PassedFile
CHECK_DEADLOCK FALSE
