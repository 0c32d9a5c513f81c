CONSTANTS
  Sizes = {0, 1, 3, 6}
  Requests = 2
  Stream = 28
  Inits = 2
  Seeds = {"s1", "s2"}
  WordBase = 2
  Half = 2
  ByteBase = 3
  CtrBytes = 2
  Block = 2
  Yielded = {1, 7}
SPECIFICATION Spec
INVARIANTS NoByteTwice InputsFresh MatchesReference
CHECK_DEADLOCK FALSE
