CONSTANTS
  K = 4
  Samples = {0, 1, 2, 3}
SPECIFICATION Spec
INVARIANTS TransformIsRemainders ProductIsExact StaysInRange
