CONSTANTS
  Samples = {1}
  Offsets = {0, 5, 8, 19, 135}
  Lengths = {0, 1, 3, 8, 12, 33}
  MaxCalls = 1
  MaxPermutes = 1
SPECIFICATION Spec
INVARIANTS LanesComeHome MakesAllRounds StateIsBytes ExtractsTheRange
CHECK_DEADLOCK FALSE
