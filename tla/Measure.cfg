CONSTANTS
  Top = 6
  Bottom = 1
  Frame = 2
  Interrupts = 1
  Pushes = 6
  NTESTS = 3
  Durations = {9, 1000000, 8388600}
  Long = 1073741824
  Cut = 16777216
SPECIFICATION Spec
INVARIANTS StackIsMeasured MedianIsRight ReadsBack
