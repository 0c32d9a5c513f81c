SPECIFICATION ClockSpec
CONSTANTS
  Period = 18
  Base = 2
  Latency = 1
  Stall = 2
INVARIANT CountsPeriods
PROPERTIES Exact SetupEnds TimeReturns
