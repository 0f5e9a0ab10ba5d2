SPECIFICATION Spec
CONSTANTS
  Timers <- TimersChecked
  NSEC_IN_SEC = 4
  WordBits = 6
  Offsets = {0, 61}
  MonotonicLag <- MonotonicLagChecked
  ReadGaps = {0, 1}
  MaxTime = 13
  MaxRuns = 2
INVARIANTS
  TimesFaithful AbortsOnlyOnExtremes
CHECK_DEADLOCK FALSE
