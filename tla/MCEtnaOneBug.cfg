SPECIFICATION Spec
CONSTANTS
  N = 2
  Trials = 2
  MaxRuns = 3
INVARIANTS
  OneBugPerRow
