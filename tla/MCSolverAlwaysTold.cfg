SPECIFICATION SessionSpec
CONSTANTS
  Callers = {"trial"}
  NumChecks = 2
INVARIANTS
  AlwaysTold
