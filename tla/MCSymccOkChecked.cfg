SPECIFICATION Spec
CONSTANTS
  Targets = {"check-ok"}
  NumQueries = 2
  UsageLimit = 10
INVARIANTS
  OkChecked
