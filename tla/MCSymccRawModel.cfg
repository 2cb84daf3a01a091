SPECIFICATION Spec
CONSTANTS
  Targets = {"cex-pbt"}
  NumQueries = 2
  UsageLimit = 10
INVARIANTS
  RawModelOfLastCall
