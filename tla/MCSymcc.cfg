SPECIFICATION SymccSpec
CONSTANTS
  Targets = {"cex-pbt", "cex-drt", "check-ok"}
  NumQueries = 4
  UsageLimit = 2
  Types <- MCTypes
  Terms <- MCTerms
  Funs <- MCFuns
  Form <- MCForm
  Parts <- MCParts
  Rank <- MCRank
  Eid <- MCEid
  Field <- MCField
  Needs <- MCNeeds
  Unsayable <- MCUnsayable
  Jobs <- MCJobs
  MaxCalls = 2
  Root = Root
  Callers = {"tests", "ffi", "trial"}
  NumChecks = 2
INVARIANTS
  TypesOK
  HandedOverIdle
  AnswersMatch
  NoFalseAlarm
  ScriptsRight
  NamesMean
  ChecksApart
PROPERTIES
  EveryCallEnds
