SPECIFICATION Spec
CONSTANTS
  IntMin <- MCIntMin
  IntMax <- MCIntMax
  ExtLiterals <- MCExtLiterals
  UidRank <- MCUidRank
  Uids <- MCUids
  Extras <- MCExtras
  Stores <- MCStores
  Requests <- MCRequests
  Residuals <- MCResiduals
  Fetch <- MCFetch
  Literals <- MCLiterals
  Reduce <- MCReduce
  Decided <- MCDecided
  Outcome <- MCOutcome
  Meaning <- MCMeaning
  PolicyIDs <- MCPolicyIDs
  PolicyLists <- MCPolicyLists
  Accepts <- MCAccepts
  Fuels <- MCFuels
INVARIANTS
  TypeOK
  ReauthorizeAgrees
  DecisionAgrees
  Converges
  LoaderContract
PROPERTIES
  OutcomesStable
  Implements
