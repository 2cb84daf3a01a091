SPECIFICATION Spec
CONSTANTS
  IntMin <- MCIntMin
  IntMax <- MCIntMax
  ExtLiterals <- MCExtLiterals
  UidRank <- MCUidRank
  Uids <- MCUids
  Extras <- MCExtras
  Stores <- MCStores
  Requests <- MCRequests
  Residuals <- MCResiduals
  Fetch <- MCFetch
  Literals <- MCLiterals
  Reduce <- MCReduce
  Decided <- MCDecided
  Outcome <- MCOutcome
  Meaning <- MCMeaning
  Fuels <- MCFuels
  Exprs <- MCExprs
  IsValue <- MCIsValue
INVARIANTS
  TypeOK
  ResultAgrees
  Converges
  LoaderContract
PROPERTIES
  Returns
