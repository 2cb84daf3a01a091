SPECIFICATION Spec
CONSTANTS
  IntMin <- MCIntMin
  IntMax <- MCIntMax
  ExtLiterals <- MCExtLiterals
  UidRank <- MCUidRank
  Worlds <- MCWorlds
  Masks <- MCMasks
  PolicyIDs <- MCPolicyIDs
  Bodies <- AllBodies
  PolicyLists <- MCPolicyLists
  HasEnvironment <- MCHasEnvironment
  RequestValid <- MCRequestValid
  EntitiesValid <- MCEntitiesValid
  TypeChecks <- MCTypeChecks
  RequestFits <- MCRequestFits
  EntitiesFit <- MCEntitiesFit
  Reduce <- MCReduce
  FiledAs <- MCFiledAs
  Meaning <- MCMeaning
INVARIANTS
  TypeOK
  ReauthorizeAgrees
  ClaimsHold
  SameLooksAccepted
PROPERTIES
  DecisionsStable
