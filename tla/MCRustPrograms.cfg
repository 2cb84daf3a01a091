SPECIFICATION MCSpec
CONSTANTS
    Threads = {1, 2}
    Owners = {"locals", "analyzer"}
    MaxCalls = 2
    MaxRounds = 2
    Requests = {1, 2, 3}
    Matches <- MCMatches
    Sizes <- MCSizes
    TypeIds <- MCTypeIds
    MaxNames = 3
    MaxActions = 2
    EnvLimit = 2
    MaxTypes = 2
    MaxWidth = 2
    MaxPolicies = 2
    MaxLinks = 2
    DrawnIds = {"x", "y"}
    AttributeTypes <- MCAttributeTypes
    DrawnNames <- MCDrawnNames
    Depths = {0, 1, 2}
    PolicyCount = 2
    Batch = 2
    Fragments <- MCFragments
    SentTerms <- MCSentTerms
    FoundTerms <- MCFoundTerms
    FoundEnvs <- MCFoundEnvs
    LeftOver <- MCLeftOver
    MaxTermWidth = 20
    V4Width = 2
    V6Width = 3
    DecimalDigits = 2
    PolicyFiles <- MCPolicyFiles
    CliSchemas <- MCCliSchemas
    OpenArguments <- MCOpenArguments
INVARIANTS
    TypesOK
    RuntimeSafe
    ReportsExact
    GeneratedUsable
    HierarchyOrdered
    GeneratedFits
    SchemasMean
    TermsKept
    AlarmsExact
PROPERTIES
    EveryProgramEnds
CHECK_DEADLOCK FALSE
