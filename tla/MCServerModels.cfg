SPECIFICATION FairSpec
CONSTANTS
    c1 = c1
    c2 = c2
    Callers <- MCCallers
    Configs <- MCConfigs
    MaxHolds = 2
    MayFail = TRUE
INVARIANTS
    TypeOK
    QueryMeetsModels
    OnePassAtATime
PROPERTIES
    WarmServerReturns
    HoldFreesTheMemory
    ContractSpec
