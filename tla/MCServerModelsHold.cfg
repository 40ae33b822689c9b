SPECIFICATION FairSpec
CONSTANTS
    c1 = c1
    c2 = c2
    Callers <- OneCaller
    Configs <- PublicOnly
    MaxHolds = 1
    MayFail = FALSE
PROPERTIES
    HoldLetsTheJobLoad
