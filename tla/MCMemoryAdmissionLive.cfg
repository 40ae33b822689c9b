SPECIFICATION FairSpec
CONSTANTS
    public = public
    local = local
    sync = sync
    eval = eval
    Live = {public}
    Retrying = {public}
    Background = {sync, eval}
    Batch = {eval}
    Stepwise = {sync}
    Footprint <- MCFootprint
    Total = 4
    Reserve = 1
    Drift = 0
    PressureLevels = {"normal"}
    MaxPressure = "normal"
    ProbeMayFail = FALSE
    MayCrash = {}
    NoOne = NoOne
PROPERTIES
    WaitingServerLoads
    NoticeComesDown
