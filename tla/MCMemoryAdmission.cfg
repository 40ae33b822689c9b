SPECIFICATION Spec
CONSTANTS
    public = public
    local = local
    sync = sync
    eval = eval
    Live = {public, local}
    Retrying = {public}
    Background = {sync}
    Batch = {}
    Stepwise = {sync}
    Footprint <- MCFootprint
    Total = 4
    Reserve = 1
    Drift = 1
    PressureLevels = {"normal", "critical"}
    MaxPressure = "normal"
    ProbeMayFail = TRUE
    MayCrash = {sync, public}
    NoOne = NoOne
INVARIANTS
    TypeOK
    NoBlindPair
    RoomForAll
    PastNoticeStaysUp
PROPERTIES
    BackgroundGivesWay
    ServersKeepContract
