SPECIFICATION Spec
CONSTANTS
    enrich = enrich
    enrich2 = enrich2
    sync = sync
    embed = embed
    eval = eval
    status = status
    Commands = {enrich, enrich2, sync, embed, eval}
    Yielding = {enrich, enrich2}
    NoWait = {enrich2, eval}
    Readers = {status}
    MayCrash = {sync, enrich}
    NoOne = NoOne
INVARIANTS
    TypeOK
    OneModelSet
    OvertakenOnce
    ReleasedInfoIsBlank
PROPERTIES
    PoliteLockSpec
