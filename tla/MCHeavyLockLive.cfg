SPECIFICATION FairSpec
CONSTANTS
    enrich = enrich
    enrich2 = enrich2
    sync = sync
    embed = embed
    eval = eval
    status = status
    Commands = {enrich, sync, embed}
    Yielding = {enrich}
    NoWait = {}
    Readers = {status}
    MayCrash = {sync}
    NoOne = NoOne
PROPERTIES
    WaiterIsServed
