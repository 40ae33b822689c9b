SPECIFICATION FairSpec
CONSTANTS
    session = session
    reply = reply
    caption = caption
    sync = sync
    enrich = enrich
    embed = embed
    short = short
    long = long
    Segments = {session, reply}
    Chunks = {caption}
    Texts = {short, long}
    Segmenters = {sync}
    Enrichers = {enrich}
    Syncers = {sync, embed}
    BatchSize = 2
    MaxEvents = 5
    Nobody = Nobody
INVARIANTS
    TypeOK
    NothingMissed
PROPERTIES
    CommitsAheadOfWatermark
    SyncCatchesUp
    MirrorSpec
