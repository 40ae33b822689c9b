SPECIFICATION FairSpec
CONSTANTS
    pdf = pdf
    ocr = ocr
    caption = caption
    nightly = nightly
    manual = manual
    Tasks = {pdf, ocr, caption}
    Routed = {pdf, caption}
    FollowUps <- MCFollowUps
    Rank <- MCRank
    Workers = {nightly, manual}
    MaxAttempts = 2
    MaxFaults = 2
    MaxRetries = 1
    NoTask = NoTask
    NoWorker = NoWorker
INVARIANTS
    TypeOK
    RecordsItsOwnRow
    DoneMeansPublished
PROPERTIES
    EveryTaskSettles
    LedgerSpec
