SPECIFICATION Spec
CONSTANTS
    photo = photo
    clip = clip
    right = right
    wrong = wrong
    fileHere = fileHere
    fileWalk = fileWalk
    fileDrive = fileDrive
    fileMac = fileMac
    fileNas = fileNas
    pusher = pusher
    None = None
    Attachments = {photo, clip}
    Rows <- MCRows
    AttachmentOf <- MCAttachmentOf
    LocationOf <- MCLocationOf
    FileOf <- MCFileOf
    Flagged = {2}
    Reach <- MCReach
    OwnFile <- MCOwnFile
    Contents = {right, wrong}
    SizeOf <- MCSizeOf
    FirstDisk <- MCFirstDisk
    FirstListed <- MCFirstListed
    FirstPath <- MCFirstPath
    Pushers = {pusher}
    MaxAttempts = 2
    TrialLimit = 1
    MaxRuns = 2
    MaxPlans = 1
    MaxChanges = 1
    MaxFaults = 1
INVARIANTS
    TypeOK
    MissingAfterItsRuns
PROPERTIES
    
    
    CertainBeforeProbable
CHECK_DEADLOCK FALSE
