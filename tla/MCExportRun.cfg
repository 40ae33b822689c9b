SPECIFICATION Spec
CONSTANTS
    ann = ann
    bob = bob
    family = family
    work = work
    trip = trip
    budget = budget
    photo = photo
    jpeg = jpeg
    cli = cli
    People = {ann, bob}
    Chats = {family, work}
    Segments = {trip, budget}
    Attachments = {photo}
    ChatOf <- MCChatOf
    SegmentOf <- MCSegmentOf
    SenderOf <- MCSenderOf
    MimeOf <- MCMimeOf
    FirstMembers <- MCFirstMembers
    FirstAllowed <- MCOnlyAnn
    MayRevoke = {ann}
    Pushers = {cli}
    MaxRuns = 2
    MaxChanges = 1
    MaxFaults = 2
    None = None
INVARIANTS
    TypeOK
    ScopeApproved
    
    
    StoreMirrorsCorpus
CHECK_DEADLOCK FALSE
