SPECIFICATION Spec
CONSTANTS
    ann = ann
    bob = bob
    family = family
    work = work
    trip = trip
    budget = budget
    photo = photo
    jpeg = jpeg
    cli = cli
    People = {ann, bob}
    Chats = {family, work}
    Segments = {trip, budget}
    Attachments = {}
    ChatOf <- MCChatOf
    SegmentOf <- MCSegmentOf
    SenderOf <- MCSenderOf
    MimeOf <- MCMimeOf
    FirstMembers <- MCFirstMembers
    FirstAllowed <- MCBothAllowed
    MayRevoke = {ann}
    Pushers = {cli}
    MaxRuns = 2
    MaxChanges = 0
    MaxFaults = 1
    None = None
INVARIANTS
    PurgeLeavesNothing
CHECK_DEADLOCK FALSE
