SPECIFICATION FairSpec
CONSTANTS
    Watches = {w1, w2}
    MaxContacts = 2
    None = None
    MaxFaults = 1
    MaxSyncs = 1
INVARIANTS
    TypeOK
    NothingForgotten
PROPERTIES
    ImplementsDelivery
    PushesGoOn
    EventuallyKnown
CHECK_DEADLOCK FALSE
