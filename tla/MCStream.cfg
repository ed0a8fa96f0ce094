SPECIFICATION FairSpec
CONSTANTS
    Bodies <- Few
    ReadSize = 7
    MaxPackets = 3
INVARIANTS
    TypeOK
    AnonymousNotServed
    IdleHoldsNoPacket
PROPERTIES
    ImplementsDialogue
    EventuallyHandled
CHECK_DEADLOCK FALSE
