SPECIFICATION FairSpec
CONSTANTS
    Devices = {d1}
    Conns = {c1, c2}
    Listener = Listener
    None = None
    MaxPackets = 2
    MaxStalls = 1
    MaxPushes = 2
    MaxRestarts = 1
PROPERTY RequestsServed
PROPERTY NotificationsConsumed
CHECK_DEADLOCK FALSE
