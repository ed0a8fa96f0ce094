SPECIFICATION Spec
CONSTANTS
    Devices = {d1}
    Conns = {c1, c2}
    Listener = Listener
    None = None
    MaxPackets = 2
    MaxStalls = 0
    MaxPushes = 0
    MaxRestarts = 0
SYMMETRY Symmetry
INVARIANT UnregisteredIsNotConnected
CHECK_DEADLOCK FALSE
