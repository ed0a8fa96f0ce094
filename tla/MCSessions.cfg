SPECIFICATION Spec
CONSTANTS
    Devices = {d1, d2}
    Conns = {c1, c2, c3}
    Listener = Listener
    None = None
    MaxPackets = 3
    MaxStalls = 1
    MaxPushes = 1
    MaxRestarts = 0
SYMMETRY Symmetry
INVARIANT TypeOK
INVARIANT AwaitsOneCall
INVARIANT RegistrationSound
INVARIANT RegisteredHoldsValidToken
INVARIANT RegisteredUnlessOverlapped
INVARIANT PushAfterLoginReply
CHECK_DEADLOCK FALSE
