SPECIFICATION Spec
CONSTANTS
    Watches = {w1, w2}
    Conns = {c1, c2}
    Owners = {u1}
    None = None
    MaxJobs = 4
    MaxEdits = 2
    MaxTime = 1
    PointBatches <- Points
    CallBatches <- Records
    RecordIds = {1, 2}
SYMMETRY Symmetry
INVARIANTS
    TypeOK
    EditKept
    ReportsStored
    NumbersStable
    AnsweredWhole
    FiledUnderOwner
    LinkedToOwn
    AnsweredCallsStored
CHECK_DEADLOCK FALSE
