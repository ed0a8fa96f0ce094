SPECIFICATION SequentialSpec
CONSTANTS
    Devices = {d1, d2}
    Workers = {w1, w2}
    Values = {v1, v2}
    None = None
    MaxRequests = 3
    MaxLogins = 1
    MaxFailures = 1
    MaxTime = 2
SYMMETRY Symmetry
PROPERTIES
    ImplementsBook
    NoDuplicatePhone
    OnlyRequestedField
CHECK_DEADLOCK FALSE
