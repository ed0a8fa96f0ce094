SPECIFICATION Spec
CONSTANTS
    Devices = {d1}
    Workers = {w1, w2}
    Values = {v1, v2}
    None = None
    MaxRequests = 2
    MaxLogins = 0
    MaxFailures = 0
    MaxTime = 2
SYMMETRY Symmetry
PROPERTY NoDuplicatePhone
CHECK_DEADLOCK FALSE
