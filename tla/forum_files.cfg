SPECIFICATION Spec
CONSTANTS
    Posts = {p1}
    NoPost = NoPost
    Uploads = {i1, i2}
    Requests = {r1, r2}
    Workers = {w1}
    MaxInFlight = 2
    MaxAssets = 2
    MaxKeys = 2
    MaxFaults = 1
SYMMETRY Interchangeable
INVARIANTS UsableIsStored
CHECK_DEADLOCK FALSE
