SPECIFICATION Spec
CONSTANTS
    Users = {u1, u2}
    Requests = {r1, r2}
    None = None
    MaxCapacity = 2
    MaxTime = 1
SYMMETRY Interchangeable
INVARIANTS CapacityKept
CHECK_DEADLOCK FALSE
