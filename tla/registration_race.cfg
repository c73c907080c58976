SPECIFICATION Spec
CONSTANTS
    Users = {u1, u2}
    Requests = {r1, r2}
    None = None
    MaxCapacity = 2
    MaxTime = 1
SYMMETRY Interchangeable
INVARIANTS TypeOK SheetIsThere CapacityKeptApart
PROPERTIES PlacesAndDeadlineKept
CHECK_DEADLOCK FALSE
