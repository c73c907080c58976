SPECIFICATION Spec
CONSTANTS
    m1 = m1
    m2 = m2
    user = user
    NoUrl = NoUrl
    Urls = {m1}
    Contents = {c1}
    Workers = {w1}
    BatchSize = 1
    MaxUploads = 2
    MaxFaults = 0
    Owner <- OneUploader
    Rank <- FirstIsM1
INVARIANTS AttachedIsStored
CHECK_DEADLOCK FALSE
