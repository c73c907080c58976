SPECIFICATION FairSpec
CONSTANTS
    m1 = m1
    m2 = m2
    user = user
    NoUrl = NoUrl
    Urls = {m1, m2}
    Contents = {c1}
    Workers = {w1}
    BatchSize = 1
    MaxUploads = 2
    MaxFaults = 1
    Owner <- OneUploader
    Rank <- FirstIsM1
INVARIANTS StoreMatchesRows
PROPERTIES ImplementsMediaContract QueuedIsDeleted
CHECK_DEADLOCK FALSE
