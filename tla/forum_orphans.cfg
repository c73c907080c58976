SPECIFICATION FairSpec
CONSTANTS
    Posts = {p1}
    NoPost = NoPost
    Uploads = {i1}
    Requests = {r1,r2}
    Workers = {w1}
    MaxInFlight = 2
    MaxAssets = 1
    MaxKeys = 1
    MaxFaults = 1
PROPERTIES OrphanIsCleaned ImplementsFileContract
CHECK_DEADLOCK FALSE
