SPECIFICATION FairSpec
CONSTANTS
    Workers = {w1, w2}
    Nobody = Nobody
    Dead = Dead
    LEASE = 1
    MaxWindow = 1
    MaxJobs = 2
    MaxFaults = 1
INVARIANTS TypeOK SuccessIsPublished
PROPERTIES ImplementsBackupContract EveryJobEnds
CHECK_DEADLOCK FALSE
