\* Puts, deletes, gets and two merges, no crash.
CONSTANTS
    Keys = {k1, k2}
    Values = {v1, v2}
    Nil = Nil
    Readers = {r1}
    ValueLen = 2
    TombLen = 1
    MaxFileSize = 3
    BufCapacity = 4
    MergeEnable = TRUE
    TrigDeadBytes = 0
    TrigFrag <- FragHalf
    ThrDeadBytes = 1
    ThrFrag <- FragHalf
    ThrSmallFile = 3
    MaxOps = 4
    MaxMerges = 2
    MaxCrashes = 0
    UnlinkMayFail = FALSE
    CreateMayFail = FALSE
SPECIFICATION Spec
INVARIANT StatsMatchKeyDir
INVARIANT RecordsAccounted
INVARIANT KeyDirDurable
PROPERTY Refinement
PROPERTY SegmentsImmutable
