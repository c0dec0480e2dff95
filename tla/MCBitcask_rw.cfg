\* Concurrent puts, deletes and gets of two Readers, merging disabled, and a crash at any point followed by reopen.
CONSTANTS
    Keys = {k1, k2}
    Values = {v1, v2}
    Nil = Nil
    Readers = {r1, r2}
    ValueLen = 2
    TombLen = 1
    MaxFileSize = 3
    BufCapacity = 4
    MergeEnable = FALSE
    TrigDeadBytes = 0
    TrigFrag <- FragHalf
    ThrDeadBytes = 0
    ThrFrag <- FragHalf
    ThrSmallFile = 0
    MaxOps = 4
    MaxMerges = 0
    MaxCrashes = 1
    UnlinkMayFail = FALSE
    CreateMayFail = FALSE
SPECIFICATION Spec
INVARIANT TypeOK
INVARIANT StatsMatchKeyDir
INVARIANT RecordsAccounted
INVARIANT KeyDirDurable
INVARIANT GetLinearizable
PROPERTY SegmentsImmutable
