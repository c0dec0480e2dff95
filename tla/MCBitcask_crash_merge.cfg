\* A crash during one merge of every file, then reopen.
CONSTANTS
    Keys = {k1, k2}
    Values = {v1, v2}
    Nil = Nil
    Readers = {r1}
    ValueLen = 2
    TombLen = 1
    MaxFileSize = 3
    BufCapacity = 4
    MergeEnable = TRUE
    TrigDeadBytes = 0
    TrigFrag <- FragHalf
    ThrDeadBytes = 4
    ThrFrag <- FragHalf
    ThrSmallFile = 100
    MaxOps = 2
    MaxMerges = 1
    MaxCrashes = 1
    UnlinkMayFail = FALSE
    CreateMayFail = FALSE
SPECIFICATION Spec
INVARIANT KeyDirDurable
