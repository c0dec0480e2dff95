\* Puts and deletes whose rollover may fail to create the next data file; no merge, no crash.
CONSTANTS
    Keys = {k1, k2}
    Values = {v1, v2}
    Nil = Nil
    Readers = {r1}
    ValueLen = 2
    TombLen = 1
    MaxFileSize = 3
    BufCapacity = 4
    MergeEnable = FALSE
    TrigDeadBytes = 0
    TrigFrag <- FragHalf
    ThrDeadBytes = 0
    ThrFrag <- FragHalf
    ThrSmallFile = 0
    MaxOps = 4
    MaxMerges = 0
    MaxCrashes = 0
    UnlinkMayFail = FALSE
    CreateMayFail = TRUE
SPECIFICATION Spec
INVARIANT KeyDirDurable
