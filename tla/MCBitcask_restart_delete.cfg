\* A crash and reopen after puts and deletes, merging disabled.
CONSTANTS
    Keys = {k1, k2}
    Values = {v1, v2}
    Nil = Nil
    Readers = {r1}
    ValueLen = 2
    TombLen = 1
    MaxFileSize = 3
    BufCapacity = 4
    MergeEnable = FALSE
    TrigDeadBytes = 0
    TrigFrag <- FragHalf
    ThrDeadBytes = 0
    ThrFrag <- FragHalf
    ThrSmallFile = 0
    MaxOps = 3
    MaxMerges = 0
    MaxCrashes = 1
    UnlinkMayFail = FALSE
    CreateMayFail = FALSE
SPECIFICATION Spec
PROPERTY Refinement
