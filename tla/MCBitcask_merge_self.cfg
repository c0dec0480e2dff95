\* Two merges with fs::remove_file failures: the second merge's own output id has statistics left by the first.
CONSTANTS
    Keys = {k1, k2}
    Values = {v1}
    Nil = Nil
    Readers = {r1}
    ValueLen = 2
    TombLen = 1
    MaxFileSize = 3
    BufCapacity = 4
    MergeEnable = TRUE
    TrigDeadBytes = 0
    TrigFrag <- FragHalf
    ThrDeadBytes = 1
    ThrFrag <- FragHalf
    ThrSmallFile = 3
    MaxOps = 5
    MaxMerges = 2
    MaxCrashes = 0
    UnlinkMayFail = TRUE
    CreateMayFail = FALSE
SPECIFICATION Spec
INVARIANT StatsNoUnderflow
