\* Puts, deletes, a get, one merge, fs::remove_file and log::create failures, and a crash at any point followed by reopen.
CONSTANTS
    Keys = {k1, k2}
    Values = {v1}
    Nil = Nil
    Readers = {r1}
    ValueLen = 2
    TombLen = 1
    MaxFileSize = 3
    BufCapacity = 4
    MergeEnable = TRUE
    TrigDeadBytes = 0
    TrigFrag <- FragHalf
    ThrDeadBytes = 1
    ThrFrag <- FragHalf
    ThrSmallFile = 3
    MaxOps = 4
    MaxMerges = 1
    MaxCrashes = 1
    UnlinkMayFail = TRUE
    CreateMayFail = TRUE
SPECIFICATION Spec
INVARIANT StatsNoUnderflow
SYMMETRY Symmetry
