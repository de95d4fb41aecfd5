CONSTANTS
    Writers = {w1}
    Readers = {r1}
    Keys = {k1}
    Tasks = {t1}
    Fg = fg
    MaxSeq = 2
    MaxForced = 1
    MaxFaults = 1
    MemCap = 1
    L0CompactTrigger = 2
    L0SlowdownTrigger = 1
    L0StopTrigger = 2
    DumpMemOnShutdown = TRUE
    ParanoidChecks = FALSE
    DropBaseLevelDel = TRUE
SPECIFICATION Spec
INVARIANTS
    GetSeesSnapshot
    LiveFilesOnDfs
PROPERTIES
    KvRefinement
