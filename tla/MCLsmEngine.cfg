CONSTANTS
    Writers = {w1}
    Readers = {}
    Keys = {k1}
    Tasks = {t1, t2}
    Fg = fg
    MaxSeq = 2
    MaxForced = 1
    MaxFaults = 1
    MemCap = 1
    L0CompactTrigger = 1
    L0SlowdownTrigger = 1
    L0StopTrigger = 2
    DumpMemOnShutdown = TRUE
    ParanoidChecks = FALSE
    DropBaseLevelDel = TRUE
SPECIFICATION Spec
INVARIANTS
    TypeOK
    RecoverableFromManifest
    LiveFilesOnDfs
    ShutdownDumpsEverything
PROPERTIES
    WritesComplete
    ShutdownCompletes
