CONSTANTS
    ReadSizes = {0, 3}
    WriteSizes = {0, 2}
    TaskNums = {2}
    RowsPerTaskNums = {1}
    Ctrl <- MCCtrl
    MaxTablets = 2
    ExitProc = exitProc
    BgProc = bgProc
    MaxPlanRows = 24
    MaxPlanTasks = 6
    MaxPlanRowsPerTask = 4
SPECIFICATION ExitSpec
INVARIANTS
    TypeOK
    ShardsPartitionRows
    ShardsReserved
    AnsweredQuiescent
    OkReplyComplete
    RefsBalanced
    WriteReplyTruthful
PROPERTIES
    ExitCompletes
