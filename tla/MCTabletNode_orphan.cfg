CONSTANTS
    ReadSizes = {0}
    WriteSizes = {0}
    TaskNums = {2}
    RowsPerTaskNums = {1}
    Ctrl <- MCCtrl
    MaxTablets = 2
    ExitProc = exitProc
    BgProc = bgProc
    MaxPlanRows = 0
    MaxPlanTasks = 0
    MaxPlanRowsPerTask = 1
SPECIFICATION Spec
INVARIANT
    LoadedStaysMapped
