CONSTANTS
    Readers = {r1, r2}
    MaxReads = 2
    MaxDfsFaults = 1
    MaxSsdFaults = 0
    MaxRestarts = 0
    BlockSize = 2
    AppendSizes = {1}
    MaxWriteBytes = 0
SPECIFICATION Spec
INVARIANTS
    ValidBlockMatchesDfs
