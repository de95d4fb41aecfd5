CONSTANTS
    Readers = {r1, r2}
    MaxReads = 2
    MaxDfsFaults = 0
    MaxSsdFaults = 1
    MaxRestarts = 0
    BlockSize = 2
    AppendSizes = {1}
    MaxWriteBytes = 0
SPECIFICATION Spec
INVARIANTS
    ReadReturnsDfsBytes
