CONSTANTS
    Readers = {r1, r2}
    MaxReads = 2
    MaxDfsFaults = 1
    MaxSsdFaults = 1
    MaxRestarts = 1
    BlockSize = 2
    AppendSizes = {1, 2, 3}
    MaxWriteBytes = 3
SPECIFICATION Spec
INVARIANTS
    TypeOK
    BufferOwnedByHolders
    ExclusiveBlockIO
PROPERTIES
    ReadCompletes
