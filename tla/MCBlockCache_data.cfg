CONSTANTS
    Readers = {r1, r2}
    MaxReads = 2
    MaxDfsFaults = 0
    MaxSsdFaults = 0
    MaxRestarts = 1
    BlockSize = 2
    AppendSizes = {1, 2, 3}
    MaxWriteBytes = 5
SPECIFICATION Spec
INVARIANTS
    ValidBlockMatchesDfs
    ReadReturnsDfsBytes
    WriteBlocksExact
    CloseDrainsBuffer
