CONSTANTS
    Threads = {t1, t2}
    Files = {f1, f2}
    FidBatchNum = 2
    MaxFid = 5
    MaxRestarts = 0
    NoThread = NoThread
    BadFid = BadFid
    Sids = {s1}
    Blocks = {b1}
SPECIFICATION Spec

PROPERTIES OpsComplete
