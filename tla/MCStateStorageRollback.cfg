SPECIFICATION StorageSpec
CONSTANTS
    NoValue = NoValue
    Threads = {t1}
    Accounts = {a1}
    Records = {blk}
    Values = {v1, v2}
    BatchMayFail = FALSE
    CacheSize = 1
    PendingBound = 2
PROPERTY
    RollbackRestoresReads
