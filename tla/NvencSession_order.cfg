SPECIFICATION HistorySpec
CONSTANTS
    Surfaces = {s1}
    Ids = {a,b,c,d}
    PoolSize = 2
    LockMayFail = FALSE
    ReconfigureOrphans = FALSE
    NoFrame = NoFrame
    NoSurface = NoSurface
PROPERTY OutputInSubmissionOrder
