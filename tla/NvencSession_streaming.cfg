\* A streaming client on working hardware: three slots, so that the pool wraps.
SPECIFICATION StreamingSpec
CONSTANTS
    Surfaces = {s1}
    Ids = {a, b, c, d}
    PoolSize = 3
    LockMayFail = FALSE
    ReconfigureOrphans = FALSE
    NoFrame = NoFrame
    NoSurface = NoSurface
INVARIANTS TypeOK BacklogBounded CleanTeardown
PROPERTY FramesComeOut
