\* Lock errors and frames lost in a reconfigure; nothing but the calls is fair.
SPECIFICATION LiveSpec
CONSTANTS
    Surfaces = {s1}
    Ids = {a, b, c, d}
    PoolSize = 2
    LockMayFail = TRUE
    ReconfigureOrphans = TRUE
    NoFrame = NoFrame
    NoSurface = NoSurface
INVARIANTS ExactlyOnce MappedUntilUnlocked OwedBuffersPending
PROPERTIES ImplementsPort ImplementsCalls OnlyFailedLockLeaks CallBounded CallsReturn
