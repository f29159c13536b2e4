SPECIFICATION Spec
CONSTANTS
    Threads = {t1, t2}
    Surfaces = {k1, k2}
    MaxFd = 3
    MaxBatch = 2
    NoThread = NoThread
    NoSurface = NoSurface
    Drm = Drm
INVARIANTS TypeOK NoDeadlock OneContext MipHasMemory NothingLost MemoryInLiveContext TerminateReleasesAll
PROPERTIES CallBounded CallsReturn
CHECK_DEADLOCK FALSE
