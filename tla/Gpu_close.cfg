SPECIFICATION Spec
CONSTANTS
    Threads = {t1, t2}
    Surfaces = {k1, k2}
    MaxFd = 2
    MaxBatch = 2
    NoThread = NoThread
    NoSurface = NoSurface
    Drm = Drm
INVARIANT ClosesOwnFd
CHECK_DEADLOCK FALSE
