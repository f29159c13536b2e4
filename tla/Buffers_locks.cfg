\* Two threads, two buffers, one surface with CUDA memory and one without.
SPECIFICATION Spec
CONSTANTS
    Threads = {t1, t2}
    Buffers = {b1, b2}
    Surfaces = {gpu, stub}
    Resident = {gpu}
    NoThread = NoThread
    NoBuffer = NoBuffer
    NoSurface = NoSurface
INVARIANTS TypeOK NeverWaitsHoldingPools UnlocksHeldLock
PROPERTY CallsReturn
