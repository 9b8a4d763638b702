SPECIFICATION Spec
CONSTANTS
    Broadcasters = {b1, b2}
    Viewers = {v1, v2}
    LIVE_BUF = 3
    BUFFER = 2
    MaxBytes = 2
    Stalling = {v1, v2}
    Leaving = {v1, v2}
    NoThread = NoThread
    NoByte = NoByte
SYMMETRY Interchangeable
INVARIANTS TypeOK MutualExclusion BufferBound ChunkHonest DeliveredOnceInOrder
PROPERTIES StableSnapshot ImplementsRelay
CHECK_DEADLOCK FALSE
