SPECIFICATION Spec
CONSTANTS
    Broadcasters = {b1, b2}
    Viewers = {v1, v2}
    LIVE_BUF = 3
    BUFFER = 2
    MaxBytes = 2
    Stalling = {}
    Leaving = {}
    NoThread = NoThread
    NoByte = NoByte
INVARIANTS ViewersShareStream
CHECK_DEADLOCK FALSE
