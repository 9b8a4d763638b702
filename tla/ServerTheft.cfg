SPECIFICATION Spec
CONSTANTS
    Clients = {c1, c2}
    Threads = {t1, t2, t3}
    NFds = 3
    Backlog = 2
    Blocks = 2
    MaxPieces = 1
    MaxChunks = 1
    Asks <- Uploads
    Stalling = {}
    Leaving = {}
    Silent = {}
    NoClient = NoClient
INVARIANTS CompleteVideo
CHECK_DEADLOCK FALSE
