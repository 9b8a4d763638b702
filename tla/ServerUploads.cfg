SPECIFICATION Spec
CONSTANTS
    Clients = {c1, c2, c3}
    Threads = {t1, t2, t3}
    NFds = 3
    Backlog = 2
    Blocks = 1
    MaxPieces = 1
    MaxChunks = 1
    Asks <- Uploads
    Stalling = {}
    Leaving = {}
    Silent = {c1, c2, c3}
    NoClient = NoClient
SYMMETRY StacksAndClients
INVARIANTS TypeOK NoLeak
CHECK_DEADLOCK FALSE
