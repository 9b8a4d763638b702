SPECIFICATION FairSpec
CONSTANTS
    Clients = {c1, c2}
    Threads = {t1, t2, t3}
    NFds = 2
    Backlog = 2
    Blocks = 2
    MaxPieces = 1
    MaxChunks = 1
    Asks <- NoUploads
    Stalling = {c1}
    Leaving = {c1}
    Silent = {c1}
    NoClient = NoClient
INVARIANTS OwnDescriptors
PROPERTIES ImplementsService Answered
CHECK_DEADLOCK FALSE
