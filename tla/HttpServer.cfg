SPECIFICATION FairSpec
CONSTANTS
    Clients = {c1, c2}
    Asks <- ByClient
    Uris <- OneUri
    Functions = {f, g}
    Residue <- Behind
    Backlog = 1
    MaxFields = 2
    NoClient = NoClient
    NoMessage = NoMessage
    NoAnswer = NoAnswer
    NotFound = NotFound
    Uninitialised = Uninitialised
INVARIANTS TypeOK IntendedUnderstood
PROPERTIES ImplementsService Answered
CHECK_DEADLOCK FALSE
