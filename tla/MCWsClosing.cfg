SPECIFICATION FairSpec
CONSTANTS
    MaxFrames = 1
    MaxLen = 1
    BufPieces = 2
    MaxMessages = 1
    Kinds = {"data", "close", "tail"}
    Activations = {"immediate"}
    UserCalls = {"send", "close", "shutdown"}
    CallPoints = {"thread"}
    Throws = FALSE
    PeerFaults = TRUE
PROPERTIES
    ClosesInTheEnd
    EveryNotificatorCalled
CHECK_DEADLOCK FALSE
