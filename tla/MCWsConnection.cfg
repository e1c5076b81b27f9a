SPECIFICATION FairSpec
CONSTANTS
    MaxFrames = 2
    MaxLen = 2
    BufPieces = 2
    MaxMessages = 1
    Kinds = {"data", "close", "header", "utf8", "tail", "code"}
    Activations = {"immediate", "delayed"}
    UserCalls = {"send", "close", "shutdown", "kill"}
    CallPoints = {"handler", "notificator", "thread"}
    Throws = TRUE
    PeerFaults = TRUE

INVARIANTS
    MessagesInOrder
    UserLearnsOfClose
    FramesWrittenOnce
    AwaitedCloseFrameIsRead

CHECK_DEADLOCK FALSE
