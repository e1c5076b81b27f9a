SPECIFICATION Spec

CONSTANTS
    MaxReqCount = 1
    MaxMessages = 2
    Upgrades = {}
    MaxParts = 1
    MaxIov = 1
    FileParts = {}
    EmptyParts = {}
    NotifyParts = {}
    AnswerPoints = {"handler", "later"}
    Results = {"accepted"}
    CloseAttrs = {FALSE, TRUE}
    UpgradeCloseAttrs = {TRUE}
    UpgradesToWs = FALSE
    Faults = {}

INVARIANTS
    InitWriteOnlyIfNotClosed

CHECK_DEADLOCK FALSE
