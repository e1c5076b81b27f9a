SPECIFICATION Spec

CONSTANTS
    MaxReqCount = 1
    MaxMessages = 3
    Upgrades = {}
    MaxParts = 1
    MaxIov = 1
    FileParts = {}
    EmptyParts = {}
    NotifyParts = {}
    AnswerPoints = {"handler"}
    Results = {"accepted"}
    CloseAttrs = {FALSE}
    UpgradeCloseAttrs = {TRUE}
    UpgradesToWs = FALSE
    Faults = {}

INVARIANTS
    NoSpuriousClose

CHECK_DEADLOCK FALSE
