SPECIFICATION Spec

CONSTANTS
    MaxReqCount = 2
    MaxMessages = 4
    Upgrades = {4}
    MaxParts = 2
    MaxIov = 1
    FileParts = {}
    EmptyParts = {}
    NotifyParts = {2}
    AnswerPoints = {"later"}
    Results = {"accepted"}
    CloseAttrs = {FALSE, TRUE}
    UpgradeCloseAttrs = {TRUE}
    UpgradesToWs = TRUE
    Faults = {"peer"}

INVARIANTS
    ReadNotForgotten
    NoSpuriousClose
    UpgradeInTurn

CHECK_DEADLOCK FALSE
