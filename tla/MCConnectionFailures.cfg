SPECIFICATION FairSpec

CONSTANTS
    MaxReqCount = 2
    MaxMessages = 2
    Upgrades = {}
    MaxParts = 3
    MaxIov = 2
    FileParts = {2}
    EmptyParts = {3}
    NotifyParts = {2, 3}
    AnswerPoints = {"handler", "notificator", "later"}
    Results = {"accepted", "rejected", "throws"}
    CloseAttrs = {FALSE, TRUE}
    UpgradeCloseAttrs = {TRUE}
    UpgradesToWs = FALSE
    Faults = {"peer"}

INVARIANTS
    WireInOrder
    NotifiedOnceTruthfully
    OperationsSound
    EachRequestHandledOnce

PROPERTIES
    EveryNotificatorCalled
    EventuallyClosed

CHECK_DEADLOCK FALSE
