CONSTANTS
    Contents = {c1, c2}
    NoTel = NoTel
    SendRetriesMax = 2
    SendBusyRetriesMax = 2
    CollisionRetryMax = 1
    TelegramSize = 2
    MaxHandBack = 1
SPECIFICATION BusSafety
SYMMETRY Symmetry
CHECK_DEADLOCK FALSE
INVARIANTS
    RepetitionsMarked
    AttemptsBounded
PROPERTIES
    SuccessMeansAcked
    BusKeepsService
