CONSTANTS
    Contents = {c1}
    NoTel = NoTel
    SendRetriesMax = 1
    SendBusyRetriesMax = 1
    CollisionRetryMax = 1
    TelegramSize = 2
    MaxHandBack = 1
SPECIFICATION BusSpec
VIEW WithoutHistory
CHECK_DEADLOCK FALSE
PROPERTIES
    BusImplementsService
    PauseSucceeds
