CONSTANTS
    Contents = {c1}
    NoTel = NoTel
    SendRetriesMax = 2
    SendBusyRetriesMax = 2
    CollisionRetryMax = 1
    TelegramSize = 2
    MaxHandBack = 0
SPECIFICATION BusSafety
CHECK_DEADLOCK FALSE
INVARIANTS
    StaysPausable
