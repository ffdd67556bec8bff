CONSTANTS
    Remotes = {r1}
    NoAddr = NoAddr
    Apdus = {"masterReset"}
    NoApdu = "none"
    SeqMod = 3
    MaxRep = 1
    ConnTimeout = 4
    AckTimeout = 2
    NoTelegram = NoTelegram
    RestartDelay = 1
    MaxReceived = 3
    MaxGroup = 1
SPECIFICATION BcuSafety
CHECK_DEADLOCK FALSE
PROPERTIES
    RestartAnswered
