CONSTANTS
    Remotes = {r1, r2}
    NoAddr = NoAddr
    Apdus = {"read", "write", "masterReset"}
    NoApdu = "none"
    SeqMod = 3
    MaxRep = 1
    ConnTimeout = 2
    AckTimeout = 1
    NoTelegram = NoTelegram
    RestartDelay = 1
    MaxReceived = 3
    MaxGroup = 1
SPECIFICATION BcuSpec
CHECK_DEADLOCK FALSE
PROPERTIES
    PartnerIsTold
    LoopKeepsRunning
    RestartHappens
    WritesAreSaved
