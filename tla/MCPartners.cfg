\* The constants of Connection
CONSTANTS
    Client = r1
    Remotes <- MCRemotes
    NoAddr = NoAddr
    MaxRequests = 7
    Apdus <- MCApdus
    NoApdu = 0
    SeqMod = 3
    MaxRep = 1
    ConnTimeout = 2
    AckTimeout = 1
    Wanted = 2
    Window = 1
    Prompt = TRUE
    MaxFaults = 2
    MaxRestarts = 1
    MaxCrashes = 1
\* The constants of BusLink
CONSTANTS
    c1 = c1
    c2 = c2
    o1 = o1
    NoTel = NoTel
    Contents = {c1, c2}
    OtherContents = {o1}
    SendRetriesMax = 2
    MaxHandBack = 1
    MaxBetween = 3
    MayEqualLast = FALSE
SPECIFICATION PartnersSpec
CHECK_DEADLOCK FALSE
INVARIANTS
    ExactlyOnce
    RequestsAreAnswered
    SentIsTaken
    DuplicatesNeedOthers
PROPERTIES
    EveryClientIsServed
