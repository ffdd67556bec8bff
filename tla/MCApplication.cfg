\* The constants of ComObjects
CONSTANTS
    v1 = v1
    v2 = v2
    NumObjects = 3
    Values <- MCValues
    GroupAddrs = 2
    Assoc <- MCAssoc
    Comm <- All
    Trans <- All
    Read <- Readable
    Write <- All
    AppOps = {"write", "read", "update"}
\* The constants of Clock and Timeouts
CONSTANTS
    Wrap = 16
    Periods = {0, 1, 4, 7}
    MaxLate = 7
\* The constants of GroupRate
CONSTANTS
    Second = 4
    Limits = {2, 4}
    DefaultWait = 1
    MaxGap = 4
\* The constants of Delays
CONSTANTS
    Load = 4
    MinClocks = 1
    MaxMsec = 2
    Msecs = {0, 1, 3}
    Waits = {1, 4, 8}
    MaxSteal = 4
SPECIFICATION ApplicationSpec
INVARIANTS
    FlagsTellHistory
    LastsLongEnough
PROPERTIES
    GroupsAgree
    ExpiresInTime
    RateKept
    NothingIsForgotten
