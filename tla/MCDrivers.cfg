\* The constants of Serial
CONSTANTS
    b1 = b1
    b2 = b2
    Byte <- MCBytes
    NoByte = NoByte
    BufferSize = 2
    FifoSize = 1
    MaxInWindow = 1
    AppOps = {"write", "read", "flush", "end"}
\* The constants of Spi
CONSTANTS
    SspFifoSize = 8
    MaxWords = 20
    MinAsynchron = 9
    SspPort = 0
    MaxShifts = 1
    Prompt = TRUE
\* The constants of I2cMaster
CONSTANTS
    MaxTx = 3
    MaxRx = 3
    Faults = {"NAK", "ARBLOST", "BUSERR"}
    MaxLost = 2
\* The constants of OneWire
CONSTANTS
    Bits = 4
    FamilyBits = 2
    MaxChanges = 2
    Sensors <- MCSensors
SPECIFICATION DriversSpec
INVARIANTS
    DoneMeansHeard
PROPERTIES
    PortService
    FindsDevices
    EveryTransferReturns
