\* The constants of UserEeprom
CONSTANTS
    c1 = c1
    c2 = c2
    Contents <- MCContents
    Zero = Zero
    Mixed = Mixed
    Blank = Blank
    NumPages = 2
    Rows = 2
    RowsPerCall = 1
\* The constants of MemMapper
CONSTANTS
    one = one
    VirtPages = 3
    RegionPages = 2
    Offsets = {0, 1}
    Values <- MCValues
    ZeroByte = ZeroByte
    BlankByte = BlankByte
    Unmapped = Unmapped
    AutoAddPage = TRUE
    CheckedWrites = TRUE
    CleanRanges = TRUE
\* The constants of MemoryAccess
CONSTANTS
    LastAddress = 7
    Mapped = {2, 5, 6}
    Eeprom = {3, 4}
    RamStart = 0
    RamSize = 2
    StatusOffset = 1
    MaxCount = 3
    Value = {0, 1}
\* The constants of TableAlloc
CONSTANTS
    NTables = 3
    First = 1
    Top = 8
    Sizes = {2}
    Partial = TRUE
    Modes = {FALSE}
\* The constants of Download
CONSTANTS
    Objects = {"ADDR_TABLE", "APPLICATION"}
    Addresses = {0, 1, 65535}
    MASK0701 = TRUE
    StaticTab = "other"
SPECIFICATION StorageSpec
CHECK_DEADLOCK FALSE
INVARIANTS
    OldOrNew
    ReadsBack
    MemoryServicesAgree
    TablesDisjoint
    LoadedIsWhole
PROPERTIES
    SurvivesPowerFailure
    RestartsKeepDevice
