\* The constants of Bootloader and Updater
CONSTANTS
    PageCells = 2
    SectorPages = 2
    Sectors = 3
    BootCells = 3
    BufferCells = 6
    BlockPages <- MCBlocks
    Images <- MCImages
    Old = "old"
    New = "new"
    BlockCells = 4
    Retries = 2
    MaxLost = 2
    MaxFails = 1
    MaxCommands = 1
\* The constants of FlashDiff
CONSTANTS
    PageSize = 2
    WindowPages = 1
    MinPattern = 2
    MaxCopy = 4
    Bytes = {0, 1}
    ErasedByte = 1
    RomPages = 3
    OldLengths = {5, 6}
    NewLengths = {5}
    MaxFaults = 2
SPECIFICATION UpdateSpec
CHECK_DEADLOCK FALSE
INVARIANTS
    BootloaderKept
    StartsOnlyWhole
    SuccessMeansNew
PROPERTIES
    EveryUpdateEnds
    CommandsKeepToRange
