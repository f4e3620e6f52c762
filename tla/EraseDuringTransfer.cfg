SPECIFICATION LogSpec
CONSTANTS
    BufferSize = 4
    AutoFlushLen = 2
    FlashSize = 9
    PageSize = 3
    SectorSize = 3
    FreeBlockSize = 3
    FreeBlockTestSize = 2
    WholeChip = TRUE
    LogMode = "ALWAYS_ON"
    ModeRange = FALSE
    HeaderBudget = 2
    MaxBudget = 4
    HeaderLen = 2
    Fields = 1
    FieldLen = 1
    Lines = 1
    LineLen = 2
    LineName = 1
    FrameLens = {0, 2}
    EventLen = 1
    MaxSent = 8
    Requests = {"ERASE"}
    MidTransfer = TRUE
    PowerFails = FALSE
PROPERTIES
    HeaderGetsOut
CHECK_DEADLOCK TRUE
