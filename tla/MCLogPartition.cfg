SPECIFICATION LogSpec
CONSTANTS
    BufferSize = 4
    AutoFlushLen = 2
    FlashSize = 4
    PageSize = 2
    SectorSize = 2
    FreeBlockSize = 2
    FreeBlockTestSize = 1
    WholeChip = FALSE
    LogMode = "NORMAL"
    ModeRange = FALSE
    HeaderBudget = 2
    MaxBudget = 3
    HeaderLen = 2
    Fields = 1
    FieldLen = 1
    Lines = 0
    LineLen = 1
    LineName = 0
    FrameLens = {0, 2}
    EventLen = 1
    MaxSent = 6
    Requests = {}
    MidTransfer = FALSE
    PowerFails = FALSE
INVARIANTS
    HeaderNeverOverflows
PROPERTIES
    EraseEnds
CHECK_DEADLOCK TRUE
