SPECIFICATION LogSpec
CONSTANTS
    BufferSize = 4
    AutoFlushLen = 2
    FlashSize = 9
    PageSize = 3
    SectorSize = 3
    FreeBlockSize = 3
    FreeBlockTestSize = 2
    WholeChip = TRUE
    LogMode = "MOTOR_TEST"
    ModeRange = TRUE
    HeaderBudget = 2
    MaxBudget = 4
    HeaderLen = 2
    Fields = 1
    FieldLen = 1
    Lines = 1
    LineLen = 2
    LineName = 1
    FrameLens = {0, 3}
    EventLen = 1
    MaxSent = 9
    Requests = {"READ", "ERASE"}
    MidTransfer = FALSE
    PowerFails = TRUE
INVARIANTS
    BlackboxTypeOK
    LogInOrder
    HeaderNeverOverflows
    NothingGarbled
PROPERTIES
    HeadersAreComplete
    RestartFindsFreeSpace
    HeaderGetsOut
CHECK_DEADLOCK TRUE
