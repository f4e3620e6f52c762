SPECIFICATION RescueSpec
CONSTANTS
    SanityChecks = "FS_ONLY"
    AllowArmingWithoutFix = FALSE
    UseMag = TRUE
    FlyawayLimit = 4
    StuckLimit = 3
    LowSatsLimit = 2
    NothingLimit = 4
INVARIANTS
    RescueTypeOK
    FailureEndsInTime
    FlyawayIsNoticed
PROPERTIES
    FailedRescueStaysFailed
    StuckRescueEnds
