SPECIFICATION SystemSpec
CONSTANTS
    FailurePeriod = 2
    RecoveryPeriod = 1
    ThrottleLowDelay = 1
    LandingDelay = 1
    AgeMax = 3
    Procedures = {"AUTO_LANDING", "DROP_IT", "GPS_RESCUE"}
    SwitchModes = {"STAGE1", "KILL", "STAGE2"}
INVARIANT
    ActiveOnlyInStage2
CHECK_DEADLOCK TRUE
