SPECIFICATION PilotSpec
CONSTANTS
    FailurePeriod = 1
    RecoveryPeriod = 1
    ThrottleLowDelay = 0
    LandingDelay = 0
    AgeMax = 2
    Procedures = {"AUTO_LANDING", "DROP_IT"}
    SwitchModes = {"STAGE2"}
    HoldPeriod = 1
    FailsafeThrottle = "low"
    UsedBoxes = {"BOXARM"}
PROPERTY
    DisarmSwitchWorks
CHECK_DEADLOCK TRUE
