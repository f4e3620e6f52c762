SPECIFICATION FlightSpec
CONSTANTS
    FailurePeriod = 1
    RecoveryPeriod = 1
    ThrottleLowDelay = 0
    LandingDelay = 0
    AgeMax = 2
    Procedures = {"DROP_IT"}
    SwitchModes = {"STAGE2"}
    HoldPeriod = 0
    FailsafeThrottle = "low"
    UsedBoxes = {"BOXARM", "BOXFAILSAFE"}
INVARIANTS
    FlightTypeOK
    AutomaticDisarmLocks
PROPERTY
    ImplementsFailsafeSystem
CHECK_DEADLOCK TRUE
