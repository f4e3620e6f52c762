SPECIFICATION LockSpec
CONSTANTS
    FailurePeriod = 1
    RecoveryPeriod = 1
    ThrottleLowDelay = 0
    LandingDelay = 0
    AgeMax = 2
    Procedures = {"AUTO_LANDING"}
    SwitchModes = {"STAGE2"}
    HoldPeriod = 1
    FailsafeThrottle = "low"
    UsedBoxes = {"BOXARM", "BOXPARALYZE"}
INVARIANT
    AutomaticDisarmLocks
PROPERTY
    ParalyzedForGood
CHECK_DEADLOCK TRUE
