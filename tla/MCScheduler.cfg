SPECIFICATION SchedulerSpec
CONSTANTS
    Queue <- MCQueue
    EventDriven = {"RX"}
    NotBlocked = {"SERIAL"}
    StaticPriority <- MCStaticPriority
    DesiredPeriod <- MCDesiredPeriod
    ExecTimes <- MCExecTimes
    GyroPeriod = 6
    GyroTimes = {1}
    CheckTimes = {1, 2}
    StartLoops = {2}
    CheckGuard = 2
    Ample = 3
    GuardMin = 0
    GuardMax = 1
    DeferCount = 4
    Relax <- MCRelax
    MaxAge = 8
    ExpediteTenths = 5
INVARIANTS
    SchedulerTypeOK
PROPERTIES
    GyroIsOnTime
    NoTaskStarves
