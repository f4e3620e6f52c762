SPECIFICATION LaunchSpec
CONSTANTS
    CatapultDelay = 6
    LaunchLimit = 4
    RotationTime = 1
    FireTimes = {1, 4}
    LearnModes = {{}, {"CATAPULT"}, {"THROW"}, {"CATAPULT", "THROW"}}
    NumAct = 2
    StepTime = 1
    RampTime = 1
    Overlaps = {1}
    QueryDelays = {0, 6}
    Grace = 3
    QueryLimit = 6
INVARIANTS
    LaunchTypeOK
    LaunchWindow
    FlyingCraftIsNotLaunched
    LaunchAndQueryApart
PROPERTIES
    QueryFitsItsTime
    OneQueryPerLaunch
    LaunchEnds
