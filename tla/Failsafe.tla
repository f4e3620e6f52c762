------------------------------ MODULE Failsafe ------------------------------
(***************************************************************************)
(* flight/failsafe.c: the two-stage reaction to the loss of the RC link.   *)
(*                                                                         *)
(* Stage 1 is the guard period after the last valid data.  When it is over *)
(* rxLinkState goes DOWN and failsafeUpdateState, which the scheduler runs *)
(* every 10 ms, walks an armed craft through stage 2.                      *)
(*                                                                         *)
(* The do-while loop of failsafeUpdateState is modelled one iteration per  *)
(* action.  reprocessState is its loop condition; while it holds nothing   *)
(* else in the firmware runs, because the loop never yields.  armed and    *)
(* receivingRxData are read once, before the loop: loopArmed and           *)
(* loopReceiving are those copies.                                         *)
(*                                                                         *)
(* Time.  The code compares millis() with stamps.  Here every stamp is the *)
(* time since it was taken (an age, saturating at AgeMax) and every        *)
(* deadline the time left (-1 once millis() is past it).                   *)
(***************************************************************************)
EXTENDS RuntimeConfig

CONSTANTS
    FailurePeriod,     \* rxDataFailurePeriod: the length of stage 1
    RecoveryPeriod,    \* rxDataRecoveryPeriod: valid data before the link is up
    ThrottleLowDelay,  \* failsafe_throttle_low_delay
    LandingDelay,      \* failsafe_off_delay: how long LANDING may take
    AgeMax,            \* ages saturate here (a bound of the model)
    Procedures,        \* the values of failsafe_procedure considered
    SwitchModes        \* the values of failsafe_switch_mode considered

ASSUME PeriodsAssumption ==
    /\ FailurePeriod \in Nat \ {0}
    /\ RecoveryPeriod \in Nat \ {0}
    /\ ThrottleLowDelay \in Nat
    /\ LandingDelay \in Nat
    /\ AgeMax \in Nat
    /\ AgeMax > FailurePeriod
    /\ AgeMax > RecoveryPeriod

ASSUME SettingsAssumption ==
    /\ Procedures \subseteq {"AUTO_LANDING", "DROP_IT", "GPS_RESCUE"}
    /\ SwitchModes \subseteq {"STAGE1", "KILL", "STAGE2"}

VARIABLES
    phase,                   \* failsafeState.phase
    active,                  \* failsafeState.active
    monitoring,              \* failsafeState.monitoring
    rxLinkState,             \* failsafeState.rxLinkState
    boxFailsafeSwitchWasOn,  \* BOXFAILSAFE as it was when the failsafe began
    validAge,                \* millis() - validRxDataReceivedAt
    failedAge,               \* millis() - validRxDataFailedAt, or NotStamped
    throttleLowLeft,         \* throttleLowPeriod - millis()
    landingLeft,             \* landingShouldBeFinishedAt - millis()
    rxPeriodLeft,            \* receivingRxDataPeriod - millis()
    rxPeriodPreset,          \* receivingRxDataPeriodPreset
    procedure,               \* failsafeConfig()->failsafe_procedure
    switchMode,              \* failsafeConfig()->failsafe_switch_mode
    reprocessState,          \* the loop of failsafeUpdateState is running
    loopArmed,               \* its copy of ARMING_FLAG(ARMED)
    loopReceiving,           \* its copy of receivingRxData
    tasksDone                \* the periodic tasks that ran since the last tick

clockVars  == <<validAge, failedAge, throttleLowLeft, landingLeft, rxPeriodLeft>>
configVars == <<procedure, switchMode>>
loopVars   == <<reprocessState, loopArmed, loopReceiving>>
failsafeVars ==
    <<phase, active, monitoring, rxLinkState, boxFailsafeSwitchWasOn,
      clockVars, rxPeriodPreset, configVars, loopVars>>

Phases == { "IDLE", "RX_LOSS_DETECTED", "LANDING", "LANDED",
            "RX_LOSS_MONITORING", "RX_LOSS_RECOVERED", "GPS_RESCUE" }

NotStamped == -1     \* validRxDataFailedAt == 0
Expired    == -1     \* millis() is past the deadline

PhaseTypeOK ==
    /\ phase \in Phases
    /\ rxLinkState \in {"UP", "DOWN"}
    /\ procedure \in Procedures
    /\ switchMode \in SwitchModes

SwitchesTypeOK ==
    /\ active \in BOOLEAN
    /\ monitoring \in BOOLEAN
    /\ boxFailsafeSwitchWasOn \in BOOLEAN
    /\ reprocessState \in BOOLEAN
    /\ loopArmed \in BOOLEAN
    /\ loopReceiving \in BOOLEAN

ClocksTypeOK ==
    /\ validAge \in 0..AgeMax
    /\ failedAge \in NotStamped..AgeMax
    /\ throttleLowLeft \in Expired..ThrottleLowDelay
    /\ landingLeft \in Expired..LandingDelay
    /\ rxPeriodLeft \in Expired..RecoveryPeriod
    /\ rxPeriodPreset \in {0, RecoveryPeriod}

FailsafeTypeOK == PhaseTypeOK /\ SwitchesTypeOK /\ ClocksTypeOK

(* failsafeInit and failsafeReset as init.c runs them, on zeroed memory. *)
FailsafeInit ==
    /\ phase = "IDLE"
    /\ active = FALSE
    /\ monitoring = FALSE
    /\ rxLinkState = "DOWN"
    /\ boxFailsafeSwitchWasOn = FALSE
    /\ validAge = 0
    /\ failedAge = NotStamped
    /\ throttleLowLeft = Expired
    /\ landingLeft = Expired
    /\ rxPeriodLeft = Expired
    /\ rxPeriodPreset = RecoveryPeriod
    /\ procedure \in Procedures
    /\ switchMode \in SwitchModes
    /\ reprocessState = FALSE
    /\ loopArmed = FALSE
    /\ loopReceiving = FALSE

-----------------------------------------------------------------------------
(* The passing of one unit of time, between whose ticks the scheduler runs  *)
(* every periodic task.                                                     *)

PeriodicTasks == {"RX", "FAILSAFE"}

Older(age) == IF age < AgeMax THEN age + 1 ELSE AgeMax
(* Mutant of Shorter: a deadline that wraps instead of staying past. *)
ShorterNoFloor(left) == left - 1

Shorter(left) == IF left > Expired THEN left - 1 ELSE Expired

ClockTick ==
    /\ validAge' = Older(validAge)
    /\ failedAge' = IF failedAge = NotStamped THEN NotStamped
                                              ELSE Older(failedAge)
    /\ throttleLowLeft' = Shorter(throttleLowLeft)
    /\ landingLeft' = Shorter(landingLeft)
    /\ rxPeriodLeft' = Shorter(rxPeriodLeft)

-----------------------------------------------------------------------------
(* The calls rx.c and config.c make. *)

FailsafeIsReceivingRxData == rxLinkState = "UP"

(* processRx starts the monitoring at the first review of the data after    *)
(* the power-on delay.                                                      *)
FailsafeStartMonitoring == monitoring' = TRUE

(* Both reports leave monitoring to processRx, which makes them.            *)
FailsafeOnValidDataReceived ==
    LET firstEver == failedAge = NotStamped
        goodFor   == IF firstEver THEN 0 ELSE failedAge
        linkIsUp  == goodFor > rxPeriodPreset
    IN  /\ validAge' = 0
        /\ failedAge' = goodFor
        /\ rxLinkState' = IF linkIsUp THEN "UP" ELSE rxLinkState
        /\ armingDisableFlags' =
               ((armingDisableFlags \ {"RX_FAILSAFE"})
                   \cup (IF firstEver THEN {"BST"} ELSE {}))
                   \ (IF linkIsUp THEN {"BST"} ELSE {})
        /\ UNCHANGED <<phase, active, boxFailsafeSwitchWasOn,
                       throttleLowLeft, landingLeft, rxPeriodLeft,
                       rxPeriodPreset, configVars, loopVars>>

FailsafeOnValidDataFailed ==
    /\ armingDisableFlags' = armingDisableFlags \cup {"RX_FAILSAFE"}
    /\ failedAge' = 0
    /\ rxLinkState' = IF validAge > FailurePeriod THEN "DOWN" ELSE rxLinkState
    /\ UNCHANGED <<phase, active, boxFailsafeSwitchWasOn, validAge, throttleLowLeft,
                   landingLeft, rxPeriodLeft,
                   rxPeriodPreset, configVars, loopVars>>

(* writeEEPROM: suspendRxSignal ... resumeRxSignal around the flash write.  *)
(* The resume overwrites the stamp that the suspend moved forward, and      *)
(* declares the link up whatever it was.                                    *)
FailsafeOnConfigWrite ==
    /\ validAge' = 0
    /\ rxLinkState' = "UP"
    /\ UNCHANGED <<phase, active, monitoring, boxFailsafeSwitchWasOn, failedAge,
                   throttleLowLeft, landingLeft, rxPeriodLeft,
                   rxPeriodPreset, configVars, loopVars>>

(* readEEPROM: activateConfig runs failsafeReset between the suspend and    *)
(* the resume.  failsafeReset leaves active, monitoring, the arming flags   *)
(* and the flight modes as they are.                                        *)
FailsafeOnConfigReload ==
    /\ phase' = "IDLE"
    /\ rxLinkState' = "UP"
    /\ boxFailsafeSwitchWasOn' = FALSE
    /\ validAge' = 0
    /\ failedAge' = NotStamped
    /\ throttleLowLeft' = Expired
    /\ landingLeft' = Expired
    /\ rxPeriodLeft' = Expired
    /\ rxPeriodPreset' = RecoveryPeriod
    /\ UNCHANGED <<active, monitoring, configVars, loopVars>>

-----------------------------------------------------------------------------
(* What the scheduler runs every 10 ms:                                     *)
(* failsafeCheckDataFailurePeriod(); failsafeUpdateState().                 *)

SwitchForcesStage2 == IsRcModeActive("BOXFAILSAFE") /\ switchMode = "STAGE2"

LinkStateAfterCheck == IF validAge > FailurePeriod THEN "DOWN" ELSE rxLinkState

FailsafeCheckDataFailurePeriod ==
    /\ rxLinkState' = LinkStateAfterCheck
    /\ armingDisableFlags' = IF validAge > FailurePeriod
                                 THEN armingDisableFlags \cup {"RX_FAILSAFE"}
                                 ELSE armingDisableFlags

(* The head of failsafeUpdateState, up to the loop. *)
FailsafeUpdateState ==
    /\ ~reprocessState
    /\ FailsafeCheckDataFailurePeriod
    /\ reprocessState' = monitoring
    /\ loopArmed' = (monitoring /\ armed)
    /\ loopReceiving' =
          (monitoring /\ LinkStateAfterCheck = "UP" /\ ~SwitchForcesStage2)
    /\ UNCHANGED <<phase, active, monitoring, boxFailsafeSwitchWasOn, clockVars,
                   rxPeriodPreset, configVars,
                   armed, flightModeFlags, rcModes>>

(* The end of one iteration; the copies are dead once the loop is left. *)
EndIteration(again) ==
    /\ reprocessState' = again
    /\ loopArmed' = (again /\ loopArmed)
    /\ loopReceiving' = (again /\ loopReceiving)
    /\ UNCHANGED <<monitoring, rxLinkState, validAge, failedAge, configVars,
                   rcModes>>

IterationAt(p) == reprocessState /\ phase = p

KillSwitchOn == IsRcModeActive("BOXFAILSAFE") /\ switchMode = "KILL"

TrackThrottle(throttleLow) ==
    IF throttleLow THEN throttleLowLeft ELSE ThrottleLowDelay

(* case FAILSAFE_IDLE, not armed. *)
IdleNotArmed ==
    /\ IterationAt("IDLE")
    /\ ~loopArmed
    /\ boxFailsafeSwitchWasOn' = IsRcModeActive("BOXFAILSAFE")
    /\ flightModeFlags' = Switched(flightModeFlags, "FAILSAFE_MODE",
                                   IsRcModeActive("BOXFAILSAFE"))
    /\ throttleLowLeft' = Expired
    /\ EndIteration(FALSE)
    /\ UNCHANGED <<phase, active, landingLeft, rxPeriodLeft, rxPeriodPreset,
                   armed, armingDisableFlags>>

(* case FAILSAFE_IDLE, armed and nothing wrong. *)
IdleFlying(throttleLow) ==
    /\ IterationAt("IDLE")
    /\ loopArmed
    /\ ~KillSwitchOn
    /\ loopReceiving
    /\ boxFailsafeSwitchWasOn' = IsRcModeActive("BOXFAILSAFE")
    /\ throttleLowLeft' = TrackThrottle(throttleLow)
    /\ EndIteration(FALSE)
    /\ UNCHANGED <<phase, active, landingLeft, rxPeriodLeft, rxPeriodPreset,
                   armed, armingDisableFlags, flightModeFlags>>

(* "JustDisarm": the throttle was low for long enough before the loss. *)
JustDisarm(throttleLow) ==
    /\ ~loopReceiving
    /\ TrackThrottle(throttleLow) = Expired
    /\ procedure # "GPS_RESCUE"

(* case FAILSAFE_IDLE, armed: the kill switch, or a loss at low throttle. *)
IdleDisarms(throttleLow) ==
    /\ IterationAt("IDLE")
    /\ loopArmed
    /\ KillSwitchOn \/ JustDisarm(throttleLow)
    /\ boxFailsafeSwitchWasOn' = IsRcModeActive("BOXFAILSAFE")
    /\ throttleLowLeft' = TrackThrottle(throttleLow)
    /\ active' = TRUE
    /\ flightModeFlags' = flightModeFlags \cup {"FAILSAFE_MODE"}
    /\ phase' = "LANDED"
    /\ rxPeriodPreset' = RecoveryPeriod
    /\ EndIteration(TRUE)
    /\ UNCHANGED <<landingLeft, rxPeriodLeft, armed, armingDisableFlags>>

(* case FAILSAFE_IDLE, armed: the loss starts the configured procedure. *)
IdleLosesLink(throttleLow) ==
    /\ IterationAt("IDLE")
    /\ loopArmed
    /\ ~KillSwitchOn
    /\ ~loopReceiving
    /\ ~JustDisarm(throttleLow)
    /\ boxFailsafeSwitchWasOn' = IsRcModeActive("BOXFAILSAFE")
    /\ throttleLowLeft' = TrackThrottle(throttleLow)
    /\ phase' = "RX_LOSS_DETECTED"
    /\ EndIteration(TRUE)
    /\ UNCHANGED <<active, landingLeft, rxPeriodLeft, rxPeriodPreset,
                   armed, armingDisableFlags, flightModeFlags>>

ProcedurePhase ==
    CASE procedure = "AUTO_LANDING" -> "LANDING"
      [] procedure = "DROP_IT"      -> "LANDED"
      [] procedure = "GPS_RESCUE"   -> "GPS_RESCUE"

(* case FAILSAFE_RX_LOSS_DETECTED, the link still lost. *)
StartProcedure ==
    /\ IterationAt("RX_LOSS_DETECTED")
    /\ ~loopReceiving
    /\ active' = TRUE
    /\ phase' = ProcedurePhase
    /\ flightModeFlags' = flightModeFlags \cup
           (IF procedure = "GPS_RESCUE" THEN {"GPS_RESCUE_MODE"}
                                        ELSE {"FAILSAFE_MODE"})
    /\ landingLeft' = IF procedure = "AUTO_LANDING" THEN LandingDelay
                                                    ELSE landingLeft
    /\ rxPeriodPreset' = IF boxFailsafeSwitchWasOn THEN 0 ELSE RecoveryPeriod
    /\ EndIteration(TRUE)
    /\ UNCHANGED <<boxFailsafeSwitchWasOn, throttleLowLeft, rxPeriodLeft,
                   armed, armingDisableFlags>>

(* Mutant of MoveTo: reprocessState = true was forgotten. *)
MoveToNextCall(p) ==
    /\ phase' = p
    /\ EndIteration(FALSE)
    /\ UNCHANGED <<active, boxFailsafeSwitchWasOn, throttleLowLeft, landingLeft,
                   rxPeriodLeft, rxPeriodPreset,
                   armed, armingDisableFlags, flightModeFlags>>

MoveTo(p) ==
    /\ phase' = p
    /\ EndIteration(TRUE)
    /\ UNCHANGED <<active, boxFailsafeSwitchWasOn, throttleLowLeft, landingLeft,
                   rxPeriodLeft, rxPeriodPreset,
                   armed, armingDisableFlags, flightModeFlags>>

StayInPhase ==
    /\ EndIteration(FALSE)
    /\ UNCHANGED <<phase, active, boxFailsafeSwitchWasOn, throttleLowLeft,
                   landingLeft, rxPeriodLeft, rxPeriodPreset,
                   armed, armingDisableFlags, flightModeFlags>>

(* Mutant of RecoverLink: monitoring does not wait for rxPeriodLeft. *)
RecoverLinkAtOnce(sticksActive) ==
    /\ loopReceiving
    /\ \/ IterationAt("RX_LOSS_DETECTED")
       \/ IterationAt("LANDING")
       \/ IterationAt("GPS_RESCUE") /\ (sticksActive \/ boxFailsafeSwitchWasOn)
       \/ IterationAt("RX_LOSS_MONITORING")
    /\ MoveTo("RX_LOSS_RECOVERED")

(* The exits of RX_LOSS_DETECTED, LANDING, GPS_RESCUE and                   *)
(* RX_LOSS_MONITORING to RX_LOSS_RECOVERED.                                 *)
RecoverLink(sticksActive) ==
    /\ loopReceiving
    /\ \/ IterationAt("RX_LOSS_DETECTED")
       \/ IterationAt("LANDING")
       \/ IterationAt("GPS_RESCUE") /\ (sticksActive \/ boxFailsafeSwitchWasOn)
       \/ IterationAt("RX_LOSS_MONITORING") /\ rxPeriodLeft = Expired
    /\ MoveTo("RX_LOSS_RECOVERED")

(* Mutant of KeepLanding: every pass stamps the landing deadline anew. *)
KeepLandingRestamped(crashRecovery) ==
    /\ IterationAt("LANDING")
    /\ ~loopReceiving
    /\ landingLeft # Expired /\ ~crashRecovery /\ loopArmed
    /\ landingLeft' = LandingDelay
    /\ EndIteration(FALSE)
    /\ UNCHANGED <<phase, active, boxFailsafeSwitchWasOn, throttleLowLeft,
                   rxPeriodLeft, rxPeriodPreset,
                   armed, armingDisableFlags, flightModeFlags>>

(* case FAILSAFE_LANDING, no link. *)
KeepLanding(crashRecovery) ==
    /\ IterationAt("LANDING")
    /\ ~loopReceiving
    /\ landingLeft # Expired /\ ~crashRecovery /\ loopArmed
    /\ StayInPhase

FinishLanding(crashRecovery) ==
    /\ IterationAt("LANDING")
    /\ ~loopReceiving
    /\ landingLeft = Expired \/ crashRecovery \/ ~loopArmed
    /\ MoveTo("LANDED")

(* case FAILSAFE_GPS_RESCUE, the rescue goes on. *)
KeepRescuing(sticksActive) ==
    /\ IterationAt("GPS_RESCUE")
    /\ IF loopReceiving THEN ~sticksActive /\ ~boxFailsafeSwitchWasOn
                        ELSE loopArmed
    /\ StayInPhase

FinishRescue ==
    /\ IterationAt("GPS_RESCUE")
    /\ ~loopReceiving
    /\ ~loopArmed
    /\ MoveTo("LANDED")

(* case FAILSAFE_LANDED: disarm() and lock arming. *)
Landed ==
    /\ IterationAt("LANDED")
    /\ armed' = FALSE
    /\ armingDisableFlags' = armingDisableFlags \cup {"FAILSAFE"}
    /\ rxPeriodLeft' = rxPeriodPreset
    /\ phase' = "RX_LOSS_MONITORING"
    /\ EndIteration(TRUE)
    /\ UNCHANGED <<active, boxFailsafeSwitchWasOn, throttleLowLeft, landingLeft,
                   rxPeriodPreset, flightModeFlags>>

(* Mutant of KeepMonitoring: it asks for another iteration. *)
KeepMonitoringAgain ==
    /\ IterationAt("RX_LOSS_MONITORING")
    /\ loopReceiving => rxPeriodLeft # Expired
    /\ rxPeriodLeft' = IF loopReceiving THEN rxPeriodLeft ELSE rxPeriodPreset
    /\ EndIteration(TRUE)
    /\ UNCHANGED <<phase, active, boxFailsafeSwitchWasOn, throttleLowLeft,
                   landingLeft, rxPeriodPreset,
                   armed, armingDisableFlags, flightModeFlags>>

(* Mutant of KeepMonitoring: the recovery period starts anew on every pass. *)
KeepMonitoringRestamped ==
    /\ IterationAt("RX_LOSS_MONITORING")
    /\ loopReceiving => rxPeriodLeft # Expired
    /\ rxPeriodLeft' = rxPeriodPreset
    /\ EndIteration(FALSE)
    /\ UNCHANGED <<phase, active, boxFailsafeSwitchWasOn, throttleLowLeft,
                   landingLeft, rxPeriodPreset,
                   armed, armingDisableFlags, flightModeFlags>>

(* case FAILSAFE_RX_LOSS_MONITORING, not yet recovered. *)
KeepMonitoring ==
    /\ IterationAt("RX_LOSS_MONITORING")
    /\ loopReceiving => rxPeriodLeft # Expired
    /\ rxPeriodLeft' = IF loopReceiving THEN rxPeriodLeft ELSE rxPeriodPreset
    /\ EndIteration(FALSE)
    /\ UNCHANGED <<phase, active, boxFailsafeSwitchWasOn, throttleLowLeft,
                   landingLeft, rxPeriodPreset,
                   armed, armingDisableFlags, flightModeFlags>>

(* Mutants of Recovered: one of its resets was forgotten. *)
RecoveredStillLocked ==
    /\ IterationAt("RX_LOSS_RECOVERED")
    /\ throttleLowLeft' = ThrottleLowDelay
    /\ phase' = "IDLE"
    /\ active' = FALSE
    /\ flightModeFlags' = flightModeFlags \ {"GPS_RESCUE_MODE", "FAILSAFE_MODE"}
    /\ EndIteration(TRUE)
    /\ UNCHANGED <<boxFailsafeSwitchWasOn, landingLeft, rxPeriodLeft,
                   rxPeriodPreset, armed, armingDisableFlags>>

RecoveredStillActive ==
    /\ IterationAt("RX_LOSS_RECOVERED")
    /\ throttleLowLeft' = ThrottleLowDelay
    /\ phase' = "IDLE"
    /\ flightModeFlags' = flightModeFlags \ {"GPS_RESCUE_MODE", "FAILSAFE_MODE"}
    /\ armingDisableFlags' = armingDisableFlags \ {"FAILSAFE"}
    /\ EndIteration(TRUE)
    /\ UNCHANGED <<active, boxFailsafeSwitchWasOn, landingLeft, rxPeriodLeft,
                   rxPeriodPreset, armed>>

(* case FAILSAFE_RX_LOSS_RECOVERED: the failsafe is over. *)
Recovered ==
    /\ IterationAt("RX_LOSS_RECOVERED")
    /\ throttleLowLeft' = ThrottleLowDelay
    /\ phase' = "IDLE"
    /\ active' = FALSE
    /\ flightModeFlags' = flightModeFlags \ {"GPS_RESCUE_MODE", "FAILSAFE_MODE"}
    /\ armingDisableFlags' = armingDisableFlags \ {"FAILSAFE"}
    /\ EndIteration(TRUE)
    /\ UNCHANGED <<boxFailsafeSwitchWasOn, landingLeft, rxPeriodLeft,
                   rxPeriodPreset, armed>>

FailsafeIteration(throttleLow, sticksActive, crashRecovery) ==
    \/ IdleNotArmed
    \/ IdleFlying(throttleLow)
    \/ IdleDisarms(throttleLow)
    \/ IdleLosesLink(throttleLow)
    \/ StartProcedure
    \/ RecoverLink(sticksActive)
    \/ KeepLanding(crashRecovery)
    \/ FinishLanding(crashRecovery)
    \/ KeepRescuing(sticksActive)
    \/ FinishRescue
    \/ Landed
    \/ KeepMonitoring
    \/ Recovered

-----------------------------------------------------------------------------
(* Properties, of whatever runs the failsafe. *)

(* Between two runs of failsafeUpdateState the phase is one of the four     *)
(* that wait for something, never one of the three the loop passes through; *)
(* stage 2 is marked active in all but IDLE; and in RX_LOSS_MONITORING the  *)
(* craft is disarmed with arming inhibited by ARMING_DISABLED_FAILSAFE.     *)
SettledPhase ==
    ~reprocessState =>
        /\ phase \in {"IDLE", "LANDING", "GPS_RESCUE", "RX_LOSS_MONITORING"}
        /\ phase # "IDLE" => active
        /\ phase = "RX_LOSS_MONITORING" =>
               ~armed /\ "FAILSAFE" \in armingDisableFlags

(* From the disarm by the failsafe to the end of the failsafe the craft is  *)
(* never armed, configuration saves included.                               *)
LockoutKeepsDisarmed ==
    "FAILSAFE" \in armingDisableFlags => ~armed /\ active

(* The stale copy loopArmed is harmless: the loop never carries a copy that *)
(* says armed, about a craft it has itself disarmed, back to a phase whose  *)
(* case reads it, because the recovery period it has just started is not    *)
(* over.                                                                    *)
StaleArmedIsNeverRead ==
    reprocessState /\ loopArmed /\ ~armed =>
        phase = "RX_LOSS_MONITORING" /\ rxPeriodLeft # Expired

(* The phases, timers and link state implement the promise.                 *)
Promise == INSTANCE LinkLossPromise WITH
    stage <- IF "FAILSAFE" \in armingDisableFlags THEN "lockout"
             ELSE IF active THEN "emergency" ELSE "normal"

ImplementsPromise == Promise!PromiseSpec
=============================================================================
