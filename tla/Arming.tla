------------------------------- MODULE Arming -------------------------------
(***************************************************************************)
(* Arming and disarming by the arm switch (fc/core.c updateArmingStatus,   *)
(* tryArm, disarm; fc/rc_controls.c processRcStickPositions) and the boxes *)
(* the switches select (fc/rc_modes.c updateActivatedModes), with one aux  *)
(* range per box.                                                          *)
(*                                                                         *)
(* The delays after power-on, of the boot grace time, the failsafe and the *)
(* sticky modes, are all 5 s by default: powerOnDelayOver stands for them. *)
(*                                                                         *)
(* Of the conditions updateArmingStatus looks at afresh on every pass      *)
(* (throttle, angle, load, calibration, GPS, ...) THROTTLE stands for all. *)
(***************************************************************************)
EXTENDS RxLink, Throw

VARIABLES
    hadRx,             \* updateArmingStatus: rxSignalReceived, the last time
    rcDisarmTicks,     \* processRcStickPositions: passes with the switch off
    paralyzeWasOff,    \* stickyModesEverDisabled: BOXPARALYZE seen off
    powerOnDelayOver   \* five seconds since power-on

armingVars == <<hadRx, rcDisarmTicks, paralyzeWasOff, powerOnDelayOver>>

DisarmTicksMax == 4    \* a bound: beyond it the count makes no difference

ArmingTypeOK ==
    /\ hadRx \in BOOLEAN
    /\ rcDisarmTicks \in 0..DisarmTicksMax
    /\ paralyzeWasOff \in BOOLEAN
    /\ powerOnDelayOver \in BOOLEAN
    /\ throwState \in ThrowStates

ArmingInit ==
    /\ hadRx = FALSE
    /\ rcDisarmTicks = 0
    /\ paralyzeWasOff = FALSE
    /\ powerOnDelayOver = FALSE
    /\ throwState = "IDLE"

ArmSwitchOn == IsRcModeActive("BOXARM")

-----------------------------------------------------------------------------
(* updateArmingStatus of a disarmed craft: each operator is a stretch of it *)
(* and maps the arming inhibitions before it to those after it.             *)

(* A switch that is on when the signal comes back does not arm. *)
AfterRxRecovery(flags) ==
    IF rxSignalReceived /\ ~hadRx /\ ArmSwitchOn
        THEN flags \cup {"BAD_RX_RECOVERY"}
    ELSE IF rxSignalReceived /\ ~ArmSwitchOn
        THEN flags \ {"BAD_RX_RECOVERY"}
    ELSE flags

AfterConditions(flags) ==
    Switched(Switched(flags, "BOXFAILSAFE", IsRcModeActive("BOXFAILSAFE")),
             "THROTTLE", rcThrottle # "low")
        \cup (IF IsRcModeActive("BOXPARALYZE") THEN {"PARALYZE"} ELSE {})

(* Mutant of AfterArmSwitch: ARM_SWITCH is never set. *)
AfterArmSwitchUnlatched(flags) ==
    IF ArmSwitchOn THEN flags ELSE flags \ {"RUNAWAY_TAKEOFF", "ARM_SWITCH"}

(* While anything inhibits arming with the switch on, it has to go off. *)
AfterArmSwitch(flags) ==
    IF ArmSwitchOn
        THEN IF flags # {} THEN flags \cup {"ARM_SWITCH"} ELSE flags
        ELSE flags \ {"RUNAWAY_TAKEOFF", "ARM_SWITCH"}

(* Mutant of AfterThrow: THROWN is not awaited. *)
AfterThrowUnawaited(flags) ==
    IF ThrowInProgress \/ throwState = "THROWN"
        THEN (flags \cap DoNotTolerateDuringThrow) \ {"WAITING_FOR_THROW"}
        ELSE flags \ {"THROW_NOT_READY", "WAITING_FOR_THROW"}

(* A throw in progress waives all but the critical inhibitions. *)
AfterThrow(flags) ==
    IF ~IsRcModeActive("BOXTHROWTOARM")
        THEN flags \ {"THROW_NOT_READY", "WAITING_FOR_THROW"}
    ELSE IF ThrowInProgress \/ throwState = "THROWN"
        THEN Switched(flags \cap DoNotTolerateDuringThrow,
                      "WAITING_FOR_THROW", throwState # "THROWN")
    ELSE (flags \ {"WAITING_FOR_THROW"}) \cup {"THROW_NOT_READY"}

(* The boot grace time ends when the motors take commands too. *)
StatusFlags(motorsReady) ==
    LET flags == IF powerOnDelayOver /\ motorsReady
                     THEN armingDisableFlags \ {"BOOT_GRACE_TIME"}
                     ELSE armingDisableFlags
    IN  AfterThrow(AfterArmSwitch(AfterConditions(AfterRxRecovery(flags))))

UpdateArmingStatus ==
    /\ \E motorsReady \in BOOLEAN :
          armingDisableFlags' = IF armed THEN armingDisableFlags
                                         ELSE StatusFlags(motorsReady)
    /\ hadRx' = IF armed THEN hadRx ELSE rxSignalReceived

-----------------------------------------------------------------------------
(* processRcStickPositions, armed by switch. *)

(* tryArm.  A DSHOT beacon that is still sounding delays the arming.        *)
TryArm ==
    /\ UpdateArmingStatus
    /\ \E beaconSounds \in BOOLEAN :
          armed' = (armed \/ (armingDisableFlags' = {} /\ ~beaconSounds))

SwitchMayDisarm ==
    armed /\ (FailsafeIsReceivingRxData \/ IsRcModeActive("BOXFAILSAFE"))

(* Mutant of CountDisarmTick: the count starts again on every pass. *)
CountDisarmTickAgain ==
    /\ rcDisarmTicks' = 1
    /\ UNCHANGED armed

CountDisarmTick ==
    /\ rcDisarmTicks' = IF rcDisarmTicks < DisarmTicksMax
                            THEN rcDisarmTicks + 1 ELSE DisarmTicksMax
    /\ armed' = (rcDisarmTicks' <= 3)

ProcessArmSwitch ==
    IF ArmSwitchOn
        THEN TryArm /\ rcDisarmTicks' = 0
        ELSE /\ IF SwitchMayDisarm THEN CountDisarmTick
                                   ELSE UNCHANGED <<armed, rcDisarmTicks>>
             /\ UNCHANGED <<armingDisableFlags, hadRx>>

(* processRxModes skips the sticks of a paralyzed craft that is disarmed.   *)
ProcessRcStickPositions ==
    IF IsRcModeActive("BOXPARALYZE") /\ ~armed
        THEN UNCHANGED <<armed, armingDisableFlags, hadRx, rcDisarmTicks>>
        ELSE ProcessArmSwitch

(* Mutant of Paralyzed: the mode is an ordinary one. *)
ParalyzedWhileOn == "BOXPARALYZE" \in rcSwitches

(* BOXPARALYZE is sticky, and refused until it has been seen off.           *)
Paralyzed ==
    \/ IsRcModeActive("BOXPARALYZE")
    \/ "BOXPARALYZE" \in rcSwitches /\ paralyzeWasOff

UpdateActivatedModes ==
    /\ rcModes' = Switched(rcSwitches, "BOXPARALYZE", Paralyzed)
    /\ paralyzeWasOff' =
          (paralyzeWasOff \/ (powerOnDelayOver
                              /\ "BOXPARALYZE" \in UsedBoxes \ rcSwitches))
    /\ UNCHANGED powerOnDelayOver

GpsRescueWanted == active /\ procedure = "GPS_RESCUE"

(* processRxModes.  The sticks are looked at before the new modes are known.*)
ProcessRxModes ==
    /\ ProcessRcStickPositions
    /\ UpdateActivatedModes
    /\ flightModeFlags' = Switched(flightModeFlags, "GPS_RESCUE_MODE",
                                   armed' /\ GpsRescueWanted)

(* Mutant of RunawayTakeoff: it disarms and does not inhibit. *)
RunawayTakeoffUnlocked ==
    /\ armed
    /\ "GPS_RESCUE_MODE" \notin flightModeFlags
    /\ armed' = FALSE
    /\ UNCHANGED armingDisableFlags

(* subTaskPidController: a runaway take-off disarms. *)
RunawayTakeoff ==
    /\ armed
    /\ "GPS_RESCUE_MODE" \notin flightModeFlags
    /\ armed' = FALSE
    /\ armingDisableFlags' = armingDisableFlags \cup {"RUNAWAY_TAKEOFF"}
=============================================================================
