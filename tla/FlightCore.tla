----------------------------- MODULE FlightCore -----------------------------
(***************************************************************************)
(* The control loop around the failsafe: the RX task, whose three states   *)
(* (fc/tasks.c taskUpdateRxMain) the scheduler interleaves with the        *)
(* failsafe, the throw detector and the PID loop, the arming by switch,    *)
(* and a pilot who moves the throttle and the switches at will, over a     *)
(* radio that may be silent or garbled at any time.                        *)
(***************************************************************************)
EXTENDS Arming

VARIABLE rxState      \* the state of taskUpdateRxMain

coreVars == <<runtimeVars, failsafeVars, rxVars, armingVars, throwState,
              rxState, tasksDone>>

CoreTypeOK ==
    /\ RuntimeTypeOK
    /\ FailsafeTypeOK
    /\ RxTypeOK
    /\ ArmingTypeOK
    /\ rxState \in {"CHECK", "MODES", "UPDATE"}
    /\ tasksDone \subseteq PeriodicTasks

CoreInit ==
    /\ armed = FALSE
    /\ armingDisableFlags = {"BOOT_GRACE_TIME"}
    /\ flightModeFlags = {}
    /\ rcModes = {}
    /\ FailsafeInit
    /\ RxInit
    /\ ArmingInit
    /\ rxState = "CHECK"
    /\ tasksDone = {}

Idle == ~reprocessState      \* the loop of failsafeUpdateState has returned

-----------------------------------------------------------------------------
(* The clock.  Between two ticks the RX task and the failsafe each ran.     *)
Tick ==
    /\ Idle
    /\ rxState = "CHECK"
    /\ tasksDone = PeriodicTasks
    /\ tasksDone' = {}
    /\ ClockTick
    /\ RxTick
    /\ UNCHANGED <<runtimeVars, phase, active, monitoring, rxLinkState,
                   boxFailsafeSwitchWasOn, rxPeriodPreset, configVars, loopVars,
                   rcThrottle, rcSwitches, rxSignalReceived, armingVars,
                   throwState, rxState>>

RunFailsafe ==
    /\ FailsafeUpdateState
    /\ tasksDone' = tasksDone \cup {"FAILSAFE"}
    /\ UNCHANGED <<rxVars, armingVars, throwState, rxState>>

FailsafeLoop ==
    /\ reprocessState
    /\ \E sticksActive, crashRecovery \in BOOLEAN :
          FailsafeIteration(rcThrottle = "low", sticksActive, crashRecovery)
    /\ UNCHANGED <<rxVars, armingVars, throwState, rxState, tasksDone>>

PowerOnDelayEnds ==
    /\ Idle
    /\ ~powerOnDelayOver
    /\ powerOnDelayOver' = TRUE
    /\ UNCHANGED <<runtimeVars, failsafeVars, rxVars, hadRx, rcDisarmTicks,
                   paralyzeWasOff, throwState, rxState, tasksDone>>

(* processRx starts the monitoring once the power-on delay is over. *)
MonitorWhenPoweredOn ==
    IF powerOnDelayOver THEN FailsafeStartMonitoring ELSE UNCHANGED monitoring

(* RX_STATE_CHECK: a frame that came, or none for 100 ms. *)
RxCheck(frame, signal) ==
    /\ Idle
    /\ rxState = "CHECK"
    /\ ReviewFrame(frame, signal)
    /\ MonitorWhenPoweredOn
    /\ rxState' = "MODES"
    /\ tasksDone' = tasksDone \cup {"RX"}
    /\ UNCHANGED <<armed, flightModeFlags, rcModes, armingVars, throwState>>

RxCheckFrame == \E frame \in Frames : RxCheck(frame, TRUE)
RxCheckTimeout == \E frame \in Frames : RxCheck(frame, FALSE)

(* RX_STATE_MODES *)
RxModes ==
    /\ Idle
    /\ rxState = "MODES"
    /\ ProcessRxModes
    /\ rxState' = "UPDATE"
    /\ UNCHANGED <<failsafeVars, rxVars, throwState, tasksDone>>

(* RX_STATE_UPDATE *)
RxUpdate ==
    /\ Idle
    /\ rxState = "UPDATE"
    /\ UpdateArmingStatus
    /\ rxState' = "CHECK"
    /\ UNCHANGED <<armed, flightModeFlags, rcModes, failsafeVars, rxVars,
                   rcDisarmTicks, paralyzeWasOff, powerOnDelayOver, throwState,
                   tasksDone>>

(* The accelerometer task; without a BOXTHROWTOARM range it does nothing.   *)
ThrowTask ==
    /\ Idle
    /\ UpdateThrowFallStateMachine
    /\ UNCHANGED <<runtimeVars, failsafeVars, rxVars, armingVars, rxState,
                   tasksDone>>

PidLoop ==
    /\ Idle
    /\ RunawayTakeoff
    /\ UNCHANGED <<flightModeFlags, rcModes, failsafeVars, rxVars, armingVars,
                   throwState, rxState, tasksDone>>

WriteConfig ==
    /\ Idle
    /\ ~armed
    /\ FailsafeOnConfigWrite
    /\ UNCHANGED <<runtimeVars, rxVars, armingVars, throwState, rxState,
                   tasksDone>>

ReloadConfig ==
    /\ Idle
    /\ ~armed
    /\ FailsafeOnConfigReload
    /\ UNCHANGED <<runtimeVars, rxVars, armingVars, throwState, rxState,
                   tasksDone>>

CoreNext ==
    \/ Tick
    \/ RunFailsafe
    \/ FailsafeLoop
    \/ PowerOnDelayEnds
    \/ RxCheckFrame
    \/ RxCheckTimeout
    \/ RxModes
    \/ RxUpdate
    \/ ThrowTask
    \/ PidLoop
    \/ WriteConfig
    \/ ReloadConfig

(* The scheduler runs the RX task in its three states, the failsafe and its *)
(* loop for ever, and time passes; nothing obliges the pilot or the radio.  *)
CoreFairness ==
    /\ SF_coreVars(Tick)
    /\ WF_coreVars(FailsafeLoop)
    /\ SF_coreVars(RunFailsafe)
    /\ WF_coreVars(PowerOnDelayEnds)
    /\ SF_coreVars(RxCheckFrame \/ RxCheckTimeout)
    /\ SF_coreVars(RxModes)
    /\ SF_coreVars(RxUpdate)

CoreSpec == CoreInit /\ [][CoreNext]_coreVars /\ CoreFairness

-----------------------------------------------------------------------------
(* Properties. *)

(* While the throw switch is on nothing but a recognised throw arms.        *)
ThrowSwitchNeedsThrow ==
    [][~armed /\ armed' /\ IsRcModeActive("BOXTHROWTOARM")
          => throwState = "THROWN"]_coreVars

(* Once BOXPARALYZE is active on a disarmed craft, it stays active and the  *)
(* craft disarmed until the next boot, whatever the radio sends             *)
(* (updateMasksForStickyModes, processRxModes).                             *)
ParalyzedForGood ==
    [][~armed /\ IsRcModeActive("BOXPARALYZE")
          => ~armed' /\ "BOXPARALYZE" \in rcModes']_coreVars

=============================================================================
