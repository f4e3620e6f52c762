--------------------------- MODULE FailsafeSystem ---------------------------
(***************************************************************************)
(* failsafe.c closed by the rest of the firmware: the RX task reports valid*)
(* or failed data, the scheduler runs the failsafe, the pilot moves sticks *)
(* and switches, arms and disarms, and the configuration is saved while    *)
(* disarmed.  All of it runs on one thread, so nothing interleaves with    *)
(* the loop of failsafeUpdateState (guard ~reprocessState).                *)
(***************************************************************************)
EXTENDS LinkHistory

systemVars == <<runtimeVars, failsafeVars, tasksDone, historyVars>>

SystemTypeOK ==
    /\ RuntimeTypeOK
    /\ FailsafeTypeOK
    /\ HistoryTypeOK
    /\ tasksDone \subseteq PeriodicTasks

SystemInit ==
    /\ armed = FALSE
    /\ armingDisableFlags = {}
    /\ flightModeFlags = {}
    /\ rcModes = {}
    /\ FailsafeInit
    /\ tasksDone = {}
    /\ HistoryInit

-----------------------------------------------------------------------------
(* The scheduler keeps up: between two ticks each periodic task runs.       *)
Tick ==
    /\ ~reprocessState
    /\ tasksDone = PeriodicTasks
    /\ tasksDone' = {}
    /\ ClockTick
    /\ SilenceGrows
    /\ UNCHANGED <<runtimeVars, phase, active, monitoring, rxLinkState,
                   boxFailsafeSwitchWasOn, rxPeriodPreset, configVars, loopVars,
                   reloadedInStage2>>

RunFailsafe ==
    /\ FailsafeUpdateState
    /\ tasksDone' = tasksDone \cup {"FAILSAFE"}
    /\ UNCHANGED historyVars

(* One iteration.  The sticks and the crash detector are read by at most one *)
(* iteration of a loop, so each may be anything when it is read.             *)
FailsafeLoop ==
    /\ reprocessState
    /\ \E throttleLow, sticksActive, crashRecovery \in BOOLEAN :
          FailsafeIteration(throttleLow, sticksActive, crashRecovery)
    /\ UNCHANGED <<tasksDone, historyVars>>

(* processRx starts the monitoring once the power-on delay is over.  The    *)
(* boot grace time that inhibits arming ends then too (both are 5 s by      *)
(* default), so with the craft armed the next review finds the delay over.  *)
MonitorFromNowOn ==
    FailsafeStartMonitoring \/ (~armed /\ UNCHANGED monitoring)

(* rx.c: data cannot be valid while the BOXFAILSAFE switch is on.           *)
ReceiveValidData ==
    /\ ~reprocessState
    /\ ~IsRcModeActive("BOXFAILSAFE")
    /\ FailsafeOnValidDataReceived
    /\ MonitorFromNowOn
    /\ tasksDone' = tasksDone \cup {"RX"}
    /\ silence' = 0
    /\ UNCHANGED <<armed, flightModeFlags, rcModes, reloadedInStage2>>

MissValidData ==
    /\ ~reprocessState
    /\ FailsafeOnValidDataFailed
    /\ MonitorFromNowOn
    /\ tasksDone' = tasksDone \cup {"RX"}
    /\ UNCHANGED <<armed, flightModeFlags, rcModes, historyVars>>

(* processRxModes, which follows the review of the data: the pilot may arm  *)
(* or disarm, then updateActivatedModes reads the BOXFAILSAFE switch.       *)
ProcessRxModes ==
    /\ ~reprocessState
    /\ "RX" \in tasksDone
    /\ armed' \in BOOLEAN
    /\ armed' => armed \/ ~IsArmingDisabled
    /\ \E boxOn \in BOOLEAN : rcModes' = Switched(rcModes, "BOXFAILSAFE", boxOn)
    /\ flightModeFlags' = Switched(flightModeFlags, "GPS_RESCUE_MODE",
                                   armed' /\ active /\ procedure = "GPS_RESCUE")
    /\ UNCHANGED <<armingDisableFlags, failsafeVars, tasksDone, historyVars>>

(* disarm() from the other tasks: runaway take-off, crash, MSP, keyboard.   *)
Disarm ==
    /\ ~reprocessState
    /\ armed
    /\ armed' = FALSE
    /\ UNCHANGED <<armingDisableFlags, flightModeFlags, rcModes, failsafeVars,
                   tasksDone, historyVars>>

(* The flight statistics are written half a second after a disarm.          *)
WriteConfig ==
    /\ ~reprocessState
    /\ ~armed
    /\ FailsafeOnConfigWrite
    /\ UNCHANGED <<runtimeVars, tasksDone, historyVars>>

(* saveConfigAndNotify and the MSP save write the configuration and read it *)
(* back.                                                                    *)
ReloadConfig ==
    /\ ~reprocessState
    /\ ~armed
    /\ FailsafeOnConfigReload
    /\ ReloadIsRecorded
    /\ UNCHANGED <<runtimeVars, tasksDone, silence>>

SystemNext ==
    \/ Tick
    \/ RunFailsafe
    \/ FailsafeLoop
    \/ ReceiveValidData
    \/ MissValidData
    \/ ProcessRxModes
    \/ Disarm
    \/ WriteConfig
    \/ ReloadConfig

(* The cooperative scheduler runs the failsafe and the RX task for ever and *)
(* time passes; the loop of failsafeUpdateState is plain sequential code.   *)
(* Nothing obliges the pilot.                                               *)
SystemFairness ==
    /\ SF_systemVars(Tick)
    /\ WF_systemVars(FailsafeLoop)
    /\ SF_systemVars(RunFailsafe)
    /\ SF_systemVars(ReceiveValidData \/ MissValidData)

SystemSpec == SystemInit /\ [][SystemNext]_systemVars /\ SystemFairness

-----------------------------------------------------------------------------
(* Properties. *)

(* failsafeUpdateState returns: its do-while loop always comes to a case    *)
(* that does not ask for another iteration.                                 *)
LoopTerminates == []<>~reprocessState

(* When the data is valid for good, with the failsafe switch off, the       *)
(* lockout ends and only a GPS rescue waiting for the sticks goes on,       *)
(* unless a configuration reload has cut stage 2 short.                     *)
FailsafeEndsWhenLinkIsBack ==
    <>[](failedAge = AgeMax /\ rcModes = {} /\ ~reloadedInStage2) =>
        <>[](/\ "FAILSAFE" \notin armingDisableFlags
             /\ phase \in {"IDLE", "RX_LOSS_DETECTED", "RX_LOSS_RECOVERED",
                           "GPS_RESCUE"})

-----------------------------------------------------------------------------
(* What comments and tests say and the code does not do.                    *)

(* failsafeIsActive: "real or BOXFAILSAFE induced stage 2 failsafe is       *)
(* currently active".  A configuration reload resets the phase and not      *)
(* active, nor the arming inhibition, which nothing clears any more.        *)
ActiveOnlyInStage2 == ~reprocessState /\ active => phase # "IDLE"
=============================================================================
