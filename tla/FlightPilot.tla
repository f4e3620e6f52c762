----------------------------- MODULE FlightPilot -----------------------------
(***************************************************************************)
(* FlightCore with a record of what the pilot sent: the properties here    *)
(* compare the craft with the frames, not with what the RX task made of    *)
(* them.                                                                   *)
(***************************************************************************)
EXTENDS FlightCore

VARIABLE switchOff    \* history: the last frame had the arm switch off

pilotVars == <<coreVars, switchOff>>

PilotInit == CoreInit /\ switchOff = TRUE

PilotSends ==
    \E frame \in Frames :
        /\ RxCheck(frame, TRUE)
        /\ switchOff' = ("BOXARM" \notin frame.switches)

(* Every other step of FlightCore leaves the record alone. *)
NotAFrame ==
    /\ \/ Tick
       \/ RunFailsafe
       \/ FailsafeLoop
       \/ PowerOnDelayEnds
       \/ RxCheckTimeout
       \/ RxModes
       \/ RxUpdate
       \/ ThrowTask
       \/ PidLoop
       \/ WriteConfig
       \/ ReloadConfig
    /\ UNCHANGED switchOff

PilotNext == PilotSends \/ NotAFrame

PilotSpec == PilotInit /\ [][PilotNext]_pilotVars /\ CoreFairness

-----------------------------------------------------------------------------
(* When good frames say for good that the arm switch is off, the craft is   *)
(* in the end disarmed for good, whatever the failsafe was doing            *)
(* (processRcStickPositions, failsafeUpdateState).                          *)
LinkIsGood == failedAge = AgeMax /\ rxSignalReceived

DisarmSwitchWorks ==
    <>[](LinkIsGood /\ switchOff) => <>[]~armed
=============================================================================
