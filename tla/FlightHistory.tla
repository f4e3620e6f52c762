---------------------------- MODULE FlightHistory ----------------------------
(***************************************************************************)
(* FlightLock with a record of how long no valid data came and whether the *)
(* configuration was reloaded in stage 2, with which it is shown to        *)
(* implement FailsafeSystem.                                               *)
(***************************************************************************)
EXTENDS FlightLock, LinkHistory

flightVars == <<lockVars, historyVars>>

FlightTypeOK ==
    /\ CoreTypeOK
    /\ heldSinceDisarm \in BOOLEAN
    /\ HistoryTypeOK

FlightInit ==
    /\ LockInit
    /\ HistoryInit

TimePasses ==
    /\ Tick
    /\ SilenceGrows
    /\ UNCHANGED reloadedInStage2

DataReviewed ==
    /\ \E frame \in Frames, signal \in BOOLEAN :
          /\ RxCheck(frame, signal)
          /\ silence' = IF FlightChannelsValid(frame, signal) THEN 0
                                                              ELSE silence
    /\ UNCHANGED reloadedInStage2

ConfigReloaded ==
    /\ ReloadConfig
    /\ ReloadIsRecorded
    /\ UNCHANGED silence

NothingToRecord ==
    /\ \/ RunFailsafe
       \/ FailsafeLoop
       \/ PowerOnDelayEnds
       \/ RxModes
       \/ RxUpdate
       \/ ThrowTask
       \/ PidLoop
       \/ WriteConfig
    /\ UNCHANGED historyVars

FlightNext ==
    /\ \/ TimePasses
       \/ DataReviewed
       \/ ConfigReloaded
       \/ NothingToRecord
    /\ RecordHeld

FlightSpec == FlightInit /\ [][FlightNext]_flightVars /\ CoreFairness

-----------------------------------------------------------------------------
(* Properties. *)

(* rx.c and core.c do what FailsafeSystem assumes of them: valid data is    *)
(* reported only with the failsafe switch off, arming is refused while the  *)
(* failsafe inhibits it, the monitoring starts in time.  So all that holds  *)
(* of FailsafeSystem holds end to end.  (A throw waives BST, which          *)
(* FailsafeSystem does not know: this is for no BOXTHROWTOARM range.)       *)
System == INSTANCE FailsafeSystem WITH
    armingDisableFlags <-
        armingDisableFlags \cap {"FAILSAFE", "RX_FAILSAFE", "BST"},
    rcModes <- rcModes \cap {"BOXFAILSAFE"}

ImplementsFailsafeSystem ==
    System!SystemInit /\ [][System!SystemNext]_(System!systemVars)
=============================================================================
