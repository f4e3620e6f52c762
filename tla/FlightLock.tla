----------------------------- MODULE FlightLock -----------------------------
(***************************************************************************)
(* FlightCore with a record of the arm switch: whether it has been on ever *)
(* since the craft was disarmed.                                           *)
(***************************************************************************)
EXTENDS FlightCore

VARIABLE heldSinceDisarm    \* history: the boxes have shown BOXARM on since

lockVars == <<coreVars, heldSinceDisarm>>

LockInit == CoreInit /\ heldSinceDisarm = FALSE

RecordHeld ==
    heldSinceDisarm' =
        ("BOXARM" \in rcModes'
            /\ (heldSinceDisarm \/ (ArmSwitchOn /\ armed /\ ~armed')))

LockNext == CoreNext /\ RecordHeld

LockSpec == LockInit /\ [][LockNext]_lockVars /\ CoreFairness

-----------------------------------------------------------------------------
(* A craft that the failsafe or a runaway take-off disarmed stays disarmed  *)
(* until the boxes show the arm switch off, however the failsafe that did   *)
(* it ends: ARM_SWITCH is set before FAILSAFE is lifted, in every order of  *)
(* the tasks.  (Not for a landing begun by the failsafe switch, nor for a   *)
(* drop or a landing in stage 1 with that switch on, right after which the  *)
(* configuration is saved: their recovery period is zero, and the failsafe  *)
(* may run both before the switch is seen and after the link is back, with  *)
(* no updateArmingStatus in between.)                                       *)
AutomaticDisarmLocks ==
    heldSinceDisarm =>
        /\ ~armed
        /\ armingDisableFlags
               \cap {"FAILSAFE", "RUNAWAY_TAKEOFF", "ARM_SWITCH"} # {}
=============================================================================
