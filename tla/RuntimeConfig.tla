--------------------------- MODULE RuntimeConfig ---------------------------
(***************************************************************************)
(* The globals every part of the flight controller reads and writes        *)
(* (fc/runtime_config.c, fc/rc_modes.c): whether the craft is armed, why   *)
(* it may not be armed, which flight modes are on, and which switch boxes  *)
(* (BOX...) the last processed RC frame selected.  The code keeps them as  *)
(* bit masks; here they are sets.                                          *)
(***************************************************************************)
EXTENDS Integers, FiniteSets

VARIABLES
    armed,               \* ARMING_FLAG(ARMED)
    armingDisableFlags,  \* the reasons arming is inhibited
    flightModeFlags,     \* the flight modes that are on
    rcModes              \* rcModeActivationMask: the boxes that are on

runtimeVars == <<armed, armingDisableFlags, flightModeFlags, rcModes>>

(* The part of armingDisableFlags_e the modules of this project tell apart. *)
ArmingDisableFlags ==
    { "FAILSAFE", "RX_FAILSAFE", "BAD_RX_RECOVERY", "BOXFAILSAFE",
      "RUNAWAY_TAKEOFF", "THROTTLE", "BOOT_GRACE_TIME", "BST", "PARALYZE",
      "WAITING_FOR_THROW", "THROW_NOT_READY", "ARM_SWITCH" }

FlightModes ==
    { "FAILSAFE_MODE", "GPS_RESCUE_MODE", "CATAPULT_MODE", "LEARNER_MODE" }

Boxes == { "BOXARM", "BOXFAILSAFE", "BOXPARALYZE", "BOXTHROWTOARM",
           "BOXCATAPULT", "BOXLEARNER" }

RuntimeTypeOK ==
    /\ armed \in BOOLEAN
    /\ armingDisableFlags \subseteq ArmingDisableFlags
    /\ flightModeFlags \subseteq FlightModes
    /\ rcModes \subseteq Boxes

IsRcModeActive(box) == box \in rcModes

IsArmingDisabled == armingDisableFlags # {}

(* The member of set x is present after the step exactly when on holds. *)
Switched(set, x, on) == IF on THEN set \cup {x} ELSE set \ {x}
=============================================================================
