-------------------------------- MODULE Throw --------------------------------
(***************************************************************************)
(* flight/throw.c: the state machine that recognises a throw and lets the  *)
(* arming code arm in the air.  The IMU readings, the timers and the       *)
(* conditions kept by other parts (position mode, learned profile) are     *)
(* inputs that may be anything.                                            *)
(***************************************************************************)
EXTENDS RuntimeConfig

VARIABLE throwState

ThrowStates == { "IDLE", "WAITING_FOR_THROW", "ACC_HIGH", "ENOUGH_MOMENTUM",
                 "LEFT_HAND", "THROWN", "ARMED_AFTER_THROW" }

(* From WAITING_FOR_THROW on and before THROWN: a throw may be aborted. *)
ThrowInProgress ==
    throwState \in {"WAITING_FOR_THROW", "ACC_HIGH", "ENOUGH_MOMENTUM",
                    "LEFT_HAND"}

(* Mutant of DoNotTolerateDuringThrow: the failsafe is tolerated.           *)
DoNotTolerateDuringThrowBarFailsafe ==
    {"RX_FAILSAFE", "BAD_RX_RECOVERY", "BOXFAILSAFE", "PARALYZE"}

DoNotTolerateDuringThrow ==
    {"FAILSAFE", "RX_FAILSAFE", "BAD_RX_RECOVERY", "BOXFAILSAFE", "PARALYZE"}

ThrowDisabled ==
    \/ armed
    \/ "CATAPULT_MODE" \in flightModeFlags
    \/ armingDisableFlags \cap DoNotTolerateDuringThrow # {}
    \/ ~IsRcModeActive("BOXTHROWTOARM")
    \/ ~IsRcModeActive("BOXARM")
    \/ IsRcModeActive("BOXPARALYZE")

(* The next states the case for throwState may move to, the abort of a      *)
(* throw in progress having been looked at first.                           *)
ThrowCase(from, canEnable) ==
    CASE from = "IDLE" ->
             IF canEnable THEN {"IDLE", "WAITING_FOR_THROW"} ELSE {"IDLE"}
      [] from = "WAITING_FOR_THROW" -> {"WAITING_FOR_THROW", "ACC_HIGH"}
      [] from = "ACC_HIGH" ->
             {"ACC_HIGH", "ENOUGH_MOMENTUM", "WAITING_FOR_THROW"}
      [] from = "ENOUGH_MOMENTUM" -> {"ENOUGH_MOMENTUM", "LEFT_HAND"}
      [] from = "LEFT_HAND" -> {"LEFT_HAND", "THROWN"}
      [] from = "THROWN" ->
             IF armed THEN {"ARMED_AFTER_THROW"} ELSE {"THROWN", "IDLE"}
      [] from = "ARMED_AFTER_THROW" ->
             IF armed THEN {"ARMED_AFTER_THROW"} ELSE {"IDLE"}

UpdateThrowFallStateMachine ==
    \E otherDisable \in BOOLEAN :
        LET disabled == ThrowDisabled \/ otherDisable
            from     == IF disabled /\ ThrowInProgress THEN "IDLE"
                                                       ELSE throwState
        IN  throwState' \in ThrowCase(from, ~disabled)
=============================================================================
