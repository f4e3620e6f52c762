------------------------------- MODULE RxLink -------------------------------
(***************************************************************************)
(* rx/rx.c: from a received frame to rcData and to the report the failsafe *)
(* gets.  calculateRxChannelsAndUpdateFailsafe runs whenever rxFrameCheck  *)
(* saw a complete frame, or no frame for 100 ms.                           *)
(*                                                                         *)
(* Data.  The throttle stands for the four flight channels: "low" is below *)
(* min_check, "bad" a pulse outside the valid range.  The aux channels are *)
(* the set of boxes whose range they are in.  The aux channels have the    *)
(* default RX failsafe mode, hold, and the throttle its default, auto.     *)
(***************************************************************************)
EXTENDS Failsafe

CONSTANTS
    HoldPeriod,        \* MAX_INVALID_PULSE_TIME_MS
    FailsafeThrottle,  \* failsafe_throttle: "low", unless it is set to climb
    UsedBoxes          \* the boxes that some aux range selects

ASSUME RxAssumption ==
    /\ HoldPeriod \in Nat
    /\ FailsafeThrottle \in {"low", "high"}
    /\ UsedBoxes \subseteq Boxes

VARIABLES
    rcThrottle,        \* rcData[THROTTLE]
    rcSwitches,        \* the aux channels of rcData
    holdLeft,          \* validRxSignalTimeout[] - millis(), 0 when past
    rxSignalReceived   \* a frame came within the last 100 ms

rxVars == <<rcThrottle, rcSwitches, holdLeft, rxSignalReceived>>

RxTypeOK ==
    /\ rcThrottle \in {"low", "high"}
    /\ rcSwitches \subseteq UsedBoxes
    /\ holdLeft \in 0..HoldPeriod
    /\ rxSignalReceived \in BOOLEAN

(* rxInit: the throttle low, the arm channel at an OFF value.               *)
RxInit ==
    /\ rcThrottle = "low"
    /\ rcSwitches = {}
    /\ holdLeft = HoldPeriod
    /\ rxSignalReceived = FALSE

Frames == [throttle: {"low", "high", "bad"}, switches: SUBSET UsedBoxes]

RxTick == holdLeft' = IF holdLeft > 0 THEN holdLeft - 1 ELSE 0

-----------------------------------------------------------------------------
(* detectAndApplySignalLossBehaviour. *)

(* Mutant of PacketIsGood: the failsafe switch does not spoil the data. *)
PacketIsGoodAnyway(signal) == signal

(* The packet as a whole is to be used. *)
PacketIsGood(signal) == signal /\ ~IsRcModeActive("BOXFAILSAFE")

FlightChannelIsValid(frame, signal) ==
    PacketIsGood(signal) /\ frame.throttle # "bad"

(* A flight channel has been invalid for longer than the hold time: the     *)
(* data count as lost, except in stage 2.                                   *)
FlightChannelIsLost(frame, signal) ==
    /\ ~active
    /\ ~IsRcModeActive("BOXFAILSAFE")
    /\ ~FlightChannelIsValid(frame, signal)
    /\ holdLeft = 0

(* rxFlightChannelsValid at the end of the function. *)
FlightChannelsValid(frame, signal) ==
    PacketIsGood(signal) /\ ~FlightChannelIsLost(frame, signal)

AcceptedThrottle(frame, signal) ==
    CASE FlightChannelIsValid(frame, signal) -> frame.throttle
      [] ~FlightChannelIsValid(frame, signal) /\ active -> FailsafeThrottle
      [] ~FlightChannelIsValid(frame, signal) /\ ~active ->
             IF IsRcModeActive("BOXFAILSAFE") \/ holdLeft = 0
                 THEN "low"         \* getRxfailValue: rx_min_usec
                 ELSE rcThrottle    \* hold the last good value

(* Held aux channels keep the last good value.  While the BOXFAILSAFE       *)
(* switch is on they pass; in stage 2 they are frozen, good frames or not.  *)
AcceptedSwitches(frame, signal) ==
    IF \/ IsRcModeActive("BOXFAILSAFE")
       \/ ~active /\ FlightChannelsValid(frame, signal)
        THEN frame.switches ELSE rcSwitches

(* The whole review: new rcData, then the report to the failsafe.           *)
ReviewFrame(frame, signal) ==
    /\ rxSignalReceived' = signal
    /\ holdLeft' = IF FlightChannelIsValid(frame, signal) THEN HoldPeriod
                                                        ELSE holdLeft
    /\ rcThrottle' = AcceptedThrottle(frame, signal)
    /\ rcSwitches' = AcceptedSwitches(frame, signal)
    /\ IF FlightChannelsValid(frame, signal) THEN FailsafeOnValidDataReceived
                                             ELSE FailsafeOnValidDataFailed
=============================================================================
