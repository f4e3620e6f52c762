------------------------------ MODULE Catapult ------------------------------
(***************************************************************************)
(* flight/catapult.c: the state machine that throws the craft into the air *)
(* by its own motors, one second after it was armed for it.                *)
(*                                                                         *)
(* A stamp is kept as its age, the time passed since: negative while it is *)
(* in the future.  The guidance (position mode, external position and      *)
(* setpoint) is an input that may come and go; fireTime, computed from the *)
(* altitude and the acceleration, is any member of FireTimes.              *)
(***************************************************************************)
EXTENDS RuntimeConfig

CONSTANTS
    CatapultDelay,   \* CATAPULT_DELAY_TIME
    LaunchLimit,     \* CATAPULT_SAFETY_TIME_LIMIT
    RotationTime,    \* rotationTimeUs
    FireTimes        \* what calculateCatapult may store in fireTimeUs

ASSUME CatapultAssumption ==
    /\ CatapultDelay \in Nat \ {0}
    /\ LaunchLimit \in Nat
    /\ RotationTime \in Nat
    /\ FireTimes \subseteq Nat \ {0}

VARIABLES
    catapultState,
    launchAge,       \* since launchTime
    cutoffAge,       \* since cutoffTime
    fireTime,        \* catapultRuntime.fireTimeUs, 0 without a solution
    indiProfile      \* systemConfig()->indiProfileIndex

catapultVars == <<catapultState, launchAge, cutoffAge, fireTime>>

CatapultStates ==
    { "IDLE", "WAITING_FOR_ARM", "DELAY", "LAUNCHING", "ROTATING", "DONE" }

AgeOver(limit) == limit + 1      \* a bound: ages saturate past what they are
                                 \* compared with
CatapultTypeOK ==
    /\ catapultState \in CatapultStates
    /\ launchAge \in -CatapultDelay .. AgeOver(LaunchLimit)
    /\ fireTime \in FireTimes \cup {0}
    /\ cutoffAge \in -fireTime .. AgeOver(RotationTime)
    /\ indiProfile \in {"TUNED", "LEARNED"}

CatapultInit ==
    /\ catapultState = "IDLE"
    /\ launchAge = AgeOver(LaunchLimit)
    /\ cutoffAge = AgeOver(RotationTime)
    /\ fireTime = 0
    /\ indiProfile = "TUNED"

Older(age, limit) == IF age > limit THEN age ELSE age + 1

CatapultTick ==
    /\ launchAge' = Older(launchAge, LaunchLimit)
    /\ cutoffAge' = Older(cutoffAge, RotationTime)
    /\ UNCHANGED <<catapultState, fireTime>>

CatapultMode == "CATAPULT_MODE" \in flightModeFlags

CatapultDisabled(guidance) ==
    ~guidance \/ ~CatapultMode \/ indiProfile = "LEARNED"

(* Mutant of CatapultEnabled: the craft may be armed. *)
CatapultEnabledInFlight(guidance) == ~CatapultDisabled(guidance)

CatapultEnabled(guidance) == ~CatapultDisabled(guidance) /\ ~armed

-----------------------------------------------------------------------------
(* The cases of the switch.  A goto doMore runs the next case in the same   *)
(* pass; where that case can do no more, it is not repeated here.           *)

(* Mutant of Limited: there is no limit. *)
LimitedNever(state, age) == state

(* The check after the switch: a launch is given up when it takes too long. *)
Limited(state, age) ==
    IF state \in {"DELAY", "LAUNCHING", "ROTATING"} /\ age > LaunchLimit
        THEN "DONE" ELSE state

(* calculateCatapult: the fire time, or 0 when the target is out of reach.  *)
CalculateCatapult == FireTimes \cup {0}

CatapultIdle(guidance) ==
    /\ catapultState = "IDLE"
    /\ launchAge' = AgeOver(LaunchLimit)
    /\ cutoffAge' = AgeOver(RotationTime)
    /\ fireTime' \in IF CatapultEnabled(guidance) THEN CalculateCatapult
                                                  ELSE {fireTime}
    /\ catapultState' = IF CatapultEnabled(guidance) /\ fireTime' # 0
                            THEN "WAITING_FOR_ARM" ELSE "IDLE"

CatapultWaiting(guidance) ==
    /\ catapultState = "WAITING_FOR_ARM"
    /\ launchAge' = IF armed THEN -CatapultDelay ELSE launchAge
    /\ catapultState' = IF armed THEN "DELAY"
                        ELSE IF CatapultDisabled(guidance) THEN "IDLE"
                        ELSE "WAITING_FOR_ARM"
    /\ UNCHANGED <<cutoffAge, fireTime>>

(* Mutant of CatapultCountdown: launchTime is set again on every pass. *)
CatapultCountdownAgain ==
    /\ catapultState = "DELAY"
    /\ launchAge' = -CatapultDelay
    /\ UNCHANGED <<catapultState, cutoffAge, fireTime>>

CatapultCountdown ==
    /\ catapultState = "DELAY"
    /\ cutoffAge' = IF launchAge > 0 THEN -fireTime ELSE cutoffAge
    /\ catapultState' =
          Limited(IF launchAge > 0 THEN "LAUNCHING" ELSE "DELAY", launchAge)
    /\ UNCHANGED <<launchAge, fireTime>>

CatapultFiring ==
    /\ catapultState \in {"LAUNCHING", "ROTATING"}
    /\ catapultState' =
          Limited(IF cutoffAge > RotationTime THEN "DONE"
                  ELSE IF catapultState = "LAUNCHING" /\ cutoffAge <= 0
                      THEN "LAUNCHING"
                  ELSE "ROTATING", launchAge)
    /\ UNCHANGED <<launchAge, cutoffAge, fireTime>>

CatapultDone ==
    /\ catapultState = "DONE"
    /\ catapultState' = IF ~armed /\ ~CatapultMode THEN "IDLE" ELSE "DONE"
    /\ UNCHANGED <<launchAge, cutoffAge, fireTime>>

RunCatapultStateMachine(guidance) ==
    \/ CatapultIdle(guidance)
    \/ CatapultWaiting(guidance)
    \/ CatapultCountdown
    \/ CatapultFiring
    \/ CatapultDone
=============================================================================
