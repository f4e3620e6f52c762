---------------------------- MODULE LaunchSystem ----------------------------
(***************************************************************************)
(* The catapult and the learner, run one after the other by every pass of  *)
(* the PID loop (flight/indi.c getSetpoints), and what the rest of the     *)
(* firmware does between two passes: it arms, disarms at any moment, moves *)
(* the throw detector on and sets the two modes as the switches say.       *)
(***************************************************************************)
EXTENDS Learner

VARIABLES
    passDone,       \* the PID loop ran since the last tick
    unlearned,      \* history: what launched the craft and a query may follow
                    \* that did not yet
    inFlight        \* history: armed, and not for a launch

(* The countdown, the query's limit and the longest delay the settings      *)
(* allow are one second each.                                               *)
ASSUME LaunchAssumption ==
    /\ QueryLimit <= CatapultDelay
    /\ \A delay \in QueryDelays : delay <= CatapultDelay

launchVars == <<runtimeVars, throwState, catapultVars, learnerVars,
                indiProfile, passDone, unlearned, inFlight>>

LaunchTypeOK ==
    /\ RuntimeTypeOK
    /\ throwState \in ThrowStates
    /\ CatapultTypeOK
    /\ LearnerTypeOK
    /\ passDone \in BOOLEAN
    /\ unlearned \subseteq learnAfter
    /\ inFlight \in BOOLEAN

LaunchInit ==
    /\ armed = FALSE
    /\ armingDisableFlags = {}
    /\ flightModeFlags = {}
    /\ rcModes = {}
    /\ throwState = "IDLE"
    /\ CatapultInit
    /\ LearnerInit
    /\ passDone = FALSE
    /\ unlearned = {}
    /\ inFlight = FALSE

(* The PID loop runs at least once between two ticks, which is the time     *)
(* the grace of the safety timeout allows each motor.                       *)
Tick ==
    /\ passDone
    /\ passDone' = FALSE
    /\ CatapultTick
    /\ LearnerTick
    /\ UNCHANGED <<runtimeVars, throwState, indiProfile, unlearned,
                   inFlight>>

(* History: a countdown begins a launch; a query is that of every launch    *)
(* that is over.                                                            *)
CatapultsSince ==
    IF catapultState = "WAITING_FOR_ARM" /\ catapultState' = "DELAY"
        THEN unlearned \cup ({"CATAPULT"} \cap learnAfter) ELSE unlearned

LearnedInPass ==
    IF learningQueryState # "DELAY" /\ learningQueryState' = "DELAY"
        THEN Launchers(catapultState') ELSE {}

(* getSetpoints: the catapult first, then the learner. *)
PidPass ==
    /\ \E guidance \in BOOLEAN : RunCatapultStateMachine(guidance)
    /\ RunLearningQueryStateMachine(catapultState')
    /\ passDone' = TRUE
    /\ unlearned' = CatapultsSince \ LearnedInPass
    /\ UNCHANGED <<runtimeVars, throwState, inFlight>>

(* updateArmingStatus: CATAPULT_NOT_READY *)
CatapultNotReady == CatapultMode /\ catapultState # "WAITING_FOR_ARM"

(* tryArm, when nothing else inhibits it. *)
Arm ==
    /\ ~armed
    /\ ~CatapultNotReady
    /\ armed' = TRUE
    /\ inFlight' = (catapultState \in {"IDLE", "DONE"})
    /\ UNCHANGED <<armingDisableFlags, flightModeFlags, rcModes, throwState,
                   catapultVars, learnerVars, indiProfile, passDone,
                   unlearned>>

(* By the switch, the failsafe, a crash, a runaway take-off, ... *)
Disarm ==
    /\ armed
    /\ armed' = FALSE
    /\ inFlight' = FALSE
    /\ UNCHANGED <<armingDisableFlags, flightModeFlags, rcModes, throwState,
                   catapultVars, learnerVars, indiProfile, passDone,
                   unlearned>>

(* processRxModes: leaving the learner mode, the craft returns to the tuned *)
(* profile.                                                                 *)
SelectModes ==
    /\ flightModeFlags' \in SUBSET {"CATAPULT_MODE", "LEARNER_MODE"}
    /\ indiProfile' =
          IF LearnerMode /\ "LEARNER_MODE" \notin flightModeFlags' THEN "TUNED"
          ELSE indiProfile
    /\ UNCHANGED <<armed, armingDisableFlags, rcModes, throwState,
                   catapultVars, learnerVars, passDone, unlearned,
                   inFlight>>

(* The accelerometer task, as far as the learner can tell: a throw begins   *)
(* only out of catapult mode, and what lies between waiting for it and      *)
(* THROWN (module Throw) is one step here.                                  *)
ThrowMoves ==
    \/ /\ throwState = "IDLE" /\ ~armed /\ ~CatapultMode
       /\ throwState' = "WAITING_FOR_THROW"
    \/ /\ throwState = "WAITING_FOR_THROW"
       /\ throwState' \in {"IDLE", "THROWN"}
    \/ /\ throwState = "THROWN"
       /\ throwState' = IF armed THEN "ARMED_AFTER_THROW" ELSE "IDLE"
    \/ /\ throwState = "ARMED_AFTER_THROW" /\ ~armed
       /\ throwState' = "IDLE"

(* Where no query follows a throw nothing here looks at throwState: it then *)
(* stays IDLE, for fewer states.                                            *)
ThrowTask ==
    /\ "THROW" \in learnAfter
    /\ ThrowMoves
    /\ unlearned' = IF throwState' = "ARMED_AFTER_THROW"
                         THEN unlearned \cup {"THROW"} ELSE unlearned
    /\ UNCHANGED <<runtimeVars, catapultVars, learnerVars, indiProfile,
                   passDone, inFlight>>

LaunchNext ==
    \/ Tick
    \/ PidPass
    \/ Arm
    \/ Disarm
    \/ SelectModes
    \/ ThrowTask

(* Time passes, and the PID loop runs between two ticks.                    *)
LaunchSpec ==
    LaunchInit /\ [][LaunchNext]_launchVars
               /\ WF_launchVars(Tick) /\ WF_launchVars(~passDone /\ PidPass)

-----------------------------------------------------------------------------
(* Properties. *)

CatapultFires == catapultState \in {"LAUNCHING", "ROTATING"}

QueryRuns == learningQueryState \in {"DELAY", "ACTIVE"}

(* The catapult drives the motors only after the whole countdown and for no *)
(* longer than the safety limit, whatever fire time was computed            *)
(* (CATAPULT_SAFETY_TIME_LIMIT).                                            *)
LaunchWindow ==
    CatapultFires /\ passDone => launchAge \in 1..LaunchLimit

(* A craft armed to fly by hand, with the catapult idle or done, is not     *)
(* launched when the catapult mode is switched on.                          *)
FlyingCraftIsNotLaunched == inFlight => catapultState \in {"IDLE", "DONE"}

(* However fast the craft is armed again, the query of one launch is over   *)
(* before the next launch fires: the countdown of the one is as long as the *)
(* timeout of the other.                                                    *)
LaunchAndQueryApart ==
    learnAfter = {"CATAPULT"} => ~(CatapultFires /\ QueryRuns)

(* The safety timeout allows for the whole query, so it ends by itself with *)
(* every motor done ("if learning is not done, [...] that means error in    *)
(* the state machine"), unless the settings exceed the limit of one second. *)
QueryFitsItsTime ==
    [][(QueryRuns /\ ~QueryRuns' /\ FullQuery(queryDelay, overlap) <= QueryLimit)
          => \A m \in Motors : motorState'[m] = "DONE"]_launchVars

(* One launch, by catapult or by hand, gives one query: what says that it   *)
(* launched the craft has done so since the last query.  Where a query may  *)
(* follow either, this holds of an armed craft alone: once disarmed, what   *)
(* is made ready for the next launch lets the learner wait while the other  *)
(* still speaks of the last.                                                *)
OneQueryPerLaunch ==
    [][~QueryRuns /\ QueryRuns' =>
          \/ Launchers(catapultState') \cap CatapultsSince # {}
          \/ learnAfter = {"CATAPULT", "THROW"} /\ ~armed]_launchVars

(* A countdown once begun comes to its end, and so does a query, though     *)
(* nothing aborts either and the craft may be disarmed meanwhile.           *)
LaunchEnds ==
    /\ []<>(catapultState # "DELAY" /\ ~CatapultFires)
    /\ []<>~QueryRuns
=============================================================================
