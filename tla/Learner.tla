------------------------------- MODULE Learner -------------------------------
(***************************************************************************)
(* flight/learner.c, the query: once the catapult or a throw has brought   *)
(* the craft into the air, each motor in turn gets a step and a ramp while *)
(* the controller is bypassed; what was learned is then applied.  The      *)
(* estimators behind it are not modelled.  Motors are numbered from 1.     *)
(***************************************************************************)
EXTENDS Catapult, Throw, FiniteSetsExt

CONSTANTS
    LearnModes,       \* the values of learnerConfig()->mode, a bit field: what
                      \* a query follows, the catapult, a throw or either
    NumAct,           \* numAct
    StepTime,         \* stepMs
    RampTime,         \* rampMs
    Overlaps,         \* the values of overlapMs
    QueryDelays,      \* the values of delayMs
    Grace,            \* the 10 ms of the safety timeout
    QueryLimit        \* LEARNING_SAFETY_TIME_MAX

Motors == 1..NumAct

QueryTime == StepTime + RampTime      \* of one motor

(* What the timeout allows for a query, the cap apart.                      *)
FullQuery(delay, over) ==
    Grace + delay + NumAct * QueryTime - (NumAct - 1) * over

(* numAct is positive (the code ignores the query otherwise), and the       *)
(* timeout, which the code converts to an unsigned number, is not negative. *)
ASSUME LearnerAssumption ==
    /\ LearnModes \subseteq SUBSET {"CATAPULT", "THROW"}
    /\ NumAct \in Nat \ {0}
    /\ StepTime \in Nat /\ RampTime \in Nat
    /\ Overlaps \subseteq Nat /\ QueryDelays \subseteq Nat
    /\ Grace \in Nat /\ QueryLimit \in Nat
    /\ \A delay \in QueryDelays, over \in Overlaps :
          FullQuery(delay, over) >= 0

VARIABLES
    learningQueryState,
    startAge,        \* since startAt
    timeoutAge,      \* since safetyTimeoutUs
    motorState,      \* motorStates[m].queryState
    motorAge,        \* since motorStates[m].startTime
    learnAfter,      \* c->mode: what a query may follow
    overlap,         \* c->overlapMs
    queryDelay       \* c->delayMs

learnerSettings == <<learnAfter, overlap, queryDelay>>
learnerVars == <<learningQueryState, startAge, timeoutAge, motorState,
                 motorAge, learnerSettings>>

QueryStates ==
    { "IDLE", "WAITING_FOR_LAUNCH", "DELAY", "ACTIVE", "DONE" }

LearnerTypeOK ==
    /\ learningQueryState \in QueryStates
    /\ startAge \in -queryDelay .. 1
    /\ timeoutAge \in -QueryLimit .. 1
    /\ motorState \in [Motors -> {"ZERO", "STEP", "RAMP", "DONE"}]
    /\ motorAge \in [Motors -> 0..AgeOver(QueryTime)]
    /\ learnAfter \in LearnModes
    /\ overlap \in Overlaps
    /\ queryDelay \in QueryDelays

LearnerInit ==
    /\ learningQueryState = "IDLE"
    /\ startAge = 1
    /\ timeoutAge = 1
    /\ motorState = [m \in Motors |-> "ZERO"]
    /\ motorAge = [m \in Motors |-> 0]
    /\ learnAfter \in LearnModes
    /\ overlap \in Overlaps
    /\ queryDelay \in QueryDelays

Started(states) == {m \in Motors : states[m] # "ZERO"}

LearnerTick ==
    /\ startAge' = Older(startAge, 0)
    /\ timeoutAge' = Older(timeoutAge, 0)
    /\ motorAge' = [m \in Motors |-> IF m \in Started(motorState)
                                         THEN Older(motorAge[m], QueryTime)
                                         ELSE 0]
    /\ UNCHANGED <<learningQueryState, motorState, learnerSettings>>

LearnerMode == "LEARNER_MODE" \in flightModeFlags

LearnerDisabled == ~LearnerMode \/ learnAfter = {}

(* To leave IDLE the craft has to be disarmed, to stay out of it not.       *)
AwaitsLaunch ==
    ~LearnerDisabled /\ (learningQueryState = "IDLE" => ~armed)

(* What says that it launched the craft.  The catapult's state is that of   *)
(* the same pass: it runs first.                                            *)
Launchers(catapult) ==
    {launcher \in {"CATAPULT", "THROW"} :
        IF launcher = "CATAPULT" THEN catapult = "DONE"
                                 ELSE throwState = "ARMED_AFTER_THROW"}

Launched(catapult) == Launchers(catapult) \cap learnAfter # {}

(* Mutant of Rearmed: the query is over when the launch is. *)
RearmedAtOnce(catapult) == catapult = "DONE" /\ LearnerDisabled

Rearmed(catapult) ==
    \/ "CATAPULT" \in learnAfter /\ catapult = "WAITING_FOR_ARM"
    \/ "THROW" \in learnAfter /\ throwState = "WAITING_FOR_THROW"

-----------------------------------------------------------------------------
(* Mutant of SafetyTimeout: the limit is missing. *)
SafetyTimeoutUnlimited == FullQuery(queryDelay, overlap)

SafetyTimeout ==
    LET full == FullQuery(queryDelay, overlap)
    IN  IF full < QueryLimit THEN full ELSE QueryLimit

(* Mutant of TimeForNext: the overlap is subtracted. *)
TimeForNextLater(age) == age - overlap > QueryTime

TimeForNext(age) == age + overlap > QueryTime

(* The motors one pass triggers: the one after the last that runs, and all  *)
(* the others in its wake when even a fresh motor is to be overlapped.      *)
Triggered(states, ages) ==
    LET last == Max(Started(states))
    IN  IF ~TimeForNext(ages[last]) THEN {}
        ELSE {m \in Motors : m = last + 1 \/ (m > last /\ TimeForNext(0))}

(* The motors after a pass; those in overrun turned too fast and are done.  *)
NextMotors(states, ages, overrun) ==
    [m \in Motors |->
        IF m \notin Started(states) \cup Triggered(states, ages) THEN "ZERO"
        ELSE IF \/ states[m] = "DONE"
                \/ m \in overrun
                \/ ages[m] > QueryTime THEN "DONE"
        ELSE IF ages[m] > StepTime THEN "RAMP"
        ELSE "STEP"]

-----------------------------------------------------------------------------
(* The cases of the switch, each with the cases a goto doMore runs after it.*)

(* The query begins on the first pass after the launch.                     *)
QueryBegins(catapult) ==
    /\ learningQueryState \in {"IDLE", "WAITING_FOR_LAUNCH"}
    /\ AwaitsLaunch /\ Launched(catapult)
    /\ learningQueryState' = "DELAY"
    /\ startAge' = -queryDelay
    /\ timeoutAge' = -SafetyTimeout
    /\ UNCHANGED <<motorState, motorAge, indiProfile>>

QueryAwaited(catapult) ==
    /\ learningQueryState \in {"IDLE", "WAITING_FOR_LAUNCH"}
    /\ ~(AwaitsLaunch /\ Launched(catapult))
    /\ learningQueryState' = IF AwaitsLaunch THEN "WAITING_FOR_LAUNCH"
                                             ELSE "IDLE"
    /\ UNCHANGED <<startAge, timeoutAge, motorState, motorAge, indiProfile>>

(* Mutant of QueryDelayed: startAt is set again on every pass. *)
QueryDelayedAgain ==
    /\ learningQueryState = "DELAY"
    /\ startAge' = -queryDelay
    /\ UNCHANGED <<learningQueryState, timeoutAge, motorState, motorAge,
                   indiProfile>>

QueryDelayed ==
    /\ learningQueryState = "DELAY"
    /\ startAge <= 0
    /\ UNCHANGED <<learningQueryState, startAge, timeoutAge, motorState,
                   motorAge, indiProfile>>

(* All motors are done, or the time is up: what was learned is applied, if  *)
(* the user wants it, and the case of DONE runs in the same pass.           *)
Applied(catapult) ==
    /\ indiProfile' \in {indiProfile, "LEARNED"}
    /\ learningQueryState' = IF Rearmed(catapult) THEN "IDLE" ELSE "DONE"

(* resetMotorQueryState: the first motor starts and the others are at rest. *)
FreshMotors == [m \in Motors |-> IF m = 1 THEN "STEP" ELSE "ZERO"]

(* A pass over the motors; the end of the delay resets them first.          *)
DriveMotors(states, ages, catapult) ==
    /\ \E overrun \in SUBSET Motors :
          motorState' = NextMotors(states, ages, overrun)
    /\ motorAge' = ages
    /\ IF timeoutAge > 0 \/ \A m \in Motors : motorState'[m] = "DONE"
           THEN Applied(catapult)
           ELSE learningQueryState' = "ACTIVE" /\ UNCHANGED indiProfile
    /\ UNCHANGED <<startAge, timeoutAge>>

QueryStarts(catapult) ==
    /\ learningQueryState = "DELAY"
    /\ startAge > 0
    /\ DriveMotors(FreshMotors, [m \in Motors |-> 0], catapult)

QueryActive(catapult) ==
    /\ learningQueryState = "ACTIVE"
    /\ DriveMotors(motorState, motorAge, catapult)

QueryDone(catapult) ==
    /\ learningQueryState = "DONE"
    /\ learningQueryState' = IF Rearmed(catapult) THEN "IDLE" ELSE "DONE"
    /\ UNCHANGED <<startAge, timeoutAge, motorState, motorAge, indiProfile>>

RunLearningQueryStateMachine(catapult) ==
    /\ \/ QueryBegins(catapult)
       \/ QueryAwaited(catapult)
       \/ QueryDelayed
       \/ QueryStarts(catapult)
       \/ QueryActive(catapult)
       \/ QueryDone(catapult)
    /\ UNCHANGED learnerSettings
=============================================================================
