---------------------------- MODULE LaunchProofs ----------------------------
(***************************************************************************)
(* Theorems about LaunchSystem for every countdown, limit, fire time,      *)
(* number of motors and learner settings: its type invariant, the window   *)
(* of a launch, the craft that flies already, the queries that are over    *)
(* before the next launch fires, the one query of a launch and the time it *)
(* gets.                                                                   *)
(***************************************************************************)
EXTENDS LaunchSystem, TLAPS

-----------------------------------------------------------------------------
(* Type correctness. *)

LEMMA AgeGrows ==
    ASSUME NEW low \in Int, NEW limit \in Int, low <= limit + 1,
           NEW age \in low .. AgeOver(limit)
    PROVE  Older(age, limit) \in low .. AgeOver(limit)
BY DEF Older, AgeOver

LEMMA OldestInRange ==
    ASSUME NEW ahead \in Nat, NEW limit \in Nat
    PROVE  limit + 1 \in -ahead .. limit + 1
OBVIOUS

LEMMA TimeoutInRange ==
    ASSUME NEW delay \in QueryDelays, NEW over \in Overlaps
    PROVE  FullQuery(delay, over) \in Nat
<1>1. NumAct * QueryTime \in Int /\ (NumAct - 1) * over \in Int
  BY LearnerAssumption DEF QueryTime
<1>2. FullQuery(delay, over) \in Int
  BY <1>1, LearnerAssumption DEF FullQuery
<1> QED
  BY <1>2, LearnerAssumption

LEMMA InitTypeOK == LaunchInit => LaunchTypeOK
<1> SUFFICES ASSUME LaunchInit PROVE LaunchTypeOK
  OBVIOUS
<1> USE DEF LaunchInit
<1>1. RuntimeTypeOK /\ throwState \in ThrowStates
  BY DEF RuntimeTypeOK, ThrowStates
<1>2. CatapultTypeOK
  BY CatapultAssumption DEF CatapultInit, CatapultTypeOK, CatapultStates, AgeOver
<1>3. LearnerTypeOK
  <2>1. startAge \in -queryDelay .. 1 /\ timeoutAge \in -QueryLimit .. 1
    BY LearnerAssumption DEF LearnerInit
  <2>2. motorAge \in [Motors -> 0..AgeOver(QueryTime)]
    <3>1. 0 \in 0..AgeOver(QueryTime)
      BY LearnerAssumption DEF AgeOver, QueryTime
    <3> QED
      BY <3>1 DEF LearnerInit
  <2> QED
    BY <2>1, <2>2 DEF LearnerInit, LearnerTypeOK, QueryStates
<1> QED
  BY <1>1, <1>2, <1>3 DEF LaunchTypeOK

LEMMA TickTypeOK == LaunchTypeOK /\ Tick => LaunchTypeOK'
<1> SUFFICES ASSUME LaunchTypeOK, Tick PROVE LaunchTypeOK'
  OBVIOUS
<1> USE DEF LaunchTypeOK, Tick
<1>1. RuntimeTypeOK' /\ (throwState \in ThrowStates)'
  BY DEF RuntimeTypeOK, runtimeVars
<1>2. CatapultTypeOK'
  <2>1. launchAge' \in -CatapultDelay .. AgeOver(LaunchLimit)
    BY AgeGrows, CatapultAssumption DEF CatapultTick, CatapultTypeOK
  <2>2. fireTime \in Nat
    BY CatapultAssumption DEF CatapultTypeOK
  <2>3. cutoffAge' \in -fireTime .. AgeOver(RotationTime)
    BY <2>2, AgeGrows, CatapultAssumption DEF CatapultTick, CatapultTypeOK
  <2> QED
    BY <2>1, <2>3 DEF CatapultTick, CatapultTypeOK
<1>3. LearnerTypeOK'
  <2> USE DEF LearnerTypeOK
  <2>1. startAge' \in -queryDelay .. 1 /\ timeoutAge' \in -QueryLimit .. 1
    BY LearnerAssumption DEF LearnerTick, Older
  <2>2. motorAge' \in [Motors -> 0..AgeOver(QueryTime)]
    <3>1. QueryTime \in Nat
      BY LearnerAssumption DEF QueryTime
    <3>2. \A age \in 0..AgeOver(QueryTime) :
             Older(age, QueryTime) \in 0..AgeOver(QueryTime)
      BY <3>1 DEF Older, AgeOver
    <3>3. 0 \in 0..AgeOver(QueryTime)
      BY <3>1 DEF AgeOver
    <3> QED
      BY <3>2, <3>3 DEF LearnerTick
  <2> QED
    BY <2>1, <2>2 DEF LearnerTick, learnerSettings
<1>4. (unlearned \subseteq learnAfter)'
  BY DEF LearnerTick, learnerSettings
<1> QED
  BY <1>1, <1>2, <1>3, <1>4

LEMMA CatapultPassTypeOK ==
    ASSUME CatapultTypeOK, NEW guidance \in BOOLEAN,
           RunCatapultStateMachine(guidance), indiProfile' \in {"TUNED", "LEARNED"}
    PROVE  CatapultTypeOK'
<1> USE CatapultAssumption DEF CatapultTypeOK, CatapultStates, AgeOver
<1>1. CASE CatapultIdle(guidance)
  <2>1. fireTime' \in FireTimes \cup {0}
    BY <1>1 DEF CatapultIdle, CalculateCatapult
  <2>2. launchAge' \in -CatapultDelay .. AgeOver(LaunchLimit)
    BY <1>1 DEF CatapultIdle
  <2>3. cutoffAge' \in -fireTime' .. AgeOver(RotationTime)
    <3>1. fireTime' \in Nat
      BY <2>1
    <3>2. cutoffAge' = RotationTime + 1
      BY <1>1 DEF CatapultIdle
    <3> QED
      BY <3>1, <3>2, OldestInRange
  <2>4. catapultState' \in CatapultStates
    BY <1>1 DEF CatapultIdle
  <2> QED
    BY <2>1, <2>2, <2>3, <2>4
<1>2. CASE CatapultWaiting(guidance)
  BY <1>2 DEF CatapultWaiting
<1>3. CASE CatapultCountdown
  BY <1>3 DEF CatapultCountdown, Limited
<1>4. CASE CatapultFiring
  BY <1>4 DEF CatapultFiring, Limited
<1>5. CASE CatapultDone
  BY <1>5 DEF CatapultDone
<1> QED
  BY <1>1, <1>2, <1>3, <1>4, <1>5 DEF RunCatapultStateMachine

LEMMA DriveMotorsTypeOK ==
    ASSUME LearnerTypeOK, NEW catapult, NEW states,
           NEW ages \in [Motors -> 0..AgeOver(QueryTime)],
           indiProfile \in {"TUNED", "LEARNED"},
           DriveMotors(states, ages, catapult), UNCHANGED learnerSettings
    PROVE  LearnerTypeOK' /\ indiProfile' \in {"TUNED", "LEARNED"}
<1>1. motorState' \in [Motors -> {"ZERO", "STEP", "RAMP", "DONE"}]
  BY DEF DriveMotors, NextMotors
<1>2. learningQueryState' \in QueryStates /\ indiProfile' \in {"TUNED", "LEARNED"}
  BY DEF DriveMotors, Applied, QueryStates
<1> QED
  BY <1>1, <1>2 DEF DriveMotors, LearnerTypeOK, learnerSettings

LEMMA LearnerPassTypeOK ==
    ASSUME LearnerTypeOK, indiProfile \in {"TUNED", "LEARNED"}, NEW catapult,
           RunLearningQueryStateMachine(catapult)
    PROVE  LearnerTypeOK' /\ indiProfile' \in {"TUNED", "LEARNED"}
<1> USE DEF RunLearningQueryStateMachine
<1>1. CASE QueryBegins(catapult)
  <2>1. startAge' \in -queryDelay .. 1
    BY <1>1, LearnerAssumption DEF QueryBegins, LearnerTypeOK
  <2>2. timeoutAge' \in -QueryLimit .. 1
    <3>1. FullQuery(queryDelay, overlap) \in Nat
      BY TimeoutInRange DEF LearnerTypeOK
    <3> QED
      BY <1>1, <3>1, LearnerAssumption DEF QueryBegins, SafetyTimeout
  <2> QED
    BY <1>1, <2>1, <2>2 DEF QueryBegins, LearnerTypeOK, QueryStates,
       learnerSettings
<1>2. CASE QueryAwaited(catapult) \/ QueryDelayed \/ QueryDone(catapult)
  BY <1>2 DEF QueryAwaited, QueryDelayed, QueryDone, LearnerTypeOK, QueryStates,
     learnerSettings
<1>3. CASE QueryStarts(catapult)
  <2>1. [m \in Motors |-> 0] \in [Motors -> 0..AgeOver(QueryTime)]
    BY LearnerAssumption DEF AgeOver, QueryTime
  <2> QED
    BY <1>3, <2>1, DriveMotorsTypeOK DEF QueryStarts
<1>4. CASE QueryActive(catapult)
  BY <1>4, DriveMotorsTypeOK DEF QueryActive, LearnerTypeOK
<1> QED
  BY <1>1, <1>2, <1>3, <1>4

LEMMA StepTypeOK == LaunchTypeOK /\ [LaunchNext]_launchVars => LaunchTypeOK'
<1> SUFFICES ASSUME LaunchTypeOK, [LaunchNext]_launchVars PROVE LaunchTypeOK'
  OBVIOUS
<1>1. CASE Tick
  BY <1>1, TickTypeOK
<1>2. CASE PidPass
  <2> USE DEF LaunchTypeOK
  <2>1. LearnerTypeOK' /\ indiProfile' \in {"TUNED", "LEARNED"}
    BY <1>2, LearnerPassTypeOK DEF PidPass, CatapultTypeOK
  <2>2. CatapultTypeOK'
    BY <1>2, <2>1, CatapultPassTypeOK DEF PidPass
  <2>3. RuntimeTypeOK' /\ (throwState \in ThrowStates)'
    BY <1>2 DEF PidPass, RuntimeTypeOK, runtimeVars
  <2>4. passDone' \in BOOLEAN /\ inFlight' \in BOOLEAN
    BY <1>2 DEF PidPass
  <2>5. unlearned' \subseteq learnAfter'
    BY <1>2 DEF PidPass, RunLearningQueryStateMachine, learnerSettings,
       CatapultsSince
  <2> QED
    BY <2>1, <2>2, <2>3, <2>4, <2>5
<1>3. CASE Arm \/ Disarm \/ SelectModes \/ ThrowTask \/ UNCHANGED launchVars
  <2>5. inFlight' \in BOOLEAN
    <3>1. CASE Arm
      <4>1. CASE catapultState \in {"IDLE", "DONE"}
        BY <3>1, <4>1 DEF Arm
      <4>2. CASE catapultState \notin {"IDLE", "DONE"}
        BY <3>1, <4>2 DEF Arm
      <4> QED
        BY <4>1, <4>2
    <3>2. CASE Disarm \/ SelectModes \/ ThrowTask \/ UNCHANGED launchVars
      BY <3>2 DEF Disarm, SelectModes, ThrowTask, launchVars, LaunchTypeOK
    <3> QED
      BY <1>3, <3>1, <3>2
  <2> USE <1>3 DEF LaunchTypeOK, Arm, Disarm, SelectModes, ThrowTask, launchVars,
                   catapultVars, learnerVars, learnerSettings, runtimeVars
  <2>1. RuntimeTypeOK'
    BY DEF RuntimeTypeOK, FlightModes
  <2>2. CatapultTypeOK' /\ LearnerTypeOK'
    BY DEF CatapultTypeOK, LearnerTypeOK
  <2>3. throwState' \in ThrowStates
    BY DEF ThrowMoves, ThrowStates
  <2>4. passDone' \in BOOLEAN /\ unlearned' \subseteq learnAfter'
    OBVIOUS
  <2> QED
    BY <2>1, <2>2, <2>3, <2>4, <2>5
<1> QED
  BY <1>1, <1>2, <1>3 DEF LaunchNext

(* Every reachable state of the catapult, the learner and their environment *)
(* is well typed.                                                           *)
THEOREM LaunchTypeCorrect == LaunchSpec => []LaunchTypeOK
  BY InitTypeOK, StepTypeOK, PTL DEF LaunchSpec

(* What the environment leaves alone.                                       *)
LEMMA EnvironmentStep ==
    ASSUME Arm \/ Disarm \/ SelectModes \/ ThrowTask \/ UNCHANGED launchVars
    PROVE  UNCHANGED <<catapultVars, learnerVars, passDone>>
BY DEF Arm, Disarm, SelectModes, ThrowTask, launchVars

-----------------------------------------------------------------------------
(* The window of a launch.  LaunchWindow says nothing between a tick and    *)
(* the next pass; that the countdown is over holds there too.               *)

WindowInv ==
    CatapultFires => launchAge >= 1 /\ (passDone => launchAge <= LaunchLimit)

LEMMA WindowStep ==
    LaunchTypeOK /\ WindowInv /\ [LaunchNext]_launchVars => WindowInv'
<1> SUFFICES ASSUME LaunchTypeOK, WindowInv, [LaunchNext]_launchVars
             PROVE  WindowInv'
  OBVIOUS
<1>1. launchAge \in Int
  BY CatapultAssumption DEF LaunchTypeOK, CatapultTypeOK, AgeOver
<1> USE <1>1, CatapultAssumption DEF WindowInv, CatapultFires
<1>2. CASE Tick
  BY <1>2 DEF Tick, CatapultTick, Older
<1>3. CASE PidPass
  <2> PICK guidance \in BOOLEAN : RunCatapultStateMachine(guidance)
    BY <1>3 DEF PidPass
  <2>1. CASE CatapultIdle(guidance) \/ CatapultWaiting(guidance) \/ CatapultDone
    BY <2>1 DEF CatapultIdle, CatapultWaiting, CatapultDone
  <2>2. CASE CatapultCountdown
    BY <2>2 DEF CatapultCountdown, Limited
  <2>3. CASE CatapultFiring
    BY <2>3 DEF CatapultFiring, Limited
  <2> QED
    BY <2>1, <2>2, <2>3 DEF RunCatapultStateMachine
<1>4. CASE Arm \/ Disarm \/ SelectModes \/ ThrowTask \/ UNCHANGED launchVars
  BY <1>4, EnvironmentStep DEF catapultVars
<1> QED
  BY <1>2, <1>3, <1>4 DEF LaunchNext

(* The catapult drives the motors only after the countdown and never for    *)
(* longer than the safety limit, whatever the fire time.                    *)
THEOREM LaunchKeepsWindow == LaunchSpec => []LaunchWindow
<1>1. LaunchInit => WindowInv
  BY DEF LaunchInit, CatapultInit, WindowInv, CatapultFires
<1>2. LaunchTypeOK /\ WindowInv => LaunchWindow
  BY CatapultAssumption
     DEF LaunchTypeOK, CatapultTypeOK, WindowInv, LaunchWindow, AgeOver
<1> QED
  BY <1>1, <1>2, WindowStep, LaunchTypeCorrect, PTL DEF LaunchSpec

-----------------------------------------------------------------------------
(* The craft that flies already. *)

FlightInv == inFlight => armed /\ catapultState \in {"IDLE", "DONE"}

LEMMA FlightStep == FlightInv /\ [LaunchNext]_launchVars => FlightInv'
<1> SUFFICES ASSUME FlightInv, [LaunchNext]_launchVars PROVE FlightInv'
  OBVIOUS
<1> USE DEF FlightInv
<1>1. CASE Tick
  BY <1>1 DEF Tick, CatapultTick, runtimeVars
<1>2. CASE PidPass
  <2> PICK guidance \in BOOLEAN : RunCatapultStateMachine(guidance)
    BY <1>2 DEF PidPass
  <2>1. UNCHANGED <<armed, inFlight>>
    BY <1>2 DEF PidPass, runtimeVars
  <2>2. CASE inFlight
    BY <2>1, <2>2 DEF RunCatapultStateMachine, CatapultIdle, CatapultEnabled,
       CatapultWaiting, CatapultCountdown, CatapultFiring, CatapultDone
  <2> QED
    BY <2>1, <2>2
<1>3. CASE Arm
  BY <1>3 DEF Arm, catapultVars
<1>4. CASE Disarm
  BY <1>4 DEF Disarm
<1>5. CASE SelectModes \/ ThrowTask \/ UNCHANGED launchVars
  BY <1>5 DEF SelectModes, ThrowTask, launchVars, runtimeVars, catapultVars
<1> QED
  BY <1>1, <1>2, <1>3, <1>4, <1>5 DEF LaunchNext

(* A craft armed with the catapult idle or done is not launched before it   *)
(* was disarmed, whatever modes are switched on.                            *)
THEOREM FlyingCraftIsSafe == LaunchSpec => []FlyingCraftIsNotLaunched
<1>1. LaunchInit => FlightInv
  BY DEF LaunchInit, FlightInv
<1>2. FlightInv => FlyingCraftIsNotLaunched
  BY DEF FlightInv, FlyingCraftIsNotLaunched
<1> QED
  BY <1>1, <1>2, FlightStep, PTL DEF LaunchSpec

-----------------------------------------------------------------------------
(* The query and the next launch.  A query that still runs during a         *)
(* countdown began before it, so its timeout and its start are reached no   *)
(* later than the end of the countdown.                                     *)

CountdownBound ==
    catapultState = "DELAY" => launchAge <= IF passDone THEN 0 ELSE 1

QueryIsOlder ==
    catapultState = "DELAY" /\ QueryRuns
        => /\ launchAge <= timeoutAge
           /\ learningQueryState = "DELAY" => launchAge <= startAge

ApartInv ==
    /\ CountdownBound
    /\ learnAfter = {"CATAPULT"} => QueryIsOlder
    /\ LaunchAndQueryApart

(* The clocks of a query cannot lie further ahead than a whole countdown.   *)
LEMMA QueryClocks ==
    ASSUME LaunchTypeOK
    PROVE  /\ launchAge \in Int
           /\ timeoutAge \in Int /\ -CatapultDelay <= timeoutAge
           /\ startAge \in Int /\ -CatapultDelay <= startAge
<1>1. launchAge \in Int
  BY CatapultAssumption DEF LaunchTypeOK, CatapultTypeOK, AgeOver
<1>2. timeoutAge \in Int /\ -CatapultDelay <= timeoutAge
  BY CatapultAssumption, LearnerAssumption, LaunchAssumption
     DEF LaunchTypeOK, LearnerTypeOK
<1>3. startAge \in Int /\ -CatapultDelay <= startAge
  BY CatapultAssumption, LearnerAssumption, LaunchAssumption
     DEF LaunchTypeOK, LearnerTypeOK
<1> QED
  BY <1>1, <1>2, <1>3

(* A query that goes on through a pass has its time still ahead.            *)
LEMMA QueryGoesOn ==
    ASSUME NEW catapult, RunLearningQueryStateMachine(catapult),
           QueryRuns, QueryRuns'
    PROVE  /\ UNCHANGED <<startAge, timeoutAge, learnAfter>>
           /\ learningQueryState = "DELAY" => startAge <= 0 \/ ~(timeoutAge > 0)
           /\ learningQueryState = "ACTIVE" => ~(timeoutAge > 0)
           /\ learningQueryState' = "DELAY" => learningQueryState = "DELAY"
<1>1. learningQueryState \in {"DELAY", "ACTIVE"}
      /\ learningQueryState' \in {"DELAY", "ACTIVE"}
  BY DEF QueryRuns
<1> USE <1>1 DEF RunLearningQueryStateMachine, learnerSettings
<1>2. CASE QueryBegins(catapult) \/ QueryAwaited(catapult) \/ QueryDone(catapult)
  BY <1>2 DEF QueryBegins, QueryAwaited, QueryDone
<1>3. CASE QueryDelayed
  BY <1>3 DEF QueryDelayed
<1>4. CASE QueryStarts(catapult) \/ QueryActive(catapult)
  BY <1>4 DEF QueryStarts, QueryActive, DriveMotors, Applied
<1> QED
  BY <1>2, <1>3, <1>4

LEMMA ApartPass == LaunchTypeOK /\ ApartInv /\ PidPass => ApartInv'
<1> SUFFICES ASSUME LaunchTypeOK, ApartInv, PidPass PROVE ApartInv'
  OBVIOUS
<1> PICK guidance \in BOOLEAN : RunCatapultStateMachine(guidance)
  BY DEF PidPass
<1>1. RunLearningQueryStateMachine(catapultState') /\ passDone' = TRUE
  BY DEF PidPass
<1>2. UNCHANGED learnAfter
  BY <1>1 DEF RunLearningQueryStateMachine, learnerSettings
<1> USE CatapultAssumption, QueryClocks
<1>3. CountdownBound'
  BY <1>1 DEF CountdownBound, RunCatapultStateMachine, CatapultIdle,
     CatapultWaiting, CatapultCountdown, CatapultFiring, CatapultDone, Limited
<1>4. ASSUME learnAfter = {"CATAPULT"}, QueryRuns', ~QueryRuns
      PROVE  catapultState' = "DONE"
  BY <1>1, <1>4 DEF RunLearningQueryStateMachine, QueryRuns, QueryBegins,
     Launched, Launchers, QueryAwaited, QueryDelayed, QueryStarts, QueryActive,
     QueryDone
<1>5. ASSUME learnAfter = {"CATAPULT"}, QueryRuns', QueryRuns
      PROVE  QueryIsOlder' /\ ~CatapultFires'
  <2>1. QueryIsOlder /\ ~CatapultFires
    BY <1>5 DEF ApartInv, LaunchAndQueryApart
  <2>2. UNCHANGED <<startAge, timeoutAge>>
    BY <1>1, <1>5, QueryGoesOn
  <2>3. learningQueryState' = "DELAY" => learningQueryState = "DELAY"
    BY <1>1, <1>5, QueryGoesOn
  <2>4. startAge <= 0 \/ ~(timeoutAge > 0)
    BY <1>1, <1>5, QueryGoesOn DEF QueryRuns
  <2>5. learningQueryState = "ACTIVE" => ~(timeoutAge > 0)
    BY <1>1, <1>5, QueryGoesOn
  <2>6. catapultState = "DELAY" => ~(launchAge > 0)
    BY <1>5, <2>1, <2>4, <2>5 DEF QueryIsOlder, QueryRuns
  <2>7. ~CatapultFires'
    BY <2>1, <2>6 DEF CatapultFires, RunCatapultStateMachine, CatapultIdle,
       CatapultWaiting, CatapultCountdown, CatapultFiring, CatapultDone, Limited
  <2>8. CASE catapultState = "DELAY"
    BY <1>5, <2>1, <2>2, <2>3, <2>7, <2>8 DEF QueryIsOlder, RunCatapultStateMachine,
       CatapultIdle, CatapultWaiting, CatapultCountdown, CatapultFiring,
       CatapultDone
  <2>9. CASE catapultState # "DELAY"
    <3>1. catapultState' = "DELAY" => launchAge' = -CatapultDelay
      BY <2>9 DEF RunCatapultStateMachine, CatapultIdle, CatapultWaiting,
         CatapultCountdown, CatapultFiring, CatapultDone, Limited
    <3> QED
      BY <2>2, <2>7, <3>1 DEF QueryIsOlder
  <2> QED
    BY <2>8, <2>9
<1>6. learnAfter = {"CATAPULT"} => QueryIsOlder' /\ ~(CatapultFires' /\ QueryRuns')
  BY <1>4, <1>5 DEF QueryIsOlder, CatapultFires
<1> QED
  BY <1>2, <1>3, <1>6 DEF ApartInv, LaunchAndQueryApart

LEMMA ApartStep ==
    LaunchTypeOK /\ ApartInv /\ [LaunchNext]_launchVars => ApartInv'
<1> SUFFICES ASSUME LaunchTypeOK, ApartInv, [LaunchNext]_launchVars
             PROVE  ApartInv'
  OBVIOUS
<1>1. CASE Tick
  <2> USE <1>1, QueryClocks, CatapultAssumption
          DEF Tick, CatapultTick, LearnerTick, learnerSettings, ApartInv
  <2>1. CountdownBound'
    BY DEF CountdownBound, Older
  <2>2. learnAfter = {"CATAPULT"} => QueryIsOlder'
    BY DEF CountdownBound, QueryIsOlder, QueryRuns, Older
  <2>3. LaunchAndQueryApart'
    BY DEF LaunchAndQueryApart, CatapultFires, QueryRuns
  <2> QED
    BY <2>1, <2>2, <2>3
<1>2. CASE PidPass
  BY <1>2, ApartPass
<1>3. CASE Arm \/ Disarm \/ SelectModes \/ ThrowTask \/ UNCHANGED launchVars
  BY <1>3, EnvironmentStep DEF catapultVars, learnerVars, learnerSettings,
     ApartInv, CountdownBound, QueryIsOlder, QueryRuns, LaunchAndQueryApart,
     CatapultFires
<1> QED
  BY <1>1, <1>2, <1>3 DEF LaunchNext

(* A query that follows the catapult is over before the next launch fires.  *)
THEOREM LaunchAfterQuery == LaunchSpec => []LaunchAndQueryApart
<1>1. LaunchInit => ApartInv
  BY DEF LaunchInit, CatapultInit, LearnerInit, ApartInv, CountdownBound,
     QueryIsOlder, LaunchAndQueryApart, CatapultFires
<1>2. ApartInv => LaunchAndQueryApart
  BY DEF ApartInv
<1> QED
  BY <1>1, <1>2, ApartStep, LaunchTypeCorrect, PTL DEF LaunchSpec

-----------------------------------------------------------------------------
(* One query per launch.  What is about to launch the craft has a query to  *)
(* come, and so has what launched it while the learner waits for it; a      *)
(* learner in IDLE may have gone there for the launch of another.           *)

QueryIsWaited == learningQueryState \in {"IDLE", "WAITING_FOR_LAUNCH"}

EitherLaunches == learnAfter = {"CATAPULT", "THROW"}

OnceInv ==
    /\ catapultState \in {"DELAY", "LAUNCHING", "ROTATING"}
           => {"CATAPULT"} \cap learnAfter \subseteq unlearned
    /\ QueryIsWaited /\ ~(EitherLaunches /\ learningQueryState = "IDLE")
           => Launchers(catapultState) \cap learnAfter \subseteq unlearned

(* A query begins only behind a launch and out of IDLE only in a disarmed   *)
(* craft; it is awaited again when a launch is being made ready, and the    *)
(* learner waits behind no launch that is over.                             *)
LEMMA QueryTurns ==
    ASSUME NEW catapult, RunLearningQueryStateMachine(catapult)
    PROVE  /\ UNCHANGED learnAfter
           /\ learningQueryState # "DELAY" /\ learningQueryState' = "DELAY"
                  => QueryIsWaited /\ Launched(catapult)
           /\ ~QueryRuns /\ QueryRuns'
                  => /\ QueryIsWaited /\ Launched(catapult)
                     /\ learningQueryState = "IDLE" => ~armed
           /\ ~QueryIsWaited /\ QueryIsWaited'
                  => Rearmed(catapult) /\ learningQueryState' = "IDLE"
           /\ learningQueryState' = "WAITING_FOR_LAUNCH" => ~Launched(catapult)
<1> USE DEF RunLearningQueryStateMachine, QueryRuns, QueryIsWaited,
        learnerSettings
<1>1. CASE QueryBegins(catapult)
  BY <1>1 DEF QueryBegins, AwaitsLaunch
<1>2. CASE QueryAwaited(catapult)
  BY <1>2 DEF QueryAwaited
<1>3. CASE QueryDelayed
  BY <1>3 DEF QueryDelayed
<1>4. CASE QueryStarts(catapult) \/ QueryActive(catapult)
  BY <1>4 DEF QueryStarts, QueryActive, DriveMotors, Applied
<1>5. CASE QueryDone(catapult)
  BY <1>5 DEF QueryDone
<1> QED
  BY <1>1, <1>2, <1>3, <1>4, <1>5

(* A catapult that is launching or done after a pass was so before or has   *)
(* just begun; in this case it counts as a launch.                          *)
LEMMA CatapultTurns ==
    ASSUME NEW guidance \in BOOLEAN, RunCatapultStateMachine(guidance)
    PROVE  /\ catapultState' \in {"DELAY", "LAUNCHING", "ROTATING"}
                  => \/ catapultState \in {"DELAY", "LAUNCHING", "ROTATING"}
                     \/ /\ catapultState = "WAITING_FOR_ARM"
                        /\ catapultState' = "DELAY"
           /\ catapultState' = "DONE"
                  => catapultState \in {"DELAY", "LAUNCHING", "ROTATING", "DONE"}
BY DEF RunCatapultStateMachine, CatapultIdle, CatapultWaiting,
   CatapultCountdown, CatapultFiring, CatapultDone, Limited

LEMMA OncePass == LaunchTypeOK /\ OnceInv /\ PidPass => OnceInv'
<1> SUFFICES ASSUME LaunchTypeOK, OnceInv, PidPass PROVE OnceInv'
  OBVIOUS
<1> PICK guidance \in BOOLEAN : RunCatapultStateMachine(guidance)
  BY DEF PidPass
<1>1. /\ RunLearningQueryStateMachine(catapultState')
      /\ UNCHANGED throwState
      /\ unlearned' = CatapultsSince \ LearnedInPass
  BY DEF PidPass
<1>2. UNCHANGED learnAfter
  BY <1>1, QueryTurns
<1>3. Launchers(catapultState)' = Launchers(catapultState')
  BY <1>1 DEF Launchers
<1>4. ASSUME catapultState' \in {"DELAY", "LAUNCHING", "ROTATING"}
      PROVE  {"CATAPULT"} \cap learnAfter \subseteq unlearned'
  <2>1. {"CATAPULT"} \cap learnAfter \subseteq CatapultsSince
    BY <1>4, CatapultTurns DEF OnceInv, CatapultsSince
  <2>2. "CATAPULT" \notin LearnedInPass
    BY <1>4 DEF LearnedInPass, Launchers
  <2> QED
    BY <1>1, <2>1, <2>2
<1>5. ASSUME QueryIsWaited', ~(EitherLaunches /\ learningQueryState = "IDLE")'
      PROVE  Launchers(catapultState') \cap learnAfter \subseteq unlearned'
  <2>1. LearnedInPass = {}
    BY <1>5 DEF LearnedInPass, QueryIsWaited
  <2>2. CASE learningQueryState' = "WAITING_FOR_LAUNCH"
    BY <1>1, <2>2, QueryTurns DEF Launched
  <2>3. CASE learningQueryState' = "IDLE" /\ QueryIsWaited
    <3>1. Launchers(catapultState) \cap learnAfter \subseteq unlearned
      BY <1>2, <1>5, <2>3 DEF OnceInv, EitherLaunches
    <3>2. unlearned \subseteq CatapultsSince
      BY DEF CatapultsSince
    <3>3. "CATAPULT" \in Launchers(catapultState') \cap learnAfter
              => "CATAPULT" \in unlearned
      BY <3>1, CatapultTurns DEF OnceInv, Launchers
    <3>4. "THROW" \in Launchers(catapultState')
              => "THROW" \in Launchers(catapultState)
      BY DEF Launchers
    <3> QED
      BY <1>1, <2>1, <3>1, <3>2, <3>3, <3>4 DEF Launchers
  <2>4. CASE learningQueryState' = "IDLE" /\ ~QueryIsWaited
    <3>1. Rearmed(catapultState') /\ ~EitherLaunches
      BY <1>1, <1>2, <1>5, <2>4, QueryTurns DEF EitherLaunches
    <3>2. learnAfter \subseteq {"CATAPULT", "THROW"}
      BY LearnerAssumption DEF LaunchTypeOK, LearnerTypeOK
    <3> QED
      BY <3>1, <3>2 DEF Rearmed, Launchers, EitherLaunches
  <2> QED
    BY <1>5, <2>2, <2>3, <2>4 DEF QueryIsWaited
<1> QED
  BY <1>2, <1>3, <1>4, <1>5 DEF OnceInv

LEMMA OnceStep == LaunchTypeOK /\ OnceInv /\ [LaunchNext]_launchVars => OnceInv'
<1> SUFFICES ASSUME LaunchTypeOK, OnceInv, [LaunchNext]_launchVars PROVE OnceInv'
  OBVIOUS
<1> USE DEF OnceInv, QueryIsWaited, EitherLaunches, Launchers
<1>1. CASE PidPass
  BY <1>1, OncePass
<1>2. CASE Tick
  BY <1>2 DEF Tick, CatapultTick, LearnerTick, learnerSettings
<1>3. CASE ThrowTask
  BY <1>3 DEF ThrowTask, catapultVars, learnerVars, learnerSettings
<1>4. CASE Arm \/ Disarm \/ SelectModes \/ UNCHANGED launchVars
  BY <1>4 DEF Arm, Disarm, SelectModes, launchVars, catapultVars, learnerVars,
     learnerSettings
<1> QED
  BY <1>1, <1>2, <1>3, <1>4 DEF LaunchNext

(* One launch gives one query, for every choice of the launches a query     *)
(* follows, every number of motors and every time; where it follows either, *)
(* of a craft that is armed.                                                *)
THEOREM LaunchGivesOneQuery == LaunchSpec => OneQueryPerLaunch
<1> DEFINE Once == ~QueryRuns /\ QueryRuns' =>
                       \/ Launchers(catapultState') \cap CatapultsSince # {}
                       \/ learnAfter = {"CATAPULT", "THROW"} /\ ~armed
<1>1. LaunchInit => OnceInv
  BY DEF LaunchInit, CatapultInit, OnceInv, Launchers
<1>2. LaunchTypeOK /\ OnceInv /\ [LaunchNext]_launchVars => [Once]_launchVars
  <2> SUFFICES ASSUME LaunchTypeOK, OnceInv, LaunchNext, ~QueryRuns, QueryRuns',
                      ~(EitherLaunches /\ ~armed)
               PROVE  Launchers(catapultState') \cap CatapultsSince # {}
    BY DEF EitherLaunches
  <2>1. CASE PidPass
    <3> PICK guidance \in BOOLEAN : RunCatapultStateMachine(guidance)
      BY <2>1 DEF PidPass
    <3>1. /\ QueryIsWaited /\ Launched(catapultState')
          /\ learningQueryState = "IDLE" => ~armed
      BY <2>1, QueryTurns DEF PidPass
    <3>2. Launchers(catapultState) \cap learnAfter \subseteq unlearned
      BY <3>1 DEF OnceInv
    <3>3. PICK launcher \in Launchers(catapultState') : launcher \in learnAfter
      BY <3>1 DEF Launched
    <3>4. launcher \in unlearned
      <4>1. CASE launcher = "CATAPULT"
        BY <3>2, <3>3, <4>1, CatapultTurns DEF OnceInv, Launchers
      <4>2. CASE launcher = "THROW"
        BY <3>2, <3>3, <4>2 DEF Launchers
      <4> QED
        BY <3>3, <4>1, <4>2 DEF Launchers
    <3> QED
      BY <3>3, <3>4 DEF CatapultsSince
  <2>2. CASE Tick
    BY <2>2 DEF Tick, LearnerTick, QueryRuns
  <2>3. CASE Arm \/ Disarm \/ SelectModes \/ ThrowTask
    BY <2>3, EnvironmentStep DEF learnerVars, QueryRuns
  <2> QED
    BY <2>1, <2>2, <2>3 DEF LaunchNext
<1> QED
  BY <1>1, <1>2, OnceStep, LaunchTypeCorrect, PTL
     DEF LaunchSpec, OneQueryPerLaunch

-----------------------------------------------------------------------------
(* The time of a query.  Each motor starts when the one before it has run   *)
(* for all but the overlap, or at the first pass after, which is less than  *)
(* a tick late; the last one ends likewise.  The grace makes up for that.   *)

Gap == QueryTime - overlap     \* from the start of a motor to the next

(* From the start of the first motor to the end of the last, at the latest, *)
(* when motor last has just started.                                        *)
Ahead(last) == (NumAct - last) * (Gap + 1) + QueryTime + 1

Late(time) == IF passDone THEN time ELSE time + 1

(* The motors up to last have started, in this order; last is not late; the *)
(* rest of the query fits into what is left of its time.                    *)
OnTime(last) ==
    /\ \A m \in Motors : motorState[m] = "ZERO" <=> m > last
    /\ \A m \in Motors : m > last => motorAge[m] = 0
    /\ \A m \in Motors : m <= last => motorAge[m] >= motorAge[last]
    /\ motorAge[last] <= Late(IF last < NumAct THEN Gap ELSE QueryTime)
    /\ timeoutAge + Ahead(last) <= motorAge[last]

Fits == FullQuery(queryDelay, overlap) <= QueryLimit

TimeInv ==
    Fits =>
        /\ learningQueryState = "DELAY"
               => /\ timeoutAge + FullQuery(0, overlap) = startAge
                  /\ startAge <= Late(0)
        /\ learningQueryState = "ACTIVE" => \E last \in Motors : OnTime(last)

LEMMA OneLess ==
    ASSUME NEW n \in Int, NEW gap \in Int
    PROVE  (n - 1) * gap = n * gap - gap
OBVIOUS

LEMMA NotNegative ==
    ASSUME NEW n \in Nat, NEW gap \in Nat
    PROVE  n * gap \in Nat
OBVIOUS

LEMMA AheadOf ==
    ASSUME LaunchTypeOK, overlap <= QueryTime, NEW last \in Motors
    PROVE  /\ Ahead(last) \in Int
           /\ Ahead(last) >= QueryTime + 1
           /\ last < NumAct => Ahead(last + 1) = Ahead(last) - (Gap + 1)
<1>1. /\ QueryTime \in Nat /\ Gap \in Nat
      /\ NumAct \in Nat /\ last \in Int /\ NumAct - last \in Nat
  BY LearnerAssumption DEF LaunchTypeOK, LearnerTypeOK, QueryTime, Gap, Motors
<1>2. (NumAct - last) * (Gap + 1) \in Nat
  BY <1>1, NotNegative
<1>3. (NumAct - last - 1) * (Gap + 1)
          = (NumAct - last) * (Gap + 1) - (Gap + 1)
  BY <1>1, OneLess
<1>4. NumAct - (last + 1) = NumAct - last - 1
  BY <1>1
<1> QED
  BY <1>1, <1>2, <1>3, <1>4 DEF Ahead

(* The time a query gets, its delay apart.                                  *)
LEMMA WholeQuery ==
    ASSUME LaunchTypeOK, overlap <= QueryTime
    PROVE  /\ FullQuery(0, overlap) = Ahead(1) + Grace - NumAct
           /\ FullQuery(queryDelay, overlap) = queryDelay + FullQuery(0, overlap)
<1>1. /\ QueryTime \in Nat /\ Gap \in Nat /\ overlap \in Nat
      /\ NumAct \in Nat /\ Grace \in Nat /\ queryDelay \in Nat
  BY LearnerAssumption DEF LaunchTypeOK, LearnerTypeOK, QueryTime, Gap
<1>2. Gap = QueryTime - overlap
  BY DEF Gap
<1> DEFINE n == NumAct - 1
<1>3. (NumAct - 1) * (Gap + 1) = n * QueryTime - n * overlap + n
  BY <1>1, <1>2
<1>4. NumAct * QueryTime = n * QueryTime + QueryTime
  BY <1>1
<1>5. n * QueryTime \in Int /\ n * overlap \in Int /\ NumAct * QueryTime \in Int
  BY <1>1
<1> QED
  BY <1>1, <1>3, <1>4, <1>5 DEF FullQuery, Ahead

LEMMA LastStarted ==
    ASSUME NEW states, NEW last \in Motors,
           \A m \in Motors : states[m] = "ZERO" <=> m > last
    PROVE  Started(states) = 1..last /\ Max(Started(states)) = last
<1>1. Started(states) = 1..last
  BY LearnerAssumption DEF Started, Motors
<1>2. last \in 1..last /\ \A m \in 1..last : last >= m
  BY LearnerAssumption DEF Motors
<1>3. ASSUME NEW max \in 1..last, \A m \in 1..last : max >= m PROVE max = last
  BY <1>2, <1>3 DEF Motors
<1> QED
  BY <1>1, <1>2, <1>3 DEF Max

(* A pass over the motors starts the next one in time, or finds them all    *)
(* done; it never finds the time up.                                        *)
LEMMA Driven ==
    ASSUME LaunchTypeOK, overlap <= QueryTime, NEW catapult,
           NEW states, NEW ages \in [Motors -> Nat], NEW last \in Motors,
           DriveMotors(states, ages, catapult),
           \A m \in Motors : states[m] = "ZERO" <=> m > last,
           \A m \in Motors : m > last => ages[m] = 0,
           \A m \in Motors : m <= last => ages[m] >= ages[last],
           ages[last] <= (IF last < NumAct THEN Gap ELSE QueryTime) + 1,
           timeoutAge + Ahead(last) <= ages[last],
           UNCHANGED learnerSettings, passDone' = TRUE
    PROVE  \/ \A m \in Motors : motorState'[m] = "DONE"
           \/ learningQueryState' = "ACTIVE" /\ \E new \in Motors : OnTime(new)'
<1>1. /\ QueryTime \in Nat /\ Gap \in Nat /\ Gap <= QueryTime
      /\ NumAct \in Nat /\ last \in 1..NumAct /\ timeoutAge \in Int
      /\ Gap = QueryTime - overlap /\ overlap \in Nat
  BY LearnerAssumption DEF LaunchTypeOK, LearnerTypeOK, QueryTime, Gap, Motors
<1>2. /\ Ahead(last) \in Int /\ Ahead(last) >= QueryTime + 1
      /\ last < NumAct => Ahead(last + 1) = Ahead(last) - (Gap + 1)
  BY AheadOf
<1>3. ages[last] \in Nat
  OBVIOUS
<1>4. ~(timeoutAge > 0)
  BY <1>1, <1>2, <1>3
<1>5. \/ \A m \in Motors : motorState'[m] = "DONE"
      \/ learningQueryState' = "ACTIVE"
  BY <1>4 DEF DriveMotors
<1>6. motorAge' = ages /\ UNCHANGED <<timeoutAge, overlap>>
  BY DEF DriveMotors, learnerSettings
<1>7. ASSUME NEW m PROVE Ahead(m)' = Ahead(m) /\ Gap' = Gap
  BY <1>6 DEF Ahead, Gap
<1>8. Started(states) = 1..last /\ Max(Started(states)) = last
  BY LastStarted
<1>9. Triggered(states, ages)
          = {m \in Motors : ages[last] > Gap /\ m = last + 1}
  BY <1>1, <1>3, <1>8 DEF Triggered, TimeForNext
<1>10. PICK overrun \in SUBSET Motors :
          motorState' = NextMotors(states, ages, overrun)
  BY DEF DriveMotors
<1>11. ASSUME NEW m \in Motors
       PROVE  motorState'[m] = "ZERO"
                  <=> m > last /\ ~(ages[last] > Gap /\ m = last + 1)
  BY <1>1, <1>8, <1>9, <1>10 DEF NextMotors, Motors
<1>12. CASE last = NumAct /\ ages[last] > QueryTime
  <2>1. ASSUME NEW m \in Motors PROVE motorState'[m] = "DONE"
    <3>1. m \in 1..last /\ ages[m] > QueryTime
      BY <1>1, <1>12 DEF Motors
    <3> QED
      BY <1>8, <1>10, <3>1 DEF NextMotors
  <2> QED
    BY <2>1
<1>13. CASE \/ last = NumAct /\ ages[last] <= QueryTime
            \/ last < NumAct /\ ages[last] <= Gap
  <2>1. ASSUME NEW m \in Motors PROVE motorState'[m] = "ZERO" <=> m > last
    BY <1>1, <1>11, <1>13 DEF Motors
  <2>2. OnTime(last)'
    BY <1>1, <1>6, <1>7, <1>13, <2>1 DEF OnTime, Late
  <2> QED
    BY <1>5, <2>2
<1>14. CASE last < NumAct /\ ages[last] > Gap
  <2>1. last + 1 \in Motors /\ ages[last + 1] = 0
    BY <1>1, <1>14 DEF Motors
  <2>2. ASSUME NEW m \in Motors PROVE motorState'[m] = "ZERO" <=> m > last + 1
    BY <1>1, <1>11, <1>14 DEF Motors
  <2>3. timeoutAge + Ahead(last + 1) <= 0
    BY <1>1, <1>2, <1>3, <1>14
  <2>4. \A m \in Motors : m > last + 1 => ages[m] = 0
    BY <1>1 DEF Motors
  <2>5. OnTime(last + 1)'
    BY <1>1, <1>6, <1>7, <2>1, <2>2, <2>3, <2>4 DEF OnTime, Late
  <2> QED
    BY <1>5, <2>1, <2>5
<1> QED
  BY <1>1, <1>3, <1>12, <1>13, <1>14

LEMMA TimePass ==
    ASSUME LaunchTypeOK, overlap <= QueryTime, NumAct < Grace,
           TimeInv, PidPass
    PROVE  /\ TimeInv'
           /\ QueryRuns /\ ~QueryRuns' /\ Fits
                  => \A m \in Motors : motorState'[m] = "DONE"
<1> DEFINE catapult == catapultState'
<1> SUFFICES ASSUME Fits
             PROVE  /\ TimeInv'
                    /\ QueryRuns /\ ~QueryRuns'
                           => \A m \in Motors : motorState'[m] = "DONE"
  <2>1. UNCHANGED <<queryDelay, overlap>>
    BY DEF PidPass, RunLearningQueryStateMachine, learnerSettings
  <2>2. Fits' <=> Fits
    BY <2>1 DEF Fits, FullQuery
  <2> QED
    BY <2>2 DEF TimeInv
<1>1. /\ RunLearningQueryStateMachine(catapult) /\ passDone' = TRUE
      /\ UNCHANGED learnerSettings
  BY DEF PidPass, RunLearningQueryStateMachine
<1>2. UNCHANGED FullQuery(0, overlap)
  BY <1>1 DEF learnerSettings, FullQuery
<1>3. /\ FullQuery(0, overlap) = Ahead(1) + Grace - NumAct
      /\ FullQuery(queryDelay, overlap) = queryDelay + FullQuery(0, overlap)
  BY WholeQuery
<1>4. /\ NumAct \in Nat /\ 1 \in Motors /\ Grace \in Nat /\ QueryLimit \in Nat
      /\ QueryTime \in Nat /\ Gap \in Nat
      /\ queryDelay \in Nat /\ startAge \in Int /\ timeoutAge \in Int
  BY LearnerAssumption DEF LaunchTypeOK, LearnerTypeOK, Motors, QueryTime, Gap
<1>5. Ahead(1) \in Int /\ Ahead(1) >= QueryTime + 1
  BY <1>4, AheadOf
<1>6. CASE QueryBegins(catapult)
  <2>1. SafetyTimeout = FullQuery(queryDelay, overlap)
    BY <1>3, <1>4, <1>5 DEF SafetyTimeout, Fits
  <2>2. timeoutAge' + FullQuery(0, overlap) = startAge' /\ startAge' <= 0
    BY <1>3, <1>4, <1>5, <1>6, <2>1 DEF QueryBegins
  <2> QED
    BY <1>1, <1>2, <1>6, <2>2 DEF QueryBegins, TimeInv, Late, QueryRuns
<1>7. CASE QueryAwaited(catapult) \/ QueryDone(catapult)
  BY <1>7 DEF QueryAwaited, QueryDone, TimeInv, QueryRuns
<1>8. CASE QueryDelayed
  BY <1>1, <1>2, <1>8 DEF QueryDelayed, TimeInv, Late, QueryRuns
<1>9. ASSUME \/ \A m \in Motors : motorState'[m] = "DONE"
             \/ learningQueryState' = "ACTIVE"
                    /\ \E new \in Motors : OnTime(new)',
             learningQueryState' \in {"ACTIVE", "DONE", "IDLE"},
             learningQueryState' = "ACTIVE"
                 => \E m \in Motors : motorState'[m] # "DONE"
      PROVE  /\ TimeInv'
             /\ ~QueryRuns' => \A m \in Motors : motorState'[m] = "DONE"
  BY <1>9 DEF TimeInv, QueryRuns
<1>10. ASSUME NEW states, NEW ages, DriveMotors(states, ages, catapult)
       PROVE  /\ learningQueryState' \in {"ACTIVE", "DONE", "IDLE"}
              /\ learningQueryState' = "ACTIVE"
                     => \E m \in Motors : motorState'[m] # "DONE"
  BY <1>10 DEF DriveMotors, Applied
<1>11. CASE QueryStarts(catapult)
  <2> DEFINE none == [m \in Motors |-> 0]
  <2>1. DriveMotors(FreshMotors, none, catapult)
    BY <1>11 DEF QueryStarts
  <2>2. timeoutAge + Ahead(1) <= 0
    <3>1. timeoutAge + FullQuery(0, overlap) = startAge /\ startAge <= 1
      BY <1>4, <1>11 DEF QueryStarts, TimeInv, Late
    <3> QED
      BY <1>3, <1>4, <1>5, <3>1
  <2>3. \A m \in Motors : FreshMotors[m] = "ZERO" <=> m > 1
    BY <1>4 DEF FreshMotors, Motors
  <2>4. none \in [Motors -> Nat] /\ \A m \in Motors : none[m] = 0
    OBVIOUS
  <2>5. 0 <= (IF 1 < NumAct THEN Gap ELSE QueryTime) + 1
    BY <1>4
  <2> HIDE DEF none
  <2>6. \/ \A m \in Motors : motorState'[m] = "DONE"
        \/ learningQueryState' = "ACTIVE" /\ \E new \in Motors : OnTime(new)'
    BY <1>1, <1>4, <2>1, <2>2, <2>3, <2>4, <2>5, Driven
  <2> QED
    BY <1>9, <1>10, <2>1, <2>6
<1>12. CASE QueryActive(catapult)
  <2>1. DriveMotors(motorState, motorAge, catapult)
    BY <1>12 DEF QueryActive
  <2>2. PICK last \in Motors : OnTime(last)
    BY <1>12 DEF QueryActive, TimeInv
  <2>3. motorAge \in [Motors -> Nat]
    BY <1>4 DEF LaunchTypeOK, LearnerTypeOK, AgeOver
  <2>4. motorAge[last] <= (IF last < NumAct THEN Gap ELSE QueryTime) + 1
    BY <1>4, <2>2, <2>3 DEF OnTime, Late
  <2>5. \/ \A m \in Motors : motorState'[m] = "DONE"
        \/ learningQueryState' = "ACTIVE" /\ \E new \in Motors : OnTime(new)'
    BY <1>1, <2>1, <2>2, <2>3, <2>4, Driven DEF OnTime
  <2> QED
    BY <1>9, <1>10, <2>1, <2>5
<1> QED
  BY <1>1, <1>6, <1>7, <1>8, <1>11, <1>12 DEF RunLearningQueryStateMachine

LEMMA TimeTick ==
    ASSUME LaunchTypeOK, overlap <= QueryTime, NumAct < Grace,
           TimeInv, Tick
    PROVE  TimeInv'
<1>1. /\ passDone /\ ~passDone'
      /\ startAge' = Older(startAge, 0) /\ timeoutAge' = Older(timeoutAge, 0)
      /\ UNCHANGED <<learningQueryState, motorState, learnerSettings>>
      /\ motorAge' = [m \in Motors |-> IF m \in Started(motorState)
                                           THEN Older(motorAge[m], QueryTime)
                                           ELSE 0]
  BY DEF Tick, LearnerTick
<1>2. /\ UNCHANGED FullQuery(0, overlap) /\ Fits' = Fits /\ Gap' = Gap
      /\ \A m : Ahead(m)' = Ahead(m)
  BY <1>1 DEF learnerSettings, FullQuery, Fits, Ahead, Gap
<1>3. /\ NumAct \in Nat /\ 1 \in Motors /\ Motors \subseteq Int
      /\ Grace \in Nat /\ QueryTime \in Nat /\ Gap \in Nat /\ Gap <= QueryTime
      /\ startAge \in Int /\ timeoutAge \in Int
      /\ motorAge \in [Motors -> Nat]
  BY LearnerAssumption
     DEF LaunchTypeOK, LearnerTypeOK, Motors, QueryTime, Gap, AgeOver
<1> SUFFICES ASSUME Fits
             PROVE  /\ learningQueryState = "DELAY"
                           => /\ timeoutAge' + FullQuery(0, overlap) = startAge'
                              /\ startAge' <= 1
                    /\ learningQueryState = "ACTIVE"
                           => \E last \in Motors : OnTime(last)'
  BY <1>1, <1>2 DEF TimeInv, Late
<1>4. CASE learningQueryState = "DELAY"
  <2>1. timeoutAge + FullQuery(0, overlap) = startAge /\ startAge <= 0
    BY <1>1, <1>4 DEF TimeInv, Late
  <2>2. Ahead(1) \in Int /\ Ahead(1) >= QueryTime + 1
    BY <1>3, AheadOf
  <2>3. FullQuery(0, overlap) \in Nat
    BY <1>3, <2>2, WholeQuery
  <2>4. startAge' = startAge + 1 /\ timeoutAge' = timeoutAge + 1
    BY <1>1, <1>3, <2>1, <2>3 DEF Older
  <2> QED
    BY <1>3, <1>4, <2>1, <2>3, <2>4
<1>5. CASE learningQueryState = "ACTIVE"
  <2>1. PICK last \in Motors : OnTime(last)
    BY <1>5 DEF TimeInv
  <2>2. Ahead(last) \in Int /\ Ahead(last) >= QueryTime + 1
    BY AheadOf
  <2>3. motorAge[last] <= (IF last < NumAct THEN Gap ELSE QueryTime)
    BY <1>1, <2>1 DEF OnTime, Late
  <2>4. \A m \in Motors : m \in Started(motorState) <=> m <= last
    BY <1>3, <2>1 DEF OnTime, Started
  <2>5. motorAge'[last] = motorAge[last] + 1
    BY <1>1, <1>3, <2>3, <2>4 DEF Older
  <2>6. ASSUME NEW m \in Motors, m <= last
        PROVE  motorAge'[m] >= motorAge'[last]
    <3>1. motorAge[m] >= motorAge[last]
      BY <2>1, <2>6 DEF OnTime
    <3>2. motorAge'[m] = Older(motorAge[m], QueryTime)
      BY <1>1, <2>4, <2>6
    <3> QED
      BY <1>3, <2>3, <2>5, <3>1, <3>2 DEF Older
  <2>7. ASSUME NEW m \in Motors, m > last PROVE motorAge'[m] = 0
    BY <1>1, <1>3, <2>4, <2>7
  <2>8. timeoutAge' + Ahead(last) <= motorAge'[last]
    BY <1>1, <1>3, <2>1, <2>2, <2>5 DEF OnTime, Older
  <2>9. \A m \in Motors : motorState'[m] = "ZERO" <=> m > last
    BY <1>1, <2>1 DEF OnTime
  <2>10. motorAge'[last] <= Late(IF last < NumAct THEN Gap ELSE QueryTime)'
    BY <1>1, <1>2, <1>3, <2>3, <2>5 DEF Late
  <2>11. timeoutAge' + Ahead(last)' <= motorAge'[last]
    BY <1>2, <2>8
  <2>12. OnTime(last)'
    BY <2>6, <2>7, <2>9, <2>10, <2>11 DEF OnTime
  <2> QED
    BY <1>5, <2>12
<1> QED
  BY <1>4, <1>5

LEMMA TimeStep ==
    ASSUME LaunchTypeOK, overlap <= QueryTime, NumAct < Grace,
           TimeInv, [LaunchNext]_launchVars
    PROVE  TimeInv' /\ (QueryRuns /\ ~QueryRuns' /\ Fits
                            => \A m \in Motors : motorState'[m] = "DONE")
<1>1. CASE Tick
  BY <1>1, TimeTick DEF Tick, LearnerTick, QueryRuns
<1>2. CASE PidPass
  BY <1>2, TimePass
<1>3. CASE Arm \/ Disarm \/ SelectModes \/ ThrowTask \/ UNCHANGED launchVars
  <2>1. UNCHANGED <<learnerVars, passDone>>
    BY <1>3, EnvironmentStep
  <2>2. UNCHANGED TimeInv /\ UNCHANGED QueryRuns
    BY <2>1 DEF learnerVars, learnerSettings, TimeInv, Fits, FullQuery, Late,
       OnTime, Ahead, Gap, QueryRuns
  <2> QED
    BY <2>2
<1> QED
  BY <1>1, <1>2, <1>3 DEF LaunchNext

(* A query within the limit ends by itself, with every motor done, and the  *)
(* safety timeout never cuts it short: the grace exceeds the number of      *)
(* motors, for each may start a pass late, and no motor is overlapped for   *)
(* longer than it runs.                                                     *)
THEOREM QueryKeepsItsTime ==
    ASSUME NumAct < Grace, \A over \in Overlaps : over <= QueryTime
    PROVE  LaunchSpec => QueryFitsItsTime
<1>1. LaunchInit => TimeInv
  BY DEF LaunchInit, LearnerInit, TimeInv
<1>2. LaunchTypeOK => overlap <= QueryTime
  BY DEF LaunchTypeOK, LearnerTypeOK
<1>3. LaunchTypeOK /\ TimeInv /\ [LaunchNext]_launchVars
          => /\ TimeInv'
             /\ [(QueryRuns /\ ~QueryRuns'
                    /\ FullQuery(queryDelay, overlap) <= QueryLimit)
                    => \A m \in Motors : motorState'[m] = "DONE"]_launchVars
  BY <1>2, TimeStep DEF Fits
<1> QED
  BY <1>1, <1>3, LaunchTypeCorrect, PTL DEF LaunchSpec, QueryFitsItsTime
=============================================================================
