----------------------------- MODULE Scheduler -----------------------------
(***************************************************************************)
(* scheduler/scheduler.c: one call of scheduler() is a step, either the     *)
(* gyro pass, in which the gyro, filter and PID tasks run and nothing else, *)
(* or a pass that checks the other tasks and runs one of them if it fits    *)
(* before the next gyro pass.  Time is counted in units of which a gyro     *)
(* period has a few; the ages of the tasks in gyro periods, by which they   *)
(* are late by less than one.                                               *)
(***************************************************************************)
EXTENDS Integers, Sequences

CONSTANTS
    Queue,          \* taskQueueArray: the tasks, highest static priority first
    EventDriven,    \* those that have a checkFunc: RX, OSD
    NotBlocked,     \* SERIAL
    StaticPriority,
    DesiredPeriod,  \* of each task, in gyro periods
    ExecTimes,      \* what a run of each task may take
    GyroPeriod,     \* desiredPeriodCycles
    GyroTimes,      \* what the gyro, filter and PID tasks may take
    CheckTimes,     \* what the checks of a pass may take
    StartLoops,     \* where schedLoopStartCycles may stand
    CheckGuard,     \* CHECK_GUARD_MARGIN_US
    GuardMin, GuardMax,
    Ample,          \* enough time for a pass to choose among all tasks
    DeferCount,     \* SCHED_TASK_DEFER_MASK + 1
    ExpediteTenths, \* 9: TASK_AGE_EXPEDITE_SCALE
    Relax,          \* TASK_AGE_EXPEDITE_RX and TASK_AGE_EXPEDITE_OSD
    MaxAge          \* bound: ages are counted up to here

Tasks == { Queue[i] : i \in DOMAIN Queue }
TaskPriorityMax == 255     \* TASK_PRIORITY_MAX
Longest(S) == CHOOSE x \in S : \A y \in S : y <= x
None == "NONE"
MaxExec(t) == Longest(ExecTimes[t])

ASSUME SchedulerAssumption ==
    /\ GyroPeriod \in Nat \ {0} /\ DeferCount \in Nat \ {0}
    /\ MaxAge \in Nat /\ Relax \in [EventDriven -> Nat]
    /\ CheckGuard \in Nat
    /\ ExpediteTenths \in 0..9
    /\ GuardMin \in Nat /\ GuardMax \in Nat /\ GuardMin <= GuardMax
    /\ GyroTimes \subseteq Nat \ {0} /\ CheckTimes \subseteq Nat \ {0}
    /\ StartLoops \subseteq Nat \ {0}
    /\ Queue \in Seq(Tasks)
    /\ StaticPriority \in [Tasks -> 1..TaskPriorityMax]
    /\ DesiredPeriod \in [Tasks -> Nat \ {0}]
    /\ ExecTimes \in [Tasks -> SUBSET (Nat \ {0})]
    /\ \A t \in Tasks : \E x \in ExecTimes[t] : \A y \in ExecTimes[t] : y <= x
    /\ EventDriven \subseteq Tasks /\ NotBlocked \subseteq Tasks

VARIABLES
    left,            \* cycles from now to lastTargetCycles + GyroPeriod
    scheduleCount,   \* modulo DeferCount
    checkCycles,     \* what the checks of the last pass took
    taskGuardCycles,
    anticipatedExecutionTime,
    age,             \* gyro periods to lastTargetCycles since the task ran, or
                     \* was signaled: below zero if it did so in one that is
                     \* to be skipped
    signaled,        \* the event driven tasks whose check was positive
    skippedAttempts, \* up to Relax
    ran,             \* the task that the pass ran
    overdue          \* cyclesOverdue > 0: it took longer than was anticipated

schedulerVars == <<left, scheduleCount, checkCycles, taskGuardCycles,
                   anticipatedExecutionTime, age, signaled,
                   skippedAttempts, ran, overdue>>

SchedulerTypeOK ==
    /\ left \in Int /\ left <= GyroPeriod
    /\ scheduleCount \in 0..(DeferCount - 1)
    /\ checkCycles \in CheckTimes \cup {0}
    /\ taskGuardCycles \in GuardMin..GuardMax
    /\ anticipatedExecutionTime \in [Tasks -> Nat]
    /\ \A t \in Tasks : anticipatedExecutionTime[t] <= MaxExec(t)
    /\ age \in [Tasks -> Int] /\ \A t \in Tasks : age[t] <= MaxAge
    /\ signaled \subseteq EventDriven
    /\ skippedAttempts \in [EventDriven -> Nat]
    /\ \A t \in EventDriven : skippedAttempts[t] <= Relax[t]
    /\ ran \in Tasks \cup {None}
    /\ overdue \in BOOLEAN

SchedulerInit ==
    /\ left = GyroPeriod
    /\ scheduleCount = 0
    /\ checkCycles = 0
    /\ taskGuardCycles = GuardMin
    /\ anticipatedExecutionTime = [t \in Tasks |-> 0]
    /\ age = [t \in Tasks |-> 0]
    /\ signaled = {}
    /\ skippedAttempts = [t \in EventDriven |-> 0]
    /\ ran = None
    /\ overdue = FALSE

NothingRan == ran' = None /\ overdue' = FALSE

NextCount == (scheduleCount + 1) % DeferCount

(* Whole periods by which a task overran so grossly that they are skipped. *)
Skipped == IF left < -GyroPeriod THEN 1 + ((-left) \div GyroPeriod) ELSE 0

(* schedLoopRemainingCycles, at the beginning of a pass *)
Remaining == left + GyroPeriod * Skipped

(* The estimate of a task that could not run, scaled by                     *)
(* TASK_AGE_EXPEDITE_SCALE.                                                 *)
Expedited(estimate) == (ExpediteTenths * estimate) \div 10

Capped(n) == IF n < MaxAge THEN n ELSE MaxAge

-----------------------------------------------------------------------------
(* The gyro pass: once close to the boundary the scheduler polls for its    *)
(* arrival; after that the other tasks get nothing of this pass, as what    *)
(* remains is still counted to the target that is reached.                  *)
GyroPass ==
    /\ \E s \in StartLoops : Remaining < s
    /\ \E g \in GyroTimes :
          left' = GyroPeriod - g + (IF Remaining < 0 THEN Remaining ELSE 0)
    /\ age' = [t \in Tasks |-> Capped(age[t] + 1 + Skipped)]
    /\ NothingRan
    /\ scheduleCount' = NextCount
    /\ UNCHANGED <<checkCycles, taskGuardCycles, anticipatedExecutionTime,
                   signaled, skippedAttempts>>

(* Between schedLoopStartCycles and CHECK_GUARD_MARGIN_US a pass does        *)
(* nothing but take its time.                                               *)
IdlePass ==
    /\ \E s \in StartLoops : Remaining >= s
    /\ Remaining <= CheckGuard
    /\ left' = left - 1
    /\ scheduleCount' = NextCount
    /\ UNCHANGED <<checkCycles, taskGuardCycles, anticipatedExecutionTime, age,
                   signaled, skippedAttempts>>
    /\ NothingRan

-----------------------------------------------------------------------------
(* A pass with time for the checks. *)

(* Periods since the task ran or was signaled *)
Age(t) == Capped(age[t] + Skipped)

(* taskAgePeriods of the task in this pass, if the checks of fresh were     *)
(* positive in it                                                           *)
AgePeriods(t, fresh) ==
    IF t \notin EventDriven THEN Age(t) \div DesiredPeriod[t]
    ELSE IF t \in fresh THEN 1
    ELSE IF t \in signaled THEN 1 + (Age(t) \div DesiredPeriod[t])
    ELSE 0

(* Mutant of Priority: tasks do not age. *)
PriorityAgeless(t, fresh) ==
    IF AgePeriods(t, fresh) = 0 THEN 0 ELSE 1 + StaticPriority[t]

(* dynamicPriority: zero for a task that is not due *)
Priority(t, fresh) ==
    IF AgePeriods(t, fresh) = 0 THEN 0
    ELSE 1 + StaticPriority[t] * AgePeriods(t, fresh)

(* There is time for the task, as far as one can tell before the checks; a  *)
(* long one is considered when the schedule count says so.                  *)
Considered(t) ==
    \/ anticipatedExecutionTime[t] + checkCycles + taskGuardCycles < Remaining
    \/ scheduleCount = 0
    \/ t \in NotBlocked

Candidates(fresh) == { t \in Tasks : Priority(t, fresh) > 0 /\ Considered(t) }

Position(t) == CHOOSE i \in DOMAIN Queue : Queue[i] = t

(* The first task of the queue whose priority no other one exceeds *)
Selected(fresh) ==
    CHOOSE t \in Candidates(fresh) : \A u \in Candidates(fresh) :
        \/ Priority(t, fresh) > Priority(u, fresh)
        \/ /\ Priority(t, fresh) = Priority(u, fresh)
           /\ Position(t) <= Position(u)

(* Mutant of Fits: the time that the checks took is not seen. *)
FitsBeforeChecks(t, c) ==
    anticipatedExecutionTime[t] + taskGuardCycles < Remaining

(* "Recheck the available time as checkCycles is only approximate" *)
Fits(t, c) == anticipatedExecutionTime[t] + taskGuardCycles < Remaining - c

(* A pass that runs the checks: they take c, and those of fresh are         *)
(* positive.                                                                *)
Checks(fresh, c) ==
    /\ \E s \in StartLoops : Remaining >= s
    /\ Remaining > CheckGuard
    /\ checkCycles' = c
    /\ scheduleCount' = NextCount

Signal(fresh) == [t \in Tasks |-> IF t \in fresh THEN -Skipped ELSE age[t]]

(* A state machine names the time of its next state; any other task goes by *)
(* its longest run, which decays slowly.                                    *)
EstimateAfter(t, x) ==
    IF t \in EventDriven THEN ExecTimes[t]
    ELSE IF x > anticipatedExecutionTime[t] THEN {x}
    ELSE {anticipatedExecutionTime[t]}
            \cup {e \in {anticipatedExecutionTime[t] - 1} : e >= 0}

(* Mutant of GuardAfter: the guard grows without a limit. *)
GuardAfterUnlimited(cyclesOverdue) ==
    IF cyclesOverdue > 0 \/ -cyclesOverdue < GuardMin THEN {taskGuardCycles + 1}
    ELSE {taskGuardCycles} \cup ({taskGuardCycles - 1} \cap (GuardMin..GuardMax))

(* The guard grows after a run that came near to what was allowed, and      *)
(* shrinks by fractions otherwise.                                          *)
GuardAfter(cyclesOverdue) ==
    IF cyclesOverdue > 0 \/ -cyclesOverdue < GuardMin
    THEN {IF taskGuardCycles < GuardMax THEN taskGuardCycles + 1 ELSE GuardMax}
    ELSE {taskGuardCycles} \cup ({taskGuardCycles - 1} \cap (GuardMin..GuardMax))

RunTask(t, fresh, c) ==
    /\ Fits(t, c)
    /\ \E x \in ExecTimes[t] :
          LET cyclesOverdue == x - (anticipatedExecutionTime[t] + taskGuardCycles)
          IN  /\ left' = left - c - x
              /\ \E e \in EstimateAfter(t, x) :
                    anticipatedExecutionTime' =
                        [anticipatedExecutionTime EXCEPT ![t] = e]
              /\ taskGuardCycles' \in GuardAfter(cyclesOverdue)
              /\ overdue' = (cyclesOverdue > 0)
    /\ ran' = t
    /\ age' = [Signal(fresh) EXCEPT ![t] = -Skipped]
    /\ signaled' = (signaled \cup fresh) \ {t}
    /\ skippedAttempts' = [u \in EventDriven |->
                              IF u = t THEN 0 ELSE skippedAttempts[u]]

(* A task that is too old, or has been skipped too often, is expedited.     *)
SkipTask(t, fresh, c) ==
    LET old == AgePeriods(t, fresh) > 1
        counts == ~old /\ t \in EventDriven /\ Relax[t] > 0
        weary == counts /\ skippedAttempts[t] >= Relax[t]
    IN  /\ ~Fits(t, c)
        /\ left' = left - c
        /\ skippedAttempts' =
              [u \in EventDriven |->
                  IF u = t /\ counts /\ ~weary THEN skippedAttempts[u] + 1
                  ELSE skippedAttempts[u]]
        /\ anticipatedExecutionTime' =
              [anticipatedExecutionTime EXCEPT
                  ![t] = IF old \/ weary THEN Expedited(@) ELSE @]
        /\ age' = Signal(fresh)
        /\ signaled' = signaled \cup fresh
        /\ NothingRan
        /\ UNCHANGED taskGuardCycles

NoTask(fresh, c) ==
    /\ left' = left - c
    /\ age' = Signal(fresh)
    /\ signaled' = signaled \cup fresh
    /\ NothingRan
    /\ UNCHANGED <<taskGuardCycles, anticipatedExecutionTime, skippedAttempts>>

TaskPass ==
    \E fresh \in SUBSET (EventDriven \ signaled), c \in CheckTimes :
        /\ Checks(fresh, c)
        /\ IF Candidates(fresh) = {} THEN NoTask(fresh, c)
           ELSE \/ RunTask(Selected(fresh), fresh, c)
                \/ SkipTask(Selected(fresh), fresh, c)

SchedulerNext ==
    \/ GyroPass
    \/ IdlePass
    \/ TaskPass

(* main calls scheduler() for ever.  The time its passes take has no common *)
(* measure with the gyro period, so those that consider every task do not   *)
(* fall on the end of the period for ever.                                  *)
SchedulerSpec ==
    /\ SchedulerInit
    /\ [][SchedulerNext]_schedulerVars
    /\ []<>(scheduleCount = 0 /\ Remaining > Ample)
    /\ []<>(scheduleCount # 0)

(* The margins the code counts on: CHECK_GUARD_MARGIN_US covers the checks,  *)
(* the gyro, filter and PID tasks fit into their period, and a pass that is  *)
(* begun ends before schedLoopStartCycles are gone.                          *)
MarginsSuffice ==
    /\ \A c \in CheckTimes : c <= CheckGuard
    /\ \A g \in GyroTimes : g <= GyroPeriod
    /\ \A s \in StartLoops : s > 1

-----------------------------------------------------------------------------
(* Properties. *)

(* The gyro task is late, or misses one more period, only by a task that    *)
(* takes longer than the scheduler anticipated: none of its own checks and  *)
(* estimates makes it so.                                                   *)
GyroIsOnTime ==
    [][(left >= 0 /\ left' < 0) \/ Skipped' > Skipped => overdue']_schedulerVars

(* Every task that is due, however low its priority and however long its    *)
(* estimate, runs in the end.                                               *)
NoTaskStarves ==
    \A t \in Tasks : Priority(t, {}) > 0 ~> ran = t
=============================================================================
