-------------------------- MODULE SchedulerProofs --------------------------
(***************************************************************************)
(* Theorems about Scheduler for every queue of tasks and every length of   *)
(* their runs: its type invariant, and that the gyro task is late only by  *)
(* a task that takes longer than was anticipated.                          *)
(***************************************************************************)
EXTENDS Scheduler, WellFoundedInduction, TLAPS

-----------------------------------------------------------------------------
(* Whole numbers. *)

LEMMA DivBounds ==
    ASSUME NEW n \in Nat \ {0}, NEW x \in Int
    PROVE  x \div n \in Int /\ (x \div n) * n <= x /\ x < (x \div n) * n + n
OBVIOUS

LEMMA DivUnique ==
    ASSUME NEW n \in Nat \ {0}, NEW x \in Int, NEW q \in Int, NEW r \in Int,
           x = q * n + r, 0 <= r, r < n
    PROVE  x \div n = q
OBVIOUS

LEMMA DivOfNat ==
    ASSUME NEW n \in Nat \ {0}, NEW x \in Nat
    PROVE  x \div n \in 0..x
OBVIOUS

LEMMA Least ==
    ASSUME NEW T \in SUBSET Nat, T # {}
    PROVE  \E x \in T : \A y \in T : x <= y
<1> DEFINE R == OpToRel(<, Nat)
<1>1. IsWellFoundedOn(R, Nat)
  BY NatLessThanWellFounded
<1>2. \A x, y \in Nat : x < y => <<x, y>> \in R
  BY DEF OpToRel
<1> HIDE DEF R
<1>3. PICK x \in T : \A y \in T : <<y, x>> \notin R
  BY <1>1, WFMin
<1>4. \A y \in T : ~(y < x)
  BY <1>2, <1>3
<1>5. \A y \in T : x <= y
  BY <1>4
<1> QED BY <1>5

LEMMA Greatest ==
    ASSUME NEW T \in SUBSET Nat, T # {}, NEW m \in Nat, \A x \in T : x <= m
    PROVE  \E x \in T : \A y \in T : y <= x
<1> DEFINE U == {n \in Nat : \A x \in T : x <= n}
<1>1. PICK n \in U : \A k \in U : n <= k
  BY Least
<1>2. CASE n \in T
  BY <1>1, <1>2
<1>3. CASE n \notin T
  <2>1. \A x \in T : x < n
    BY <1>1, <1>3
  <2>2. n - 1 \in Nat
    <3>1. PICK x \in T : x \in Nat /\ x < n
      BY <2>1
    <3> QED BY <1>1, <3>1
  <2>3. n - 1 \in U
    BY <1>1, <2>1, <2>2
  <2>4. n <= n - 1
    BY <1>1, <2>3
  <2> QED BY <2>4, <1>1
<1> QED BY <1>2, <1>3

-----------------------------------------------------------------------------
(* The tasks. *)

LEMMA LongestRun ==
    ASSUME NEW t \in Tasks
    PROVE  /\ MaxExec(t) \in ExecTimes[t] /\ MaxExec(t) \in Nat
           /\ \A x \in ExecTimes[t] : x \in Nat \ {0} /\ x <= MaxExec(t)
<1>1. \E x \in ExecTimes[t] : \A y \in ExecTimes[t] : y <= x
  BY SchedulerAssumption
<1>2. ExecTimes[t] \subseteq Nat \ {0}
  BY SchedulerAssumption
<1> QED
  BY <1>1, <1>2 DEF MaxExec, Longest

LEMMA PriorityRange ==
    ASSUME SchedulerTypeOK, NEW fresh, NEW t \in Tasks
    PROVE  /\ Age(t) \in Int /\ Age(t) <= MaxAge
           /\ AgePeriods(t, fresh) \in Int /\ AgePeriods(t, fresh) <= 1 + MaxAge
           /\ Priority(t, fresh) \in Int
           /\ Priority(t, fresh) <= 1 + TaskPriorityMax * (1 + MaxAge)
<1>1. Skipped \in Int
  BY SchedulerAssumption DEF SchedulerTypeOK, Skipped
<1>2. Age(t) \in Int /\ Age(t) <= MaxAge /\ MaxAge \in Nat
  BY <1>1, SchedulerAssumption DEF SchedulerTypeOK, Age, Capped
<1> DEFINE q == Age(t) \div DesiredPeriod[t]
<1>3. q \in Int /\ q <= MaxAge
  <2>1. DesiredPeriod[t] \in Nat \ {0}
    BY SchedulerAssumption
  <2> DEFINE n == DesiredPeriod[t]
             a == Age(t)
  <2> HIDE DEF n, a
  <2>2. n \in Nat \ {0} /\ a \in Int /\ a <= MaxAge /\ MaxAge \in Nat
    BY <1>2, <2>1 DEF n, a
  <2>3. a \div n \in Int /\ a \div n <= MaxAge
    <3>1. CASE a < 0
      BY <2>2, <3>1
    <3>2. CASE a >= 0
      BY <2>2, <3>2, DivOfNat
    <3> QED BY <2>2, <3>1, <3>2
  <2> QED BY <2>3 DEF n, a
<1> HIDE DEF q
<1>4. /\ AgePeriods(t, fresh) \in Int /\ AgePeriods(t, fresh) <= 1 + MaxAge
  BY <1>2, <1>3 DEF AgePeriods, q
<1>5. StaticPriority[t] \in 1..TaskPriorityMax
  BY SchedulerAssumption
<1> DEFINE p == StaticPriority[t]
           k == AgePeriods(t, fresh)
<1> HIDE DEF p, k
<1>6. p \in 1..255 /\ k \in Int /\ k <= 1 + MaxAge /\ MaxAge \in Nat
  BY <1>2, <1>4, <1>5 DEF p, k, TaskPriorityMax
<1>7. p * k \in Int /\ p * k <= 255 * (1 + MaxAge)
  BY <1>6
<1>8. Priority(t, fresh) = IF k = 0 THEN 0 ELSE 1 + p * k
  BY DEF Priority, p, k
<1>9. Priority(t, fresh) \in Int
         /\ Priority(t, fresh) <= 1 + 255 * (1 + MaxAge)
  BY <1>6, <1>7, <1>8
<1> QED BY <1>2, <1>4, <1>9 DEF TaskPriorityMax

(* The loop over the queue finds a task whenever there is a candidate.      *)
LEMMA SelectedIsCandidate ==
    ASSUME SchedulerTypeOK, NEW fresh, Candidates(fresh) # {}
    PROVE  Selected(fresh) \in Candidates(fresh)
<1> DEFINE C == Candidates(fresh)
           P == { Priority(t, fresh) : t \in C }
           m == 1 + TaskPriorityMax * (1 + MaxAge)
<1>1. C \subseteq Tasks /\ \A t \in C : Priority(t, fresh) > 0
  BY DEF Candidates
<1>2. \A t \in C : Priority(t, fresh) \in Nat /\ Priority(t, fresh) <= m
  BY <1>1, PriorityRange
<1>3. m \in Nat
  BY SchedulerAssumption DEF TaskPriorityMax
<1> HIDE DEF C, m
<1>4. P \in SUBSET Nat /\ P # {} /\ \A x \in P : x <= m
  BY <1>2 DEF C
<1>5. PICK p \in P : \A x \in P : x <= p
  BY <1>3, <1>4, Greatest
<1> DEFINE B == { t \in C : Priority(t, fresh) = p }
           I == { Position(t) : t \in B }
<1>6. B # {}
  BY <1>5
<1>7. \A t \in Tasks : Position(t) \in Nat
  <2>1. \A t \in Tasks : \E i \in DOMAIN Queue : Queue[i] = t
    BY DEF Tasks
  <2>2. DOMAIN Queue = 1..Len(Queue) /\ Len(Queue) \in Nat
    BY SchedulerAssumption
  <2> QED BY <2>1, <2>2 DEF Position
<1>8. I \in SUBSET Nat /\ I # {}
  BY <1>1, <1>6, <1>7
<1>9. PICK i \in I : \A j \in I : i <= j
  BY <1>8, Least
<1>10. PICK t \in B : i = Position(t)
  BY <1>9
<1>11. \A u \in C : \/ Priority(t, fresh) > Priority(u, fresh)
                    \/ /\ Priority(t, fresh) = Priority(u, fresh)
                       /\ Position(t) <= Position(u)
  <2> TAKE u \in C
  <2>1. Priority(u, fresh) <= p /\ Priority(t, fresh) = p
    BY <1>5, <1>10
  <2>2. CASE u \in B
    BY <1>9, <1>10, <2>1, <2>2
  <2>3. CASE u \notin B
    BY <1>2, <1>4, <1>5, <2>1, <2>3
  <2> QED BY <2>2, <2>3
<1> QED
  BY <1>10, <1>11 DEF Selected, C

-----------------------------------------------------------------------------
(* The time that is left. *)

SkippedAt(l) == IF l < -GyroPeriod THEN 1 + ((-l) \div GyroPeriod) ELSE 0

LEMMA RemainingFacts ==
    ASSUME left \in Int, left <= GyroPeriod
    PROVE  /\ GyroPeriod \in Nat \ {0}
           /\ Skipped \in Nat /\ Remaining \in Int /\ Remaining <= GyroPeriod
           /\ left >= -GyroPeriod => Skipped = 0 /\ Remaining = left
           /\ left < -GyroPeriod =>
                 /\ Remaining > 0
                 /\ -left = (Skipped - 1) * GyroPeriod + (GyroPeriod - Remaining)
<1>1. GyroPeriod \in Nat \ {0}
  BY SchedulerAssumption
<1>2. CASE left >= -GyroPeriod
  <2>1. Skipped = 0
    BY <1>1, <1>2 DEF Skipped
  <2>2. Remaining = left
    BY <1>1, <2>1 DEF Remaining
  <2> QED BY <1>1, <1>2, <2>1, <2>2
<1>3. CASE left < -GyroPeriod
  <2> DEFINE x == -left
             q == x \div GyroPeriod
             n == GyroPeriod
  <2>1. Skipped = 1 + q
    BY <1>3 DEF Skipped
  <2>2. x \in Int /\ x > n /\ n \in Nat \ {0} /\ left = -x
    BY <1>1, <1>3
  <2>3. q \in Int /\ q * n <= x /\ x < q * n + n
    BY <2>2, DivBounds
  <2>4. Remaining = left + n * (1 + q)
    BY <2>1 DEF Remaining
  <2> HIDE DEF x, q, n
  <2>5. n * (1 + q) = q * n + n
    BY <2>2, <2>3
  <2>6. /\ Remaining \in Int /\ Remaining > 0 /\ Remaining <= n
        /\ x = q * n + (n - Remaining)
    BY <2>2, <2>3, <2>4, <2>5
  <2>7. q >= 0
    BY <2>2, <2>3
  <2> QED BY <1>1, <1>3, <2>1, <2>3, <2>6, <2>7 DEF x, n
<1> QED
  BY <1>1, <1>2, <1>3

(* A pass that takes less time than remains makes the gyro task late by     *)
(* nothing.                                                                 *)
LEMMA WithinRemaining ==
    ASSUME left \in Int, left <= GyroPeriod, NEW d \in Nat, d < Remaining
    PROVE  /\ left >= 0 => left - d >= 0
           /\ SkippedAt(left - d) = Skipped
           /\ left - d \in Int /\ left - d <= GyroPeriod
<1>1. /\ GyroPeriod \in Nat \ {0} /\ Skipped \in Nat /\ Remaining \in Int
      /\ Remaining <= GyroPeriod
  BY RemainingFacts
<1>2. CASE left >= -GyroPeriod
  <2>1. Skipped = 0 /\ Remaining = left
    BY <1>2, RemainingFacts
  <2> QED BY <1>1, <2>1 DEF SkippedAt
<1>3. CASE left < -GyroPeriod
  <2> DEFINE q == Skipped - 1
             n == GyroPeriod
             r == n - Remaining + d
             x == -(left - d)
  <2>1. -left = q * n + (n - Remaining)
    BY <1>3, RemainingFacts
  <2>2. SkippedAt(left - d) = 1 + (x \div n)
    BY <1>1, <1>3 DEF SkippedAt
  <2>3. q \in Int /\ n \in Nat \ {0} /\ r \in Int /\ x \in Int
    BY <1>1
  <2>4. 0 <= r /\ r < n
    BY <1>1
  <2>5. x = q * n + r
    <3> HIDE DEF q, n
    <3> DEFINE qn == q * n
    <3>1. qn \in Int
      BY <2>3
    <3> HIDE DEF qn
    <3>2. -left = qn + (n - Remaining)
      BY <2>1 DEF qn
    <3>3. x = qn + r
      BY <1>1, <2>3, <3>1, <3>2
    <3> QED BY <3>3 DEF qn
  <2> HIDE DEF x, r, n
  <2>6. x \div n = q
    <3> HIDE DEF q
    <3> QED BY <2>3, <2>4, <2>5, DivUnique
  <2> QED BY <1>1, <1>3, <2>2, <2>6 DEF x
<1> QED
  BY <1>1, <1>2, <1>3

-----------------------------------------------------------------------------
(* The steps. *)

LEMMA CountRange ==
    ASSUME SchedulerTypeOK PROVE NextCount \in 0..(DeferCount - 1)
BY SchedulerAssumption DEF SchedulerTypeOK, NextCount

LEMMA GyroPassKeeps ==
    ASSUME SchedulerTypeOK, GyroPass
    PROVE  /\ SchedulerTypeOK'
           /\ MarginsSuffice => ~(left >= 0 /\ left' < 0) /\ ~(Skipped' > Skipped)
<1>1. left \in Int /\ left <= GyroPeriod
  BY DEF SchedulerTypeOK
<1>2. /\ GyroPeriod \in Nat \ {0} /\ Skipped \in Nat /\ Remaining \in Int
      /\ left >= -GyroPeriod => Skipped = 0 /\ Remaining = left
      /\ left < -GyroPeriod => Remaining > 0
  BY <1>1, RemainingFacts
<1>3. PICK g \in GyroTimes :
          left' = GyroPeriod - g + (IF Remaining < 0 THEN Remaining ELSE 0)
  BY DEF GyroPass
<1>4. g \in Nat \ {0}
  BY SchedulerAssumption
<1>5. left' \in Int /\ left' <= GyroPeriod
  BY <1>2, <1>3, <1>4
<1>6. age' \in [Tasks -> Int] /\ \A t \in Tasks : age'[t] <= MaxAge
  <2>1. \A t \in Tasks : age[t] + 1 + Skipped \in Int
    BY <1>2 DEF SchedulerTypeOK
  <2>2. \A n \in Int : Capped(n) \in Int /\ Capped(n) <= MaxAge
    BY SchedulerAssumption DEF Capped
  <2>3. age' = [t \in Tasks |-> Capped(age[t] + 1 + Skipped)]
    BY DEF GyroPass
  <2> QED BY <2>1, <2>2, <2>3
<1>7. SchedulerTypeOK'
  <2>1. scheduleCount' \in 0..(DeferCount - 1)
    BY CountRange DEF GyroPass
  <2>2. ran' \in Tasks \cup {None} /\ overdue' \in BOOLEAN
    BY DEF GyroPass, NothingRan
  <2>3. UNCHANGED <<checkCycles, taskGuardCycles, anticipatedExecutionTime,
                    signaled, skippedAttempts>>
    BY DEF GyroPass
  <2> QED BY <1>5, <1>6, <2>1, <2>2, <2>3 DEF SchedulerTypeOK
<1>8. ASSUME MarginsSuffice
      PROVE  ~(left >= 0 /\ left' < 0) /\ ~(Skipped' > Skipped)
  <2>1. g <= GyroPeriod
    BY <1>8 DEF MarginsSuffice
  <2>2. left >= 0 => left' >= 0
    <3>1. CASE left >= 0
      <4>1. ~(Remaining < 0)
        BY <1>1, <1>2, <3>1
      <4>2. left' = GyroPeriod - g
        BY <1>2, <1>3, <1>4, <4>1
      <4> QED BY <1>2, <1>4, <2>1, <4>2
    <3> QED BY <3>1
  <2>3. left' >= -GyroPeriod
    <3>1. CASE Remaining < 0
      <4>1. Remaining >= -GyroPeriod /\ left' = GyroPeriod - g + Remaining
        BY <1>1, <1>2, <1>3, <3>1
      <4> QED BY <1>2, <1>4, <2>1, <4>1
    <3>2. CASE ~(Remaining < 0)
      <4>1. left' = GyroPeriod - g
        BY <1>2, <1>3, <1>4, <3>2
      <4> QED BY <1>2, <1>4, <2>1, <4>1
    <3> QED BY <3>1, <3>2
  <2>4. Skipped' = 0
    <3>1. ~(left' < -GyroPeriod)
      BY <1>2, <1>5, <2>3
    <3> QED BY <3>1, Zenon DEF Skipped
  <2>5. Skipped \in Nat /\ ~(0 > Skipped)
    BY <1>2
  <2>6. ~(Skipped' > Skipped)
    BY <2>4, <2>5, Zenon
  <2> QED BY <1>1, <1>5, <2>2, <2>6
<1> QED BY <1>7, <1>8

LEMMA IdlePassKeeps ==
    ASSUME SchedulerTypeOK, IdlePass
    PROVE  /\ SchedulerTypeOK'
           /\ MarginsSuffice => ~(left >= 0 /\ left' < 0) /\ ~(Skipped' > Skipped)
<1>1. left \in Int /\ left <= GyroPeriod
  BY DEF SchedulerTypeOK
<1>2. left' = left - 1
  BY DEF IdlePass
<1>3. SchedulerTypeOK'
  <2>1. scheduleCount' \in 0..(DeferCount - 1)
    BY CountRange DEF IdlePass
  <2>2. ran' \in Tasks \cup {None} /\ overdue' \in BOOLEAN
    BY DEF IdlePass, NothingRan
  <2>3. UNCHANGED <<checkCycles, taskGuardCycles, anticipatedExecutionTime, age,
                    signaled, skippedAttempts>>
    BY DEF IdlePass
  <2>4. left' \in Int /\ left' <= GyroPeriod
    BY <1>1, <1>2, SchedulerAssumption
  <2> QED BY <2>1, <2>2, <2>3, <2>4 DEF SchedulerTypeOK
<1>4. ASSUME MarginsSuffice
      PROVE  ~(left >= 0 /\ left' < 0) /\ ~(Skipped' > Skipped)
  <2>1. 1 < Remaining
    <3>1. PICK s \in StartLoops : Remaining >= s
      BY DEF IdlePass
    <3>2. s \in Nat /\ s > 1
      BY <1>4, SchedulerAssumption DEF MarginsSuffice
    <3> QED BY <1>1, <3>1, <3>2, RemainingFacts
  <2>2. (left >= 0 => left - 1 >= 0) /\ SkippedAt(left - 1) = Skipped
    BY <1>1, <2>1, WithinRemaining
  <2>3. Skipped' = SkippedAt(left')
    BY DEF Skipped, SkippedAt
  <2>4. Skipped' = Skipped
    BY <1>2, <2>2, <2>3
  <2>5. Skipped \in Nat
    BY <1>1, RemainingFacts
  <2> QED BY <1>1, <1>2, <2>2, <2>4, <2>5
<1> QED BY <1>3, <1>4

LEMMA AgeStep ==
    ASSUME SchedulerTypeOK, NEW fresh \in SUBSET EventDriven
    PROVE  /\ Signal(fresh) \in [Tasks -> Int]
           /\ \A t \in Tasks : Signal(fresh)[t] <= MaxAge
           /\ -Skipped \in Int /\ -Skipped <= MaxAge
<1>1. Skipped \in Nat /\ MaxAge \in Nat
  BY RemainingFacts, SchedulerAssumption DEF SchedulerTypeOK
<1>2. -Skipped \in Int /\ -Skipped <= MaxAge
  BY <1>1
<1>3. age \in [Tasks -> Int] /\ \A t \in Tasks : age[t] <= MaxAge
  BY DEF SchedulerTypeOK
<1> QED
  BY <1>2, <1>3 DEF Signal

LEMMA EstimateRange ==
    ASSUME SchedulerTypeOK, NEW t \in Tasks, NEW x \in ExecTimes[t],
           NEW e \in EstimateAfter(t, x)
    PROVE  e \in Nat /\ e <= MaxExec(t)
<1>1. /\ anticipatedExecutionTime[t] \in Nat
      /\ anticipatedExecutionTime[t] <= MaxExec(t)
  BY DEF SchedulerTypeOK
<1>2. /\ MaxExec(t) \in Nat
      /\ \A y \in ExecTimes[t] : y \in Nat /\ y <= MaxExec(t)
  BY LongestRun
<1>3. CASE e \in ExecTimes[t]
  BY <1>2, <1>3
<1>4. CASE e = anticipatedExecutionTime[t]
  BY <1>1, <1>4
<1>5. CASE e = anticipatedExecutionTime[t] - 1 /\ e >= 0
  BY <1>1, <1>2, <1>5
<1> QED
  BY <1>3, <1>4, <1>5 DEF EstimateAfter

LEMMA RunKeeps ==
    ASSUME SchedulerTypeOK, NEW fresh \in SUBSET EventDriven, NEW c \in CheckTimes,
           NEW t \in Tasks, RunTask(t, fresh, c),
           checkCycles' = c, scheduleCount' = NextCount
    PROVE  /\ SchedulerTypeOK'
           /\ (left >= 0 /\ left' < 0) \/ Skipped' > Skipped => overdue'
<1>1. left \in Int /\ left <= GyroPeriod /\ c \in Nat \ {0}
  BY SchedulerAssumption DEF SchedulerTypeOK
<1> DEFINE a == anticipatedExecutionTime[t] + taskGuardCycles
<1>2. PICK x \in ExecTimes[t] :
        /\ left' = left - c - x
        /\ \E e \in EstimateAfter(t, x) :
              anticipatedExecutionTime' = [anticipatedExecutionTime EXCEPT ![t] = e]
        /\ taskGuardCycles' \in GuardAfter(x - a)
        /\ overdue' = (x - a > 0)
  BY DEF RunTask
<1>3. x \in Nat \ {0}
  BY LongestRun
<1>4. /\ a \in Int /\ a < Remaining - c /\ Remaining \in Int
      /\ taskGuardCycles \in GuardMin..GuardMax /\ GuardMin \in Nat
      /\ GuardMax \in Nat /\ GuardMin <= GuardMax
  BY <1>1, RemainingFacts, SchedulerAssumption DEF SchedulerTypeOK, RunTask, Fits
<1> HIDE DEF a
<1>5. SchedulerTypeOK'
  <2>1. left' \in Int /\ left' <= GyroPeriod
    BY <1>1, <1>2, <1>3, SchedulerAssumption
  <2>2. /\ anticipatedExecutionTime' \in [Tasks -> Nat]
        /\ \A u \in Tasks : anticipatedExecutionTime'[u] <= MaxExec(u)
    BY <1>2, EstimateRange DEF SchedulerTypeOK
  <2>3. taskGuardCycles' \in GuardMin..GuardMax
    BY <1>2, <1>3, <1>4 DEF GuardAfter
  <2>4. age' \in [Tasks -> Int] /\ \A u \in Tasks : age'[u] <= MaxAge
    BY AgeStep DEF RunTask
  <2>5. signaled' \subseteq EventDriven
    BY DEF RunTask, SchedulerTypeOK
  <2>6. /\ skippedAttempts' \in [EventDriven -> Nat]
        /\ \A u \in EventDriven : skippedAttempts'[u] <= Relax[u]
    BY SchedulerAssumption DEF RunTask, SchedulerTypeOK
  <2>7. scheduleCount' \in 0..(DeferCount - 1)
    BY CountRange
  <2>8. ran' \in Tasks \cup {None} /\ overdue' \in BOOLEAN
    BY <1>2 DEF RunTask
  <2> QED
    BY <2>1, <2>2, <2>3, <2>4, <2>5, <2>6, <2>7, <2>8 DEF SchedulerTypeOK
<1>6. ASSUME ~overdue'
      PROVE  ~(left >= 0 /\ left' < 0) /\ ~(Skipped' > Skipped)
  <2>1. x <= a
    <3>1. ~(x - a > 0)
      BY <1>2, <1>6, Zenon
    <3> QED BY <1>3, <1>4, <3>1
  <2> DEFINE d == c + x
  <2>2. d \in Nat /\ d < Remaining
    BY <1>1, <1>3, <1>4, <2>1
  <2>3. left' = left - d
    BY <1>1, <1>2, <1>3
  <2> HIDE DEF d
  <2>4. (left >= 0 => left - d >= 0) /\ SkippedAt(left - d) = Skipped
    BY <1>1, <2>2, WithinRemaining
  <2>5. Skipped' = SkippedAt(left')
    BY DEF Skipped, SkippedAt
  <2>6. Skipped' = Skipped
    BY <2>3, <2>4, <2>5
  <2>7. Skipped \in Nat
    BY <1>1, RemainingFacts
  <2> QED BY <1>1, <2>2, <2>3, <2>4, <2>6, <2>7
<1> QED BY <1>5, <1>6

(* What a pass that runs no task leaves to the others.                      *)
LEMMA ChecksKeep ==
    ASSUME SchedulerTypeOK, NEW fresh \in SUBSET EventDriven, NEW c \in CheckTimes,
           checkCycles' = c, scheduleCount' = NextCount, Remaining > CheckGuard,
           left' = left - c, age' = Signal(fresh), signaled' = signaled \cup fresh,
           NothingRan, UNCHANGED taskGuardCycles,
           anticipatedExecutionTime' \in [Tasks -> Nat],
           \A t \in Tasks : anticipatedExecutionTime'[t] <= MaxExec(t),
           skippedAttempts' \in [EventDriven -> Nat],
           \A t \in EventDriven : skippedAttempts'[t] <= Relax[t]
    PROVE  /\ SchedulerTypeOK'
           /\ MarginsSuffice => ~(left >= 0 /\ left' < 0) /\ ~(Skipped' > Skipped)
<1>1. left \in Int /\ left <= GyroPeriod /\ c \in Nat \ {0}
  BY SchedulerAssumption DEF SchedulerTypeOK
<1>2. SchedulerTypeOK'
  <2>1. left' \in Int /\ left' <= GyroPeriod
    BY <1>1, SchedulerAssumption
  <2>2. age' \in [Tasks -> Int] /\ \A t \in Tasks : age'[t] <= MaxAge
    BY AgeStep
  <2>3. signaled' \subseteq EventDriven /\ taskGuardCycles' \in GuardMin..GuardMax
    BY DEF SchedulerTypeOK
  <2>4. ran' \in Tasks \cup {None} /\ overdue' \in BOOLEAN
    BY DEF NothingRan
  <2>5. scheduleCount' \in 0..(DeferCount - 1)
    BY CountRange
  <2> QED BY <2>1, <2>2, <2>3, <2>4, <2>5 DEF SchedulerTypeOK
<1>3. ASSUME MarginsSuffice
      PROVE  ~(left >= 0 /\ left' < 0) /\ ~(Skipped' > Skipped)
  <2>1. c < Remaining
    <3>1. c <= CheckGuard
      BY <1>3 DEF MarginsSuffice
    <3>2. Remaining \in Int
      BY <1>1, RemainingFacts
    <3> QED BY <1>1, <3>1, <3>2, SchedulerAssumption
  <2>2. (left >= 0 => left - c >= 0) /\ SkippedAt(left - c) = Skipped
    BY <1>1, <2>1, WithinRemaining
  <2>3. Skipped' = SkippedAt(left')
    BY DEF Skipped, SkippedAt
  <2>4. Skipped' = Skipped
    BY <2>2, <2>3
  <2>5. Skipped \in Nat
    BY <1>1, RemainingFacts
  <2> QED BY <1>1, <2>2, <2>4, <2>5
<1> QED BY <1>2, <1>3

LEMMA ExpeditedRange ==
    ASSUME NEW e \in Nat PROVE Expedited(e) \in 0..e
<1>1. ExpediteTenths \in 0..9
  BY SchedulerAssumption
<1>2. \A k \in 0..9 : (k * e) \div 10 \in 0..e
  OBVIOUS
<1> QED BY <1>1, <1>2 DEF Expedited

LEMMA SkipKeeps ==
    ASSUME SchedulerTypeOK, NEW fresh \in SUBSET EventDriven, NEW c \in CheckTimes,
           NEW t \in Tasks, SkipTask(t, fresh, c), Checks(fresh, c)
    PROVE  /\ SchedulerTypeOK'
           /\ MarginsSuffice => ~(left >= 0 /\ left' < 0) /\ ~(Skipped' > Skipped)
<1> DEFINE est == anticipatedExecutionTime
           old == AgePeriods(t, fresh) > 1
           counts == ~old /\ t \in EventDriven /\ Relax[t] > 0
           weary == counts /\ skippedAttempts[t] >= Relax[t]
<1>1. est \in [Tasks -> Nat] /\ \A u \in Tasks : est[u] <= MaxExec(u)
  BY DEF SchedulerTypeOK
<1>2. est' \in {est, [est EXCEPT ![t] = Expedited(est[t])]}
  <2>1. est' = [est EXCEPT ![t] = IF old \/ weary THEN Expedited(est[t]) ELSE est[t]]
    BY DEF SkipTask
  <2>2. CASE old \/ weary
    BY <2>1, <2>2
  <2>3. CASE ~(old \/ weary)
    BY <1>1, <2>1, <2>3
  <2> QED BY <2>2, <2>3
<1>3. Expedited(est[t]) \in Nat /\ Expedited(est[t]) <= MaxExec(t)
  <2>1. est[t] \in Nat /\ est[t] <= MaxExec(t) /\ MaxExec(t) \in Nat
    BY <1>1, LongestRun
  <2> QED BY <2>1, ExpeditedRange
<1>4. est' \in [Tasks -> Nat] /\ \A u \in Tasks : est'[u] <= MaxExec(u)
  BY <1>1, <1>2, <1>3
<1>5. /\ skippedAttempts' \in [EventDriven -> Nat]
      /\ \A u \in EventDriven : skippedAttempts'[u] <= Relax[u]
  <2>1. skippedAttempts' = [u \in EventDriven |->
            IF u = t /\ counts /\ ~weary THEN skippedAttempts[u] + 1
            ELSE skippedAttempts[u]]
    BY DEF SkipTask
  <2>2. \A u \in EventDriven : /\ skippedAttempts[u] \in Nat /\ Relax[u] \in Nat
                               /\ skippedAttempts[u] <= Relax[u]
    BY SchedulerAssumption DEF SchedulerTypeOK
  <2>3. t \in EventDriven /\ counts /\ ~weary => skippedAttempts[t] < Relax[t]
    BY <2>2
  <2> HIDE DEF counts, weary
  <2> QED BY <2>1, <2>2, <2>3
<1> QED
  BY <1>4, <1>5, ChecksKeep DEF SkipTask, Checks

LEMMA TaskPassKeeps ==
    ASSUME SchedulerTypeOK, TaskPass
    PROVE  /\ SchedulerTypeOK'
           /\ MarginsSuffice =>
                 ((left >= 0 /\ left' < 0) \/ Skipped' > Skipped => overdue')
<1>1. PICK fresh \in SUBSET EventDriven, c \in CheckTimes :
        /\ Checks(fresh, c)
        /\ IF Candidates(fresh) = {} THEN NoTask(fresh, c)
           ELSE \/ RunTask(Selected(fresh), fresh, c)
                \/ SkipTask(Selected(fresh), fresh, c)
  BY DEF TaskPass
<1>2. CASE Candidates(fresh) = {}
  <2>1. NoTask(fresh, c)
    BY <1>1, <1>2
  <2>2. /\ anticipatedExecutionTime' \in [Tasks -> Nat]
        /\ \A t \in Tasks : anticipatedExecutionTime'[t] <= MaxExec(t)
        /\ skippedAttempts' \in [EventDriven -> Nat]
        /\ \A t \in EventDriven : skippedAttempts'[t] <= Relax[t]
    BY <2>1 DEF NoTask, SchedulerTypeOK
  <2> QED BY <1>1, <2>1, <2>2, ChecksKeep DEF NoTask, Checks
<1>3. CASE Candidates(fresh) # {}
  <2>1. Selected(fresh) \in Tasks
    BY <1>3, SelectedIsCandidate DEF Candidates
  <2>2. CASE RunTask(Selected(fresh), fresh, c)
    BY <1>1, <2>1, <2>2, RunKeeps DEF Checks
  <2>3. CASE SkipTask(Selected(fresh), fresh, c)
    BY <1>1, <2>1, <2>3, SkipKeeps
  <2> QED BY <1>1, <1>3, <2>2, <2>3
<1> QED BY <1>2, <1>3

LEMMA SchedulerInitType == SchedulerInit => SchedulerTypeOK
<1> SUFFICES ASSUME SchedulerInit PROVE SchedulerTypeOK
  OBVIOUS
<1>1. /\ anticipatedExecutionTime \in [Tasks -> Nat] /\ age \in [Tasks -> Int]
      /\ \A t \in Tasks : anticipatedExecutionTime[t] = 0 /\ age[t] = 0
  BY DEF SchedulerInit
<1>2. \A t \in Tasks : 0 <= MaxExec(t)
  BY LongestRun
<1>3. skippedAttempts \in [EventDriven -> Nat]
         /\ \A t \in EventDriven : skippedAttempts[t] <= Relax[t]
  BY SchedulerAssumption DEF SchedulerInit
<1>4. /\ left \in Int /\ left <= GyroPeriod /\ 0 <= MaxAge
      /\ scheduleCount \in 0..(DeferCount - 1)
      /\ checkCycles \in CheckTimes \cup {0}
      /\ taskGuardCycles \in GuardMin..GuardMax
  BY SchedulerAssumption DEF SchedulerInit
<1>5. signaled \subseteq EventDriven /\ ran \in Tasks \cup {None} /\ overdue \in BOOLEAN
  BY DEF SchedulerInit
<1> QED
  BY <1>1, <1>2, <1>3, <1>4, <1>5 DEF SchedulerTypeOK

OnTime == (left >= 0 /\ left' < 0) \/ Skipped' > Skipped => overdue'

LEMMA SchedulerStep ==
    ASSUME SchedulerTypeOK, [SchedulerNext]_schedulerVars
    PROVE  SchedulerTypeOK' /\ (MarginsSuffice => [OnTime]_schedulerVars)
<1>1. CASE GyroPass
  BY <1>1, GyroPassKeeps DEF OnTime
<1>2. CASE IdlePass
  BY <1>2, IdlePassKeeps DEF OnTime
<1>3. CASE TaskPass
  BY <1>3, TaskPassKeeps DEF OnTime
<1>4. CASE UNCHANGED schedulerVars
  BY <1>4 DEF schedulerVars, SchedulerTypeOK
<1> QED BY <1>1, <1>2, <1>3, <1>4 DEF SchedulerNext

-----------------------------------------------------------------------------
(* The theorems. *)

(* The type invariant: no estimate exceeds the longest run of its task, no  *)
(* guard its maximum, no count of skipped attempts its limit.               *)
THEOREM SchedulerTypeCorrect == SchedulerSpec => []SchedulerTypeOK
BY SchedulerInitType, SchedulerStep, PTL DEF SchedulerSpec

(* As long as the margins the code counts on suffice, the gyro task is late *)
(* only by a task that takes longer than was anticipated, for every queue   *)
(* of tasks and every length of their runs.                                 *)
THEOREM GyroOnTime == MarginsSuffice => (SchedulerSpec => GyroIsOnTime)
<1> SUFFICES ASSUME MarginsSuffice PROVE SchedulerSpec => GyroIsOnTime
  OBVIOUS
<1>1. SchedulerTypeOK /\ [SchedulerNext]_schedulerVars => [OnTime]_schedulerVars
  BY SchedulerStep
<1>2. [][OnTime]_schedulerVars => GyroIsOnTime
  BY PTL DEF GyroIsOnTime, OnTime
<1> QED
  BY <1>1, <1>2, SchedulerTypeCorrect, PTL DEF SchedulerSpec
=============================================================================
