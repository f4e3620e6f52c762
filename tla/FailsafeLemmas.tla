--------------------------- MODULE FailsafeLemmas ---------------------------
(***************************************************************************)
(* What the loop, the reports, the checks and the resets of failsafe.c     *)
(* keep, for every length of the periods and whoever calls them: the       *)
(* types, the lockout and the settled phases, the end of the loop, the     *)
(* steps of LinkLossPromise, and the bound on silence.  FailsafeProofs and *)
(* FlightProofs put the callers around them.                               *)
(***************************************************************************)
EXTENDS LinkHistory, TLAPS

-----------------------------------------------------------------------------
(* Types. *)

FailsafeTyped == RuntimeTypeOK /\ FailsafeTypeOK

Typed == FailsafeTyped /\ HistoryTypeOK

(* The clock moves and nothing else of the failsafe. *)
ClockMoves ==
    /\ ClockTick
    /\ UNCHANGED <<runtimeVars, phase, active, monitoring, rxLinkState,
                   boxFailsafeSwitchWasOn, rxPeriodPreset, configVars, loopVars>>

LEMMA InitTyped == FailsafeInit => FailsafeTypeOK
<1> SUFFICES ASSUME FailsafeInit PROVE FailsafeTypeOK
  OBVIOUS
<1>1. ClocksTypeOK
  BY PeriodsAssumption DEF FailsafeInit, ClocksTypeOK, NotStamped, Expired
<1>2. PhaseTypeOK
  BY DEF FailsafeInit, PhaseTypeOK, Phases
<1>3. SwitchesTypeOK
  BY DEF FailsafeInit, SwitchesTypeOK
<1> QED
  BY <1>1, <1>2, <1>3 DEF FailsafeTypeOK

LEMMA RemainingTime ==
    ASSUME NEW left \in Int, NEW max \in Nat, left \in Expired..max
    PROVE  Shorter(left) \in Expired..max
BY DEF Shorter, Expired

LEMMA ClockTyped ==
    ASSUME FailsafeTyped, ClockMoves
    PROVE  FailsafeTyped'
<1> USE DEF ClockMoves, FailsafeTyped, FailsafeTypeOK
<1>1. RuntimeTypeOK' /\ PhaseTypeOK' /\ SwitchesTypeOK'
  BY DEF RuntimeTypeOK, PhaseTypeOK, SwitchesTypeOK, runtimeVars, configVars,
     loopVars
<1>2. ClocksTypeOK'
  <2> USE PeriodsAssumption DEF ClockTick, ClocksTypeOK
  <2>1. validAge' \in 0..AgeMax
    BY DEF Older
  <2>2. failedAge' \in NotStamped..AgeMax
    BY DEF Older, NotStamped
  <2>3. throttleLowLeft' \in Expired..ThrottleLowDelay
    BY RemainingTime DEF Expired
  <2>4. landingLeft' \in Expired..LandingDelay
    BY RemainingTime DEF Expired
  <2>5. rxPeriodLeft' \in Expired..RecoveryPeriod
    BY RemainingTime DEF Expired
  <2> QED
    BY <2>1, <2>2, <2>3, <2>4, <2>5
<1> QED
  BY <1>1, <1>2

(* One iteration of the loop. *)
LEMMA IterationTyped ==
    ASSUME NEW t \in BOOLEAN, NEW s \in BOOLEAN, NEW c \in BOOLEAN,
           FailsafeTyped, FailsafeIteration(t, s, c)
    PROVE  FailsafeTyped'
<1> USE PeriodsAssumption, SettingsAssumption
        DEF FailsafeTyped, RuntimeTypeOK, FailsafeTypeOK, PhaseTypeOK,
        SwitchesTypeOK, ClocksTypeOK, EndIteration, configVars, Phases,
        ArmingDisableFlags, FlightModes, Expired, NotStamped
<1>1. CASE IdleNotArmed
  <2>1. boxFailsafeSwitchWasOn' \in BOOLEAN
    BY <1>1 DEF IdleNotArmed, IsRcModeActive
  <2>2. /\ UNCHANGED <<phase, active, landingLeft, rxPeriodLeft, rxPeriodPreset,
                       armed, armingDisableFlags, monitoring, rxLinkState,
                       validAge, failedAge, rcModes, procedure, switchMode>>
        /\ flightModeFlags' \subseteq FlightModes
        /\ throttleLowLeft' \in Expired..ThrottleLowDelay
        /\ reprocessState' = FALSE /\ loopArmed' = FALSE /\ loopReceiving' = FALSE
    BY <1>1 DEF IdleNotArmed, Switched, TrackThrottle
  <2> QED
    BY <2>1, <2>2
<1>2. CASE IdleFlying(t)
  <2>1. boxFailsafeSwitchWasOn' \in BOOLEAN
    BY <1>2 DEF IdleFlying, IsRcModeActive
  <2>2. /\ UNCHANGED <<phase, active, landingLeft, rxPeriodLeft, rxPeriodPreset,
                       armed, armingDisableFlags, monitoring, rxLinkState,
                       validAge, failedAge, rcModes, procedure, switchMode>>
        /\ flightModeFlags' \subseteq FlightModes
        /\ throttleLowLeft' \in Expired..ThrottleLowDelay
    BY <1>2 DEF IdleFlying, TrackThrottle
  <2>3. reprocessState' = FALSE /\ loopArmed' = FALSE /\ loopReceiving' = FALSE
    BY <1>2 DEF IdleFlying
  <2> QED
    BY <2>1, <2>2, <2>3
<1>3. CASE IdleDisarms(t)
  <2>1. boxFailsafeSwitchWasOn' \in BOOLEAN
    BY <1>3 DEF IdleDisarms, IsRcModeActive
  <2>2. /\ UNCHANGED <<landingLeft, rxPeriodLeft, armed, armingDisableFlags,
                       monitoring, rxLinkState, validAge, failedAge, rcModes,
                       procedure, switchMode>>
        /\ phase' \in Phases /\ rxPeriodPreset' \in {0, RecoveryPeriod}
        /\ flightModeFlags' \subseteq FlightModes
        /\ throttleLowLeft' \in Expired..ThrottleLowDelay
    BY <1>3 DEF IdleDisarms, TrackThrottle
  <2>3. /\ reprocessState' = TRUE /\ active' = TRUE
        /\ loopArmed' \in BOOLEAN /\ loopReceiving' \in BOOLEAN
    BY <1>3 DEF IdleDisarms
  <2> QED
    BY <2>1, <2>2, <2>3
<1>4. CASE IdleLosesLink(t)
  <2>1. boxFailsafeSwitchWasOn' \in BOOLEAN
    BY <1>4 DEF IdleLosesLink, IsRcModeActive
  <2> QED
    BY <1>4, <2>1 DEF IdleLosesLink, TrackThrottle
<1>5. CASE StartProcedure
  BY <1>5 DEF StartProcedure, ProcedurePhase
<1>6. CASE RecoverLink(s)
  BY <1>6 DEF RecoverLink, MoveTo
<1>7. CASE KeepLanding(c)
  BY <1>7 DEF KeepLanding, StayInPhase
<1>8. CASE FinishLanding(c)
  BY <1>8 DEF FinishLanding, MoveTo
<1>9. CASE KeepRescuing(s)
  BY <1>9 DEF KeepRescuing, StayInPhase
<1>10. CASE FinishRescue
  BY <1>10 DEF FinishRescue, MoveTo
<1>11. CASE Landed
  <2>1. rxPeriodLeft' \in Expired..RecoveryPeriod
    BY <1>11 DEF Landed
  <2> QED
    BY <1>11, <2>1 DEF Landed
<1>12. CASE KeepMonitoring
  <2>1. rxPeriodLeft' \in Expired..RecoveryPeriod
    BY <1>12 DEF KeepMonitoring
  <2> QED
    BY <1>12, <2>1 DEF KeepMonitoring
<1>13. CASE Recovered
  <2>1. throttleLowLeft' \in Expired..ThrottleLowDelay
    BY <1>13 DEF Recovered
  <2> QED
    BY <1>13, <2>1 DEF Recovered
<1> QED
  BY <1>1, <1>2, <1>3, <1>4, <1>5, <1>6, <1>7, <1>8, <1>9, <1>10, <1>11,
     <1>12, <1>13 DEF FailsafeIteration

(* failsafeCheckDataFailurePeriod and the head of failsafeUpdateState. *)
LEMMA CheckTyped ==
    ASSUME FailsafeTyped, FailsafeUpdateState
    PROVE  FailsafeTyped'
<1> USE DEF FailsafeTyped, FailsafeTypeOK, FailsafeUpdateState,
        FailsafeCheckDataFailurePeriod
<1>1. RuntimeTypeOK'
  BY DEF RuntimeTypeOK, ArmingDisableFlags
<1>2. PhaseTypeOK'
  BY DEF PhaseTypeOK, LinkStateAfterCheck, configVars
<1>3. SwitchesTypeOK'
  BY DEF SwitchesTypeOK, SwitchForcesStage2, IsRcModeActive
<1>4. ClocksTypeOK'
  BY DEF ClocksTypeOK, clockVars
<1> QED
  BY <1>1, <1>2, <1>3, <1>4

(* The report of a review. *)
LEMMA ReportTyped ==
    ASSUME FailsafeTyped, monitoring' \in BOOLEAN,
           FailsafeOnValidDataReceived \/ FailsafeOnValidDataFailed,
           UNCHANGED <<armed, flightModeFlags, rcModes>>
    PROVE  FailsafeTyped'
<1> USE DEF FailsafeTyped, FailsafeTypeOK, FailsafeOnValidDataReceived,
        FailsafeOnValidDataFailed
<1>1. RuntimeTypeOK'
  BY DEF RuntimeTypeOK, ArmingDisableFlags
<1>2. PhaseTypeOK'
  BY DEF PhaseTypeOK, configVars
<1>3. SwitchesTypeOK'
  <2>1. UNCHANGED <<active, boxFailsafeSwitchWasOn, reprocessState, loopArmed,
                    loopReceiving>>
    BY DEF loopVars
  <2> QED
    BY <2>1 DEF SwitchesTypeOK
<1>4. ClocksTypeOK'
  BY PeriodsAssumption DEF ClocksTypeOK, NotStamped
<1> QED
  BY <1>1, <1>2, <1>3, <1>4

(* A write of the configuration, and a reload of it. *)
LEMMA WriteTyped ==
    ASSUME FailsafeTyped, FailsafeOnConfigWrite, UNCHANGED runtimeVars
    PROVE  FailsafeTyped'
<1> USE DEF FailsafeTyped, FailsafeTypeOK, FailsafeOnConfigWrite
<1>1. RuntimeTypeOK' /\ PhaseTypeOK'
  BY DEF RuntimeTypeOK, PhaseTypeOK, runtimeVars, configVars
<1>2. SwitchesTypeOK'
  BY DEF SwitchesTypeOK, loopVars
<1>3. ClocksTypeOK'
  BY PeriodsAssumption DEF ClocksTypeOK
<1> QED
  BY <1>1, <1>2, <1>3

LEMMA ReloadTyped ==
    ASSUME FailsafeTyped, FailsafeOnConfigReload, UNCHANGED runtimeVars
    PROVE  FailsafeTyped'
<1> USE DEF FailsafeTyped, FailsafeTypeOK, FailsafeOnConfigReload
<1>1. RuntimeTypeOK' /\ PhaseTypeOK'
  BY DEF RuntimeTypeOK, PhaseTypeOK, Phases, runtimeVars, configVars
<1>2. SwitchesTypeOK'
  BY DEF SwitchesTypeOK, loopVars
<1>3. ClocksTypeOK'
  BY PeriodsAssumption DEF ClocksTypeOK, NotStamped, Expired
<1> QED
  BY <1>1, <1>2, <1>3

(* The other tasks leave the failsafe alone. *)
LEMMA OthersTyped ==
    ASSUME FailsafeTypeOK, UNCHANGED failsafeVars
    PROVE  FailsafeTypeOK'
BY DEF FailsafeTypeOK, PhaseTypeOK, SwitchesTypeOK, ClocksTypeOK, failsafeVars,
   clockVars, configVars, loopVars

(* The records of a flight. *)
LEMMA HistoryTyped ==
    ASSUME HistoryTypeOK, active \in BOOLEAN,
           SilenceGrows \/ silence' \in {0, silence},
           ReloadIsRecorded \/ UNCHANGED reloadedInStage2
    PROVE  HistoryTypeOK'
<1>1. silence' \in 0..SilenceMax
  BY PeriodsAssumption DEF HistoryTypeOK, SilenceMax, SilenceGrows
<1>2. reloadedInStage2' \in BOOLEAN
  BY DEF HistoryTypeOK, ReloadIsRecorded
<1> QED
  BY <1>1, <1>2 DEF HistoryTypeOK

-----------------------------------------------------------------------------
(* Safety.  The lockout is inductive once it is known what the phases mean  *)
(* inside the loop, where SettledPhase says nothing.                        *)

(* Stage 2 is marked active; monitoring follows a disarm that locked        *)
(* arming; and a loss is being detected only for an armed craft.            *)
PhaseMeaning ==
    /\ phase \in {"LANDING", "GPS_RESCUE", "LANDED", "RX_LOSS_MONITORING"}
           => active
    /\ phase = "RX_LOSS_MONITORING" => ~armed /\ "FAILSAFE" \in armingDisableFlags
    /\ phase = "RX_LOSS_DETECTED" => reprocessState /\ loopArmed

SafetyParts ==
    /\ SettledPhase
    /\ LockoutKeepsDisarmed
    /\ StaleArmedIsNeverRead
    /\ PhaseMeaning

LEMMA InitSafety ==
    ASSUME FailsafeInit, ~armed, "FAILSAFE" \notin armingDisableFlags
    PROVE  SafetyParts
BY DEF FailsafeInit, SafetyParts, SettledPhase, LockoutKeepsDisarmed,
   StaleArmedIsNeverRead, PhaseMeaning

(* The loop is where the phases move. *)
LEMMA IterationSafety ==
    ASSUME NEW t \in BOOLEAN, NEW s \in BOOLEAN, NEW c \in BOOLEAN,
           FailsafeTyped, SafetyParts, FailsafeIteration(t, s, c)
    PROVE  SafetyParts'
<1> USE DEF SafetyParts, SettledPhase, LockoutKeepsDisarmed,
        StaleArmedIsNeverRead, PhaseMeaning, EndIteration, IterationAt
<1>1. CASE IdleNotArmed
  BY <1>1 DEF IdleNotArmed
<1>2. CASE IdleFlying(t)
  BY <1>2 DEF IdleFlying
<1>3. CASE IdleDisarms(t)
  BY <1>3 DEF IdleDisarms
<1>4. CASE IdleLosesLink(t)
  BY <1>4 DEF IdleLosesLink
<1>5. CASE StartProcedure
  <2>1. phase' \in {"LANDING", "LANDED", "GPS_RESCUE"}
    BY <1>5, SettingsAssumption DEF StartProcedure, ProcedurePhase,
       FailsafeTyped, FailsafeTypeOK, PhaseTypeOK
  <2> QED
    BY <1>5, <2>1 DEF StartProcedure
<1>6. CASE RecoverLink(s)
  BY <1>6 DEF RecoverLink, MoveTo
<1>7. CASE KeepLanding(c)
  BY <1>7 DEF KeepLanding, StayInPhase
<1>8. CASE FinishLanding(c)
  BY <1>8 DEF FinishLanding, MoveTo
<1>9. CASE KeepRescuing(s)
  BY <1>9 DEF KeepRescuing, StayInPhase
<1>10. CASE FinishRescue
  BY <1>10 DEF FinishRescue, MoveTo
<1>11. CASE Landed
  <2>1. rxPeriodLeft' # Expired
    BY <1>11, PeriodsAssumption DEF Landed, Expired, FailsafeTyped,
       FailsafeTypeOK, ClocksTypeOK
  <2> QED
    BY <1>11, <2>1 DEF Landed
<1>12. CASE KeepMonitoring
  BY <1>12 DEF KeepMonitoring
<1>13. CASE Recovered
  BY <1>13 DEF Recovered
<1> QED
  BY <1>1, <1>2, <1>3, <1>4, <1>5, <1>6, <1>7, <1>8, <1>9, <1>10, <1>11,
     <1>12, <1>13 DEF FailsafeIteration

-----------------------------------------------------------------------------
(* The do-while loop.  Its copies decide which cases follow which, so that  *)
(* no chain of phases comes back to where it began.                         *)

(* How many iterations may follow, this one included. *)
LoopRank ==
    CASE phase = "RX_LOSS_RECOVERED" -> 6
      [] phase = "IDLE"              -> 5
      [] phase = "LANDED"            -> 2
      [] phase = "RX_LOSS_MONITORING" ->
             IF loopReceiving /\ rxPeriodLeft = Expired THEN 7 ELSE 1
      [] phase = "RX_LOSS_DETECTED"  -> IF loopReceiving THEN 7 ELSE 4
      [] phase \in {"LANDING", "GPS_RESCUE"} -> IF loopReceiving THEN 7 ELSE 3

LoopGoesDown == reprocessState' => LoopRank' < LoopRank

LEMMA RankTyped ==
    ASSUME FailsafeTyped
    PROVE  LoopRank \in 1..7
BY DEF FailsafeTyped, FailsafeTypeOK, PhaseTypeOK, Phases, LoopRank

LEMMA IterationGoesDown ==
    ASSUME NEW t \in BOOLEAN, NEW s \in BOOLEAN, NEW c \in BOOLEAN,
           FailsafeTyped, FailsafeIteration(t, s, c)
    PROVE  LoopGoesDown
<1> USE DEF LoopGoesDown, LoopRank, EndIteration, IterationAt
<1>0. loopReceiving \in BOOLEAN
  BY DEF FailsafeTyped, FailsafeTypeOK, SwitchesTypeOK
<1>1. CASE IdleNotArmed \/ IdleFlying(t)
  BY <1>1 DEF IdleNotArmed, IdleFlying
<1>2. CASE IdleDisarms(t) \/ IdleLosesLink(t)
  BY <1>0, <1>2 DEF IdleDisarms, IdleLosesLink
<1>3. CASE StartProcedure
  <2>1. phase' \in {"LANDING", "LANDED", "GPS_RESCUE"}
    BY <1>3, SettingsAssumption DEF StartProcedure, ProcedurePhase,
       FailsafeTyped, FailsafeTypeOK, PhaseTypeOK
  <2> QED
    BY <1>0, <1>3, <2>1 DEF StartProcedure
<1>4. CASE RecoverLink(s)
  BY <1>4 DEF RecoverLink, MoveTo
<1>5. CASE KeepLanding(c) \/ KeepRescuing(s)
  BY <1>5 DEF KeepLanding, KeepRescuing, StayInPhase
<1>6. CASE FinishLanding(c) \/ FinishRescue
  BY <1>0, <1>6 DEF FinishLanding, FinishRescue, MoveTo
<1>7. CASE Landed
  <2>1. rxPeriodPreset # Expired
    BY PeriodsAssumption DEF FailsafeTyped, FailsafeTypeOK, ClocksTypeOK, Expired
  <2> QED
    BY <1>7, <2>1 DEF Landed
<1>8. CASE KeepMonitoring
  BY <1>8 DEF KeepMonitoring
<1>9. CASE Recovered
  BY <1>9 DEF Recovered
<1> QED
  BY <1>1, <1>2, <1>3, <1>4, <1>5, <1>6, <1>7, <1>8, <1>9
     DEF FailsafeIteration

-----------------------------------------------------------------------------
(* What is asked of the other steps.                                        *)

(* What is asked of every other step: it neither sets nor lifts FAILSAFE,   *)
(* and does not arm a craft that has it.                                    *)
HonoursLock ==
    /\ UNCHANGED active
    /\ "FAILSAFE" \in armingDisableFlags' <=> "FAILSAFE" \in armingDisableFlags
    /\ armed' => armed \/ "FAILSAFE" \notin armingDisableFlags

LEMMA CheckHonours == FailsafeUpdateState => HonoursLock
BY DEF FailsafeUpdateState, FailsafeCheckDataFailurePeriod, HonoursLock

LEMMA ReportHonours ==
    ASSUME FailsafeOnValidDataReceived \/ FailsafeOnValidDataFailed,
           UNCHANGED armed
    PROVE  HonoursLock
BY DEF FailsafeOnValidDataReceived, FailsafeOnValidDataFailed, HonoursLock

LEMMA CheckSafety ==
    ASSUME SafetyParts, FailsafeUpdateState
    PROVE  SafetyParts'
BY DEF SafetyParts, SettledPhase, LockoutKeepsDisarmed, StaleArmedIsNeverRead,
   PhaseMeaning, FailsafeUpdateState, FailsafeCheckDataFailurePeriod

LEMMA OthersSafety ==
    ASSUME SafetyParts, HonoursLock, ~reprocessState, ~reprocessState',
           phase' \in {phase, "IDLE"}
    PROVE  SafetyParts'
BY DEF SafetyParts, SettledPhase, LockoutKeepsDisarmed, StaleArmedIsNeverRead,
   PhaseMeaning, HonoursLock

-----------------------------------------------------------------------------
(* Refinement.  A phase change of the failsafe is seen by the promise only  *)
(* through active and the FAILSAFE inhibition.                              *)

LEMMA InitImplementsPromise ==
    ASSUME FailsafeInit, armed = FALSE, "FAILSAFE" \notin armingDisableFlags
    PROVE  Promise!PromiseInit
BY DEF FailsafeInit, Promise!PromiseInit

StageUnchanged ==
    UNCHANGED <<armed, active>> /\
    ("FAILSAFE" \in armingDisableFlags' <=> "FAILSAFE" \in armingDisableFlags)

LEMMA StutterImplementsPromise ==
    StageUnchanged => UNCHANGED Promise!promiseVars
BY DEF StageUnchanged, Promise!promiseVars

LEMMA IterationImplementsPromise ==
    ASSUME NEW t \in BOOLEAN, NEW s \in BOOLEAN, NEW c \in BOOLEAN,
           FailsafeTyped, SafetyParts, FailsafeIteration(t, s, c)
    PROVE  [Promise!PromiseNext]_(Promise!promiseVars)
<1> USE DEF SafetyParts, EndIteration, IterationAt, StageUnchanged
<1>1. CASE IdleNotArmed
  BY <1>1, StutterImplementsPromise DEF IdleNotArmed
<1>2. CASE IdleFlying(t)
  BY <1>2, StutterImplementsPromise DEF IdleFlying
<1>3. CASE IdleDisarms(t)
  <2>1. armed
    BY <1>3 DEF IdleDisarms, StaleArmedIsNeverRead
  <2>2. "FAILSAFE" \notin armingDisableFlags
    BY <2>1 DEF LockoutKeepsDisarmed
  <2> QED
    BY <1>3, <2>1, <2>2 DEF IdleDisarms, Promise!PromiseNext, Promise!LoseLink,
       Promise!promiseVars
<1>4. CASE IdleLosesLink(t)
  BY <1>4, StutterImplementsPromise DEF IdleLosesLink
<1>5. CASE StartProcedure
  <2>1. armed
    BY <1>5 DEF StartProcedure, StaleArmedIsNeverRead, PhaseMeaning
  <2>2. "FAILSAFE" \notin armingDisableFlags
    BY <2>1 DEF LockoutKeepsDisarmed
  <2> QED
    BY <1>5, <2>1, <2>2 DEF StartProcedure, Promise!PromiseNext,
       Promise!LoseLink, Promise!promiseVars
<1>6. CASE RecoverLink(s)
  BY <1>6, StutterImplementsPromise DEF RecoverLink, MoveTo
<1>7. CASE KeepLanding(c)
  BY <1>7, StutterImplementsPromise DEF KeepLanding, StayInPhase
<1>8. CASE FinishLanding(c)
  BY <1>8, StutterImplementsPromise DEF FinishLanding, MoveTo
<1>9. CASE KeepRescuing(s)
  BY <1>9, StutterImplementsPromise DEF KeepRescuing, StayInPhase
<1>10. CASE FinishRescue
  BY <1>10, StutterImplementsPromise DEF FinishRescue, MoveTo
<1>11. CASE Landed
  <2>1. active
    BY <1>11 DEF Landed, PhaseMeaning
  <2>2. CASE "FAILSAFE" \in armingDisableFlags
    <3>1. ~armed /\ "FAILSAFE" \in armingDisableFlags'
      BY <1>11, <2>2 DEF Landed, LockoutKeepsDisarmed
    <3>2. UNCHANGED armed
      BY <1>11, <3>1 DEF Landed, FailsafeTyped, RuntimeTypeOK
    <3> QED
      BY <2>2, <3>1, <3>2 DEF Promise!promiseVars
  <2>3. CASE "FAILSAFE" \notin armingDisableFlags
    BY <1>11, <2>1, <2>3 DEF Landed, Promise!PromiseNext, Promise!GiveUp
  <2> QED
    BY <2>2, <2>3
<1>12. CASE KeepMonitoring
  BY <1>12, StutterImplementsPromise DEF KeepMonitoring
<1>13. CASE Recovered
  BY <1>13 DEF Recovered, Promise!PromiseNext, Promise!Recover,
     Promise!promiseVars
<1> QED
  BY <1>1, <1>2, <1>3, <1>4, <1>5, <1>6, <1>7, <1>8, <1>9, <1>10, <1>11,
     <1>12, <1>13 DEF FailsafeIteration

(* Arming and disarming by the other tasks. *)
LEMMA OthersImplementPromise ==
    ASSUME HonoursLock, armed \in BOOLEAN, armed' \in BOOLEAN
    PROVE  [Promise!PromiseNext]_(Promise!promiseVars)
<1>1. CASE armed' /\ ~armed
  BY <1>1 DEF HonoursLock, Promise!PromiseNext, Promise!Arm
<1>2. CASE armed /\ ~armed'
  BY <1>2 DEF HonoursLock, Promise!PromiseNext, Promise!Disarm
<1>3. CASE armed' = armed
  BY <1>3, StutterImplementsPromise DEF HonoursLock, StageUnchanged
<1> QED
  BY <1>1, <1>2, <1>3

-----------------------------------------------------------------------------
(* The bound on silence.  Five clocks are related: the history silence, the *)
(* age of the last valid data, the recovery of the arming inhibition, the   *)
(* landing deadline, and whether the failsafe has run since the last tick.  *)

(* Nobody arms, and the monitoring is on, once a tick has passed in silence *)
(* and the RX task has run since.                                           *)
JustHeard == silence <= 1 /\ ("RX" \in tasksDone => silence = 0)

HeardOK ==
    /\ "RX_FAILSAFE" \notin armingDisableFlags => JustHeard
    /\ armed /\ ~monitoring => JustHeard

(* A configuration write renews the age, but only of a disarmed craft. *)
AgeOK == armed => silence <= validAge \/ validAge = AgeMax

LoopOK ==
    /\ reprocessState /\ loopReceiving => validAge <= FailurePeriod
    /\ reprocessState /\ armed => loopArmed
    /\ phase = "GPS_RESCUE" => procedure = "GPS_RESCUE"

Chosen == armed /\ procedure # "GPS_RESCUE"

(* How long the silence may be in each phase of an armed craft, and how     *)
(* much of the landing time is left.                                        *)
LandingOK ==
    /\ silence <= FailurePeriod + LandingDelay + 2
    /\ landingLeft # Expired =>
           silence + landingLeft <= FailurePeriod + LandingDelay + 1

PhaseBound ==
    /\ phase = "LANDED" => silence <= FailurePeriod + LandingDelay + 2
    /\ phase = "LANDING" => LandingOK
    /\ phase \in {"IDLE", "RX_LOSS_DETECTED", "RX_LOSS_RECOVERED"}
           => silence <= FailurePeriod + 1

(* When the failsafe has run since the last tick it is a tick shorter. *)
CheckedBound ==
    ~reprocessState /\ "FAILSAFE" \in tasksDone =>
        /\ phase = "LANDING" => silence <= FailurePeriod + LandingDelay + 1
        /\ phase = "IDLE" => silence <= FailurePeriod

SilenceInv ==
    HeardOK /\ AgeOK /\ LoopOK /\ (Chosen => PhaseBound /\ CheckedBound)

LEMMA Times ==
    ASSUME Typed
    PROVE  /\ silence \in Nat /\ silence <= SilenceMax
           /\ SilenceMax = FailurePeriod + LandingDelay + 3
           /\ validAge \in Nat /\ validAge <= AgeMax
           /\ landingLeft \in Int /\ landingLeft >= Expired
           /\ landingLeft <= LandingDelay
           /\ FailurePeriod \in Nat /\ FailurePeriod > 0 /\ LandingDelay \in Nat
           /\ AgeMax \in Nat /\ AgeMax > FailurePeriod
BY PeriodsAssumption DEF Typed, FailsafeTyped, FailsafeTypeOK, ClocksTypeOK,
   HistoryTypeOK, SilenceMax, Expired

(* The link is still up for the loop only if not much silence has passed.   *)
LEMMA ReceivingIsRecent ==
    ASSUME Typed, AgeOK, LoopOK, armed, reprocessState, loopReceiving
    PROVE  silence <= FailurePeriod
BY Times DEF AgeOK, LoopOK

LEMMA InitSilence ==
    ASSUME FailsafeInit, HistoryInit, ~armed, "RX" \notin tasksDone
    PROVE  SilenceInv
BY DEF FailsafeInit, HistoryInit, SilenceInv, HeardOK, AgeOK, LoopOK, Chosen,
   JustHeard

LEMMA TickSilence ==
    ASSUME Typed, SafetyParts, SilenceInv, ~reprocessState, ClockMoves,
           SilenceGrows, tasksDone = PeriodicTasks, tasksDone' = {}
    PROVE  SilenceInv'
<1>1. Typed
  OBVIOUS
<1>2. /\ UNCHANGED <<armed, armingDisableFlags, monitoring, phase, procedure,
                     reprocessState, loopArmed, loopReceiving>>
      /\ ~reprocessState /\ tasksDone = {"RX", "FAILSAFE"} /\ tasksDone' = {}
      /\ silence' = IF silence < SilenceMax THEN silence + 1 ELSE SilenceMax
      /\ validAge' = Older(validAge) /\ landingLeft' = Shorter(landingLeft)
  BY DEF ClockMoves, ClockTick, SilenceGrows, runtimeVars, configVars, loopVars, PeriodicTasks
<1>3. silence' \in Nat /\ silence' <= silence + 1
  BY <1>1, <1>2, Times
<1>4. HeardOK'
  <2>1. JustHeard => JustHeard'
    BY <1>1, <1>2, <1>3, Times DEF JustHeard
  <2> QED
    BY <1>2, <2>1 DEF SilenceInv, HeardOK
<1>5. AgeOK'
  BY <1>1, <1>2, <1>3, Times DEF SilenceInv, AgeOK, Older
<1>6. LoopOK'
  BY <1>2 DEF SilenceInv, LoopOK
<1>7. Chosen' => PhaseBound' /\ CheckedBound'
  <2> SUFFICES ASSUME Chosen' PROVE PhaseBound' /\ CheckedBound'
    OBVIOUS
  <2>1. Chosen /\ PhaseBound /\ CheckedBound
    BY <1>2 DEF Chosen, SilenceInv
  <2>2. phase \in {"IDLE", "LANDING", "GPS_RESCUE"}
    BY <1>2, <2>1 DEF SafetyParts, SettledPhase, Chosen
  <2>3. phase = "IDLE" => silence' <= FailurePeriod + 1
    BY <1>1, <1>2, <1>3, <2>1, Times DEF CheckedBound
  <2>4. phase = "LANDING" => LandingOK'
    <3>1. silence' <= FailurePeriod + LandingDelay + 2
            \/ phase # "LANDING"
      BY <1>1, <1>2, <1>3, <2>1, Times DEF CheckedBound
    <3>2. landingLeft' # Expired =>
              landingLeft # Expired /\ landingLeft' = landingLeft - 1
      BY <1>1, <1>2, Times DEF Shorter, Expired
    <3>3. phase = "LANDING" /\ landingLeft' # Expired =>
              silence' + landingLeft' <= FailurePeriod + LandingDelay + 1
      BY <1>1, <1>3, <2>1, <3>2, Times DEF LandingOK, PhaseBound
    <3> QED
      BY <3>1, <3>3 DEF LandingOK
  <2> QED
    BY <1>2, <2>2, <2>3, <2>4 DEF PhaseBound, CheckedBound
<1> QED
  BY <1>4, <1>5, <1>6, <1>7 DEF SilenceInv

(* The loop: it disarms or lands in the tick in which stage 1 is over, and  *)
(* disarms in the one in which the landing is.                              *)
LEMMA IterationSilence ==
    ASSUME NEW t \in BOOLEAN, NEW s \in BOOLEAN, NEW c \in BOOLEAN,
           Typed, SafetyParts, SilenceInv, FailsafeIteration(t, s, c),
           UNCHANGED <<tasksDone, silence>>
    PROVE  SilenceInv'
<1>1. Typed
  OBVIOUS
<1>2. /\ reprocessState
      /\ UNCHANGED <<monitoring, validAge, procedure>>
      /\ loopReceiving' = (reprocessState' /\ loopReceiving)
      /\ loopArmed' = (reprocessState' /\ loopArmed)
      /\ armed' => armed
      /\ "RX_FAILSAFE" \notin armingDisableFlags'
             => "RX_FAILSAFE" \notin armingDisableFlags
      /\ phase' = "GPS_RESCUE" => phase = "GPS_RESCUE" \/ procedure = "GPS_RESCUE"
  BY SettingsAssumption, <1>1
     DEF FailsafeIteration, EndIteration, IterationAt, configVars, IdleNotArmed,
     IdleFlying, IdleDisarms, IdleLosesLink, StartProcedure, ProcedurePhase,
     RecoverLink, MoveTo, StayInPhase, KeepLanding, FinishLanding, KeepRescuing,
     FinishRescue, Landed, KeepMonitoring, Recovered, Typed, FailsafeTyped,
     FailsafeTypeOK, PhaseTypeOK
<1>3. HeardOK' /\ AgeOK' /\ LoopOK'
  BY <1>2 DEF SilenceInv, HeardOK, JustHeard, AgeOK, LoopOK
<1>4. Chosen' => PhaseBound' /\ CheckedBound'
  <2> SUFFICES ASSUME Chosen' PROVE PhaseBound' /\ CheckedBound'
    OBVIOUS
  <2>1. armed /\ loopArmed /\ procedure # "GPS_RESCUE" /\ PhaseBound /\ LoopOK
    BY <1>2 DEF Chosen, SilenceInv, LoopOK
  <2>2. loopReceiving => silence <= FailurePeriod
    BY <1>1, <1>2, <2>1, ReceivingIsRecent DEF SilenceInv
  <2>3. phase # "RX_LOSS_MONITORING" /\ phase # "GPS_RESCUE"
    BY <2>1 DEF SafetyParts, PhaseMeaning, LoopOK
  <2> USE DEF PhaseBound, CheckedBound, LandingOK, EndIteration, IterationAt
  <2>4. CASE IdleNotArmed \/ Landed \/ KeepMonitoring \/ KeepRescuing(s)
                \/ FinishRescue
    BY <2>1, <2>3, <2>4 DEF IdleNotArmed, Landed, KeepMonitoring, KeepRescuing,
       FinishRescue, Chosen
  <2>5. CASE IdleFlying(t)
    BY <1>1, <2>2, <2>5, Times DEF IdleFlying
  <2>6. CASE IdleDisarms(t)
    BY <1>1, <2>1, <2>6, Times DEF IdleDisarms
  <2>7. CASE IdleLosesLink(t)
    BY <1>1, <2>1, <2>7, Times DEF IdleLosesLink
  <2>8. CASE StartProcedure
    <3>1. silence <= FailurePeriod + 1
      BY <2>1, <2>8 DEF StartProcedure
    <3>2. phase' \in {"LANDING", "LANDED"} /\ reprocessState'
             /\ (phase' = "LANDING" => landingLeft' = LandingDelay)
      BY <1>1, <2>1, <2>8, SettingsAssumption DEF StartProcedure, ProcedurePhase,
         Typed, FailsafeTyped, FailsafeTypeOK, PhaseTypeOK
    <3> QED
      BY <1>1, <3>1, <3>2, Times
  <2>9. CASE RecoverLink(s)
    BY <1>1, <2>2, <2>9, Times DEF RecoverLink, MoveTo
  <2>10. CASE KeepLanding(c)
    <3>1. /\ phase = "LANDING" /\ landingLeft # Expired
          /\ UNCHANGED <<phase, landingLeft>>
      BY <2>10 DEF KeepLanding, StayInPhase
    <3>2. silence + landingLeft <= FailurePeriod + LandingDelay + 1
            /\ landingLeft >= 0
      BY <1>1, <2>1, <3>1, Times DEF Expired
    <3> QED
      BY <1>1, <3>1, <3>2, Times
  <2>11. CASE FinishLanding(c)
    BY <1>1, <2>1, <2>11, Times DEF FinishLanding, MoveTo
  <2>12. CASE Recovered
    BY <1>1, <2>1, <2>12, Times DEF Recovered
  <2> QED
    BY <2>4, <2>5, <2>6, <2>7, <2>8, <2>9, <2>10, <2>11, <2>12
       DEF FailsafeIteration
<1> QED
  BY <1>3, <1>4 DEF SilenceInv

(* The check that begins a run of the failsafe. *)
LEMMA CheckSilence ==
    ASSUME Typed, SilenceInv, FailsafeUpdateState, UNCHANGED silence,
           tasksDone' = tasksDone \cup {"FAILSAFE"}
    PROVE  SilenceInv'
<1> USE DEF SilenceInv, HeardOK, JustHeard, AgeOK, LoopOK, Chosen, PhaseBound,
        CheckedBound, LandingOK
<1>1. /\ UNCHANGED <<armed, monitoring, validAge, procedure, phase, silence,
                     landingLeft>>
      /\ reprocessState' = monitoring /\ ~reprocessState
      /\ reprocessState' /\ armed => loopArmed'
      /\ reprocessState' /\ loopReceiving' => ~(validAge > FailurePeriod)
      /\ "RX_FAILSAFE" \notin armingDisableFlags'
             => "RX_FAILSAFE" \notin armingDisableFlags
      /\ "RX" \in tasksDone' => "RX" \in tasksDone
  BY DEF FailsafeUpdateState, LinkStateAfterCheck,
     FailsafeCheckDataFailurePeriod, clockVars, configVars
<1>2. HeardOK' /\ AgeOK' /\ LoopOK'
  BY <1>1, Times
<1>3. Chosen' => PhaseBound' /\ CheckedBound'
  BY <1>1, Times
<1> QED
  BY <1>2, <1>3

(* Valid data ends the silence. *)
LEMMA HeardSilence ==
    ASSUME Typed, SilenceInv, ~reprocessState, FailsafeOnValidDataReceived,
           silence' = 0, UNCHANGED armed
    PROVE  SilenceInv'
<1>1. /\ validAge' = 0
      /\ UNCHANGED <<phase, procedure, landingLeft, reprocessState>>
  BY DEF FailsafeOnValidDataReceived, configVars, loopVars
<1>2. landingLeft <= FailurePeriod + LandingDelay + 1
  BY Times
<1> QED
  BY <1>1, <1>2, Times DEF SilenceInv, HeardOK, JustHeard, AgeOK, LoopOK, Chosen,
     PhaseBound, CheckedBound, LandingOK

(* An armed craft that hears nothing is monitored. *)
LEMMA MissedSilence ==
    ASSUME Typed, SilenceInv, ~reprocessState, FailsafeOnValidDataFailed,
           UNCHANGED <<armed, silence>>, armed => monitoring',
           "FAILSAFE" \in tasksDone' => "FAILSAFE" \in tasksDone
    PROVE  SilenceInv'
<1>1. /\ "RX_FAILSAFE" \in armingDisableFlags'
      /\ UNCHANGED <<phase, procedure, landingLeft, reprocessState, validAge>>
  BY DEF FailsafeOnValidDataFailed, configVars, loopVars
<1> QED
  BY <1>1 DEF SilenceInv, HeardOK, JustHeard, AgeOK, LoopOK, Chosen, PhaseBound,
     CheckedBound, LandingOK

(* The configuration is written and reloaded disarmed only. *)
LEMMA ConfigSilence ==
    ASSUME SilenceInv, ~reprocessState, ~armed,
           FailsafeOnConfigWrite \/ FailsafeOnConfigReload,
           UNCHANGED <<runtimeVars, tasksDone, silence>>
    PROVE  SilenceInv'
BY DEF SilenceInv, HeardOK, JustHeard, AgeOK, LoopOK, Chosen, runtimeVars,
   FailsafeOnConfigWrite, FailsafeOnConfigReload, configVars, loopVars

(* Who arms has just heard the radio: RX_FAILSAFE inhibits it otherwise.    *)
LEMMA OthersSilence ==
    ASSUME Typed, SilenceInv, ~reprocessState,
           UNCHANGED <<failsafeVars, tasksDone, silence>>,
           "RX_FAILSAFE" \in armingDisableFlags
               => "RX_FAILSAFE" \in armingDisableFlags',
           armed' => armed \/ /\ "RX_FAILSAFE" \notin armingDisableFlags
                               /\ "RX" \in tasksDone
    PROVE  SilenceInv'
<1>1. UNCHANGED <<monitoring, phase, procedure, landingLeft, reprocessState,
                  validAge>>
  BY DEF failsafeVars, clockVars, configVars, loopVars
<1>2. armed' => armed \/ silence = 0
  BY DEF SilenceInv, HeardOK, JustHeard
<1>3. landingLeft <= FailurePeriod + LandingDelay + 1
  BY Times
<1> QED
  BY <1>1, <1>2, <1>3, Times DEF SilenceInv, HeardOK, JustHeard, AgeOK, LoopOK,
     Chosen, PhaseBound, CheckedBound, LandingOK

(* The invariants bound the silence an armed craft flies in. *)
LEMMA SilenceIsBounded ==
    ASSUME Typed, SafetyParts, SilenceInv
    PROVE  SilentCraftIsDisarmed
<1> SUFFICES ASSUME Chosen PROVE silence <= FailurePeriod + LandingDelay + 2
  BY DEF SilentCraftIsDisarmed, Chosen
<1>1. PhaseBound
  BY DEF SilenceInv
<1>2. phase # "RX_LOSS_MONITORING" /\ phase # "GPS_RESCUE" /\ phase \in Phases
  BY DEF SafetyParts, PhaseMeaning, SilenceInv, LoopOK, Chosen, Typed,
     FailsafeTyped, FailsafeTypeOK, PhaseTypeOK
<1> QED
  BY <1>1, <1>2, Times DEF PhaseBound, LandingOK, Phases
=============================================================================
