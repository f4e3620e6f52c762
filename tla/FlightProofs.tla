---------------------------- MODULE FlightProofs ----------------------------
(***************************************************************************)
(* Theorems about the composition, for every length of the periods and     *)
(* every set of used boxes: its type invariant; the lockout, the settled   *)
(* phases and the promise of the failsafe, kept by the whole control loop; *)
(* the lock of an automatic disarm; the sticky BOXPARALYZE and the throw   *)
(* that arms; that rx.c, core.c and the tasks do what FailsafeSystem       *)
(* assumes of them; and the bound on silence.                              *)
(***************************************************************************)
EXTENDS FlightHistory, FailsafeLemmas

-----------------------------------------------------------------------------
(* Type correctness. *)

(* The clocks that run down stay in their periods. *)
LEMMA TickTyped ==
    FailsafeTyped /\ RxTypeOK /\ Tick => FailsafeTyped' /\ RxTypeOK'
<1> SUFFICES ASSUME FailsafeTyped, RxTypeOK, Tick
             PROVE  FailsafeTyped' /\ RxTypeOK'
  OBVIOUS
<1>1. FailsafeTyped'
  BY ClockTyped DEF Tick, ClockMoves
<1>2. RxTypeOK'
  BY RxAssumption DEF Tick, RxTypeOK, RxTick
<1> QED
  BY <1>1, <1>2

(* What a review makes of a frame fits rcData, and its report the failsafe. *)
LEMMA ReviewTyped ==
    ASSUME NEW frame \in Frames, NEW signal \in BOOLEAN,
           FailsafeTyped, RxTypeOK, RxCheck(frame, signal)
    PROVE  FailsafeTyped' /\ RxTypeOK'
<1>1. RxTypeOK'
  <2> USE DEF RxCheck, ReviewFrame, RxTypeOK
  <2>1. rcThrottle' \in {"low", "high"}
    BY RxAssumption DEF AcceptedThrottle, Frames, FlightChannelIsValid
  <2>2. rcSwitches' \subseteq UsedBoxes
    BY DEF AcceptedSwitches, Frames
  <2>3. holdLeft' \in 0..HoldPeriod
    BY RxAssumption
  <2>4. rxSignalReceived' \in BOOLEAN
    OBVIOUS
  <2> QED
    BY <2>1, <2>2, <2>3, <2>4
<1>2. monitoring' \in BOOLEAN
  BY DEF RxCheck, MonitorWhenPoweredOn, FailsafeStartMonitoring, FailsafeTyped,
     FailsafeTypeOK, SwitchesTypeOK
<1>3. FailsafeTyped'
  BY <1>2, ReportTyped DEF RxCheck, ReviewFrame
<1> QED
  BY <1>1, <1>3

(* updateArmingStatus knows no other inhibition. *)
LEMMA StatusTyped ==
    ASSUME armingDisableFlags \subseteq ArmingDisableFlags, NEW m \in BOOLEAN
    PROVE  StatusFlags(m) \subseteq ArmingDisableFlags
<1> USE DEF ArmingDisableFlags
<1>1. ASSUME NEW f, f \subseteq ArmingDisableFlags
      PROVE  AfterRxRecovery(f) \subseteq ArmingDisableFlags
  BY <1>1 DEF AfterRxRecovery
<1>2. ASSUME NEW f, f \subseteq ArmingDisableFlags
      PROVE  AfterConditions(f) \subseteq ArmingDisableFlags
  BY <1>2 DEF AfterConditions, Switched
<1>3. ASSUME NEW f, f \subseteq ArmingDisableFlags
      PROVE  AfterArmSwitch(f) \subseteq ArmingDisableFlags
  BY <1>3 DEF AfterArmSwitch
<1>4. ASSUME NEW f, f \subseteq ArmingDisableFlags
      PROVE  AfterThrow(f) \subseteq ArmingDisableFlags
  BY <1>4 DEF AfterThrow, Switched
<1>5. armingDisableFlags \ {"BOOT_GRACE_TIME"} \subseteq ArmingDisableFlags
  OBVIOUS
<1> QED
  BY <1>1, <1>2, <1>3, <1>4, <1>5 DEF StatusFlags

LEMMA UpdateTyped ==
    ASSUME armingDisableFlags \subseteq ArmingDisableFlags,
           hadRx \in BOOLEAN, rxSignalReceived \in BOOLEAN, UpdateArmingStatus
    PROVE  /\ armingDisableFlags' \subseteq ArmingDisableFlags
           /\ hadRx' \in BOOLEAN
BY StatusTyped DEF UpdateArmingStatus

(* The arm switch, the modes and the counter of its passes. *)
LEMMA ModesTyped == CoreTypeOK /\ RxModes => CoreTypeOK'
<1> SUFFICES ASSUME CoreTypeOK, RxModes PROVE CoreTypeOK'
  OBVIOUS
<1> USE DEF CoreTypeOK, RxModes, ProcessRxModes
<1>1. /\ armingDisableFlags' \subseteq ArmingDisableFlags
      /\ armed' \in BOOLEAN
      /\ hadRx' \in BOOLEAN
      /\ rcDisarmTicks' \in 0..DisarmTicksMax
  <2> USE DEF RuntimeTypeOK, ArmingTypeOK, RxTypeOK, ProcessRcStickPositions,
          ProcessArmSwitch, DisarmTicksMax
  <2>1. CASE IsRcModeActive("BOXPARALYZE") /\ ~armed
    BY <2>1
  <2>2. CASE ~(IsRcModeActive("BOXPARALYZE") /\ ~armed) /\ ArmSwitchOn
    <3>1. /\ armingDisableFlags' \subseteq ArmingDisableFlags
          /\ hadRx' \in BOOLEAN /\ rcDisarmTicks' = 0
      BY <2>2, UpdateTyped DEF TryArm
    <3>2. PICK beaconSounds \in BOOLEAN :
             armed' = (armed \/ (armingDisableFlags' = {} /\ ~beaconSounds))
      BY <2>2 DEF TryArm
    <3>3. armed' \in BOOLEAN
      BY <3>2
    <3> QED
      BY <3>1, <3>3
  <2>3. CASE ~(IsRcModeActive("BOXPARALYZE") /\ ~armed) /\ ~ArmSwitchOn
    <3>1. CASE SwitchMayDisarm
      <4>1. armed' \in BOOLEAN
        <5>1. armed' = (rcDisarmTicks' <= 3)
          BY <2>3, <3>1 DEF CountDisarmTick
        <5>2. CASE rcDisarmTicks' <= 3
          BY <5>1, <5>2
        <5>3. CASE ~(rcDisarmTicks' <= 3)
          BY <5>1, <5>3
        <5> QED
          BY <5>2, <5>3
      <4>2. UNCHANGED <<armingDisableFlags, hadRx>>
        BY <2>3, <3>1
      <4>3. rcDisarmTicks' \in 0..DisarmTicksMax
        <5>1. rcDisarmTicks' = IF rcDisarmTicks < DisarmTicksMax
                                   THEN rcDisarmTicks + 1 ELSE DisarmTicksMax
          BY <2>3, <3>1 DEF CountDisarmTick
        <5> QED
          BY <5>1
      <4> QED
        BY <4>1, <4>2, <4>3
    <3> QED
      BY <2>3, <3>1
  <2> QED
    BY <2>1, <2>2, <2>3
<1>2. rcModes' \subseteq Boxes /\ paralyzeWasOff' \in BOOLEAN
      /\ UNCHANGED powerOnDelayOver
  BY RxAssumption DEF UpdateActivatedModes, RuntimeTypeOK, RxTypeOK,
     ArmingTypeOK, Switched, Boxes
<1>3. flightModeFlags' \subseteq FlightModes
  BY DEF RuntimeTypeOK, Switched, FlightModes
<1>4. FailsafeTypeOK' /\ RxTypeOK'
  BY OthersTyped DEF rxVars, RxTypeOK
<1> QED
  BY <1>1, <1>2, <1>3, <1>4 DEF RuntimeTypeOK, ArmingTypeOK

LEMMA ThrowTyped ==
    ASSUME throwState \in ThrowStates, UpdateThrowFallStateMachine
    PROVE  throwState' \in ThrowStates
<1>1. ASSUME NEW from \in ThrowStates, NEW canEnable \in BOOLEAN
      PROVE  ThrowCase(from, canEnable) \subseteq ThrowStates
  BY DEF ThrowCase, ThrowStates
<1>2. PICK otherDisable \in BOOLEAN :
        LET disabled == ThrowDisabled \/ otherDisable
            from     == IF disabled /\ ThrowInProgress THEN "IDLE"
                                                       ELSE throwState
        IN  throwState' \in ThrowCase(from, ~disabled)
  BY DEF UpdateThrowFallStateMachine
<1> DEFINE disabled == ThrowDisabled \/ otherDisable
           from     == IF disabled /\ ThrowInProgress THEN "IDLE"
                                                      ELSE throwState
<1>3. from \in ThrowStates /\ (~disabled) \in BOOLEAN
  BY DEF ThrowStates
<1>4. throwState' \in ThrowCase(from, ~disabled)
  BY <1>2
<1> HIDE DEF disabled, from
<1> QED
  BY <1>1, <1>3, <1>4

LEMMA CoreInitTyped == CoreInit => CoreTypeOK
<1> SUFFICES ASSUME CoreInit PROVE CoreTypeOK
  OBVIOUS
<1>1. RuntimeTypeOK
  BY DEF CoreInit, RuntimeTypeOK, ArmingDisableFlags
<1>2. FailsafeTypeOK
  BY InitTyped DEF CoreInit
<1>3. RxTypeOK
  <2>1. rxSignalReceived \in BOOLEAN
    BY DEF CoreInit, RxInit
  <2>2. holdLeft \in 0..HoldPeriod
    BY RxAssumption DEF CoreInit, RxInit
  <2> QED
    BY <2>1, <2>2 DEF CoreInit, RxInit, RxTypeOK
<1>4. ArmingTypeOK
  <2>1. hadRx = FALSE /\ paralyzeWasOff = FALSE /\ powerOnDelayOver = FALSE
    BY DEF CoreInit, ArmingInit
  <2>2. rcDisarmTicks \in 0..DisarmTicksMax /\ throwState \in ThrowStates
    BY DEF CoreInit, ArmingInit, DisarmTicksMax, ThrowStates
  <2> QED
    BY <2>1, <2>2 DEF ArmingTypeOK
<1> QED
  BY <1>1, <1>2, <1>3, <1>4 DEF CoreInit, CoreTypeOK

LEMMA CoreStepTyped == CoreTypeOK /\ [CoreNext]_coreVars => CoreTypeOK'
<1> SUFFICES ASSUME CoreTypeOK, [CoreNext]_coreVars PROVE CoreTypeOK'
  OBVIOUS
<1> USE DEF CoreTypeOK
<1>0. FailsafeTyped
  BY DEF FailsafeTyped
<1>1. CASE Tick
  <2>1. FailsafeTyped' /\ RxTypeOK'
    BY <1>0, <1>1, TickTyped
  <2>2. ArmingTypeOK' /\ UNCHANGED rxState /\ tasksDone' = {}
    BY <1>1 DEF Tick, ArmingTypeOK, armingVars
  <2> QED
    BY <2>1, <2>2 DEF FailsafeTyped
<1>2. CASE RunFailsafe
  <2>1. FailsafeTyped'
    BY <1>0, <1>2, CheckTyped DEF RunFailsafe
  <2>2. /\ RxTypeOK' /\ ArmingTypeOK' /\ UNCHANGED rxState
        /\ tasksDone' = tasksDone \cup {"FAILSAFE"}
    BY <1>2 DEF RunFailsafe, RxTypeOK, ArmingTypeOK, rxVars, armingVars
  <2> QED
    BY <2>1, <2>2 DEF FailsafeTyped, PeriodicTasks
<1>3. CASE FailsafeLoop
  <2>1. FailsafeTyped'
    BY <1>0, <1>3, IterationTyped DEF FailsafeLoop
  <2>2. RxTypeOK' /\ ArmingTypeOK' /\ UNCHANGED <<rxState, tasksDone>>
    BY <1>3 DEF FailsafeLoop, RxTypeOK, ArmingTypeOK, rxVars, armingVars
  <2> QED
    BY <2>1, <2>2 DEF FailsafeTyped
<1>4. CASE PowerOnDelayEnds
  <2>1. FailsafeTyped' /\ RxTypeOK'
    BY <1>0, <1>4, OthersTyped DEF PowerOnDelayEnds, FailsafeTyped, RuntimeTypeOK,
       RxTypeOK, runtimeVars, rxVars
  <2>2. ArmingTypeOK' /\ UNCHANGED <<rxState, tasksDone>>
    BY <1>4 DEF PowerOnDelayEnds, ArmingTypeOK
  <2> QED
    BY <2>1, <2>2 DEF FailsafeTyped
<1>5. ASSUME NEW frame \in Frames, NEW signal \in BOOLEAN,
             RxCheck(frame, signal)
      PROVE  CoreTypeOK'
  <2>1. FailsafeTyped' /\ RxTypeOK'
    BY <1>0, <1>5, ReviewTyped
  <2>2. /\ ArmingTypeOK' /\ rxState' = "MODES"
        /\ tasksDone' = tasksDone \cup {"RX"}
    BY <1>5 DEF RxCheck, ArmingTypeOK, armingVars
  <2> QED
    BY <2>1, <2>2 DEF FailsafeTyped, PeriodicTasks
<1>6. CASE RxModes
  BY <1>6, ModesTyped
<1>7. CASE RxUpdate
  <2>1. armingDisableFlags' \subseteq ArmingDisableFlags /\ hadRx' \in BOOLEAN
    BY <1>7, UpdateTyped DEF RxUpdate, RuntimeTypeOK, ArmingTypeOK, RxTypeOK
  <2>2. FailsafeTypeOK' /\ RxTypeOK'
    BY <1>7, OthersTyped DEF RxUpdate, rxVars, RxTypeOK
  <2>3. UNCHANGED <<armed, flightModeFlags, rcModes, rcDisarmTicks,
                    paralyzeWasOff, powerOnDelayOver, throwState, tasksDone>>
        /\ rxState' = "CHECK"
    BY <1>7 DEF RxUpdate
  <2>4. RuntimeTypeOK'
    BY <2>1, <2>3 DEF RuntimeTypeOK
  <2>5. ArmingTypeOK'
    BY <2>1, <2>3 DEF ArmingTypeOK
  <2> QED
    BY <2>2, <2>3, <2>4, <2>5
<1>8. CASE ThrowTask
  <2>1. throwState' \in ThrowStates
    BY <1>8, ThrowTyped DEF ThrowTask, ArmingTypeOK
  <2>2. FailsafeTyped' /\ RxTypeOK'
    BY <1>0, <1>8, OthersTyped DEF ThrowTask, FailsafeTyped, RuntimeTypeOK,
       RxTypeOK, runtimeVars, rxVars
  <2>3. ArmingTypeOK' /\ UNCHANGED <<rxState, tasksDone>>
    BY <1>8, <2>1 DEF ThrowTask, ArmingTypeOK, armingVars
  <2> QED
    BY <2>2, <2>3 DEF FailsafeTyped
<1>9. CASE PidLoop
  <2>1. RuntimeTypeOK'
    BY <1>9 DEF PidLoop, RunawayTakeoff, RuntimeTypeOK, ArmingDisableFlags
  <2>2. FailsafeTypeOK' /\ RxTypeOK'
    BY <1>9, OthersTyped DEF PidLoop, rxVars, RxTypeOK
  <2>3. ArmingTypeOK' /\ UNCHANGED <<rxState, tasksDone>>
    BY <1>9 DEF PidLoop, ArmingTypeOK, armingVars
  <2> QED
    BY <2>1, <2>2, <2>3
<1>10. CASE WriteConfig
  <2>1. FailsafeTyped'
    BY <1>0, <1>10, WriteTyped DEF WriteConfig
  <2>2. RxTypeOK' /\ ArmingTypeOK' /\ UNCHANGED <<rxState, tasksDone>>
    BY <1>10 DEF WriteConfig, RxTypeOK, ArmingTypeOK, rxVars, armingVars
  <2> QED
    BY <2>1, <2>2 DEF FailsafeTyped
<1>11. CASE ReloadConfig
  <2>1. FailsafeTyped'
    BY <1>0, <1>11, ReloadTyped DEF ReloadConfig
  <2>2. RxTypeOK' /\ ArmingTypeOK' /\ UNCHANGED <<rxState, tasksDone>>
    BY <1>11 DEF ReloadConfig, RxTypeOK, ArmingTypeOK, rxVars, armingVars
  <2> QED
    BY <2>1, <2>2 DEF FailsafeTyped
<1>12. CASE UNCHANGED coreVars
  <2>1. FailsafeTyped' /\ RxTypeOK'
    BY <1>0, <1>12, OthersTyped DEF coreVars, FailsafeTyped, RuntimeTypeOK,
       RxTypeOK, runtimeVars, rxVars
  <2>2. ArmingTypeOK' /\ UNCHANGED <<rxState, tasksDone>>
    BY <1>12 DEF coreVars, ArmingTypeOK, armingVars
  <2> QED
    BY <2>1, <2>2 DEF FailsafeTyped
<1> QED
  BY <1>1, <1>2, <1>3, <1>4, <1>5, <1>6, <1>7, <1>8, <1>9, <1>10, <1>11, <1>12
     DEF CoreNext, RxCheckFrame, RxCheckTimeout

-----------------------------------------------------------------------------
(* A step of the composition is one of FlightCore with the switch recorded. *)
LEMMA FlightIsLock == FlightNext => LockNext
BY DEF FlightNext, LockNext, CoreNext, TimePasses, DataReviewed, ConfigReloaded,
   NothingToRecord, RxCheckFrame, RxCheckTimeout

LEMMA FlightHistoryTyped ==
    ASSUME CoreTypeOK, HistoryTypeOK, [FlightNext]_flightVars
    PROVE  HistoryTypeOK'
<1>1. SilenceGrows \/ silence' \in {0, silence}
  BY DEF FlightNext, TimePasses, DataReviewed, ConfigReloaded, NothingToRecord,
     flightVars, historyVars
<1>2. ReloadIsRecorded \/ UNCHANGED reloadedInStage2
  BY DEF FlightNext, TimePasses, DataReviewed, ConfigReloaded, NothingToRecord,
     flightVars, historyVars
<1> QED
  BY <1>1, <1>2, HistoryTyped DEF CoreTypeOK, FailsafeTypeOK, SwitchesTypeOK

(* Every reachable state of the composition is well typed.                  *)
THEOREM FlightTypeCorrect == FlightSpec => []FlightTypeOK
<1>1. FlightInit => FlightTypeOK
  <2> SUFFICES ASSUME FlightInit PROVE FlightTypeOK
    OBVIOUS
  <2>1. CoreTypeOK
    BY CoreInitTyped DEF FlightInit, LockInit
  <2>2. silence \in 0..SilenceMax
    BY PeriodsAssumption DEF FlightInit, HistoryInit, SilenceMax
  <2> QED
    BY <2>1, <2>2 DEF FlightInit, LockInit, HistoryInit, HistoryTypeOK,
       FlightTypeOK
<1>2. FlightTypeOK /\ [FlightNext]_flightVars => FlightTypeOK'
  <2> SUFFICES ASSUME FlightTypeOK, [FlightNext]_flightVars PROVE FlightTypeOK'
    OBVIOUS
  <2>1. CoreTypeOK'
    BY FlightIsLock, CoreStepTyped
       DEF FlightTypeOK, LockNext, flightVars, lockVars
  <2>2. heldSinceDisarm' \in BOOLEAN
    BY DEF FlightTypeOK, FlightNext, RecordHeld, ArmSwitchOn, IsRcModeActive,
       flightVars, lockVars
  <2>3. HistoryTypeOK'
    BY FlightHistoryTyped DEF FlightTypeOK
  <2> QED
    BY <2>1, <2>2, <2>3 DEF FlightTypeOK
<1> QED
  BY <1>1, <1>2, PTL DEF FlightSpec

-----------------------------------------------------------------------------
(* The lockout, the settled phases and the promise of the failsafe, end to  *)
(* end: with rx.c, core.c and the throw around failsafe.c.                  *)

(* updateArmingStatus neither sets nor lifts what the failsafe says of the  *)
(* link, also when a throw waives most of the other inhibitions.            *)
LEMMA StatusKeepsLoss ==
    ASSUME NEW m \in BOOLEAN
    PROVE  StatusFlags(m) \cap {"FAILSAFE", "RX_FAILSAFE"}
               = armingDisableFlags \cap {"FAILSAFE", "RX_FAILSAFE"}
<1> DEFINE K == {"FAILSAFE", "RX_FAILSAFE"}
           flags == IF powerOnDelayOver /\ m
                        THEN armingDisableFlags \ {"BOOT_GRACE_TIME"}
                        ELSE armingDisableFlags
<1>1. ASSUME NEW f PROVE AfterRxRecovery(f) \cap K = f \cap K
  BY DEF AfterRxRecovery
<1>2. ASSUME NEW f PROVE AfterConditions(f) \cap K = f \cap K
  BY DEF AfterConditions, Switched
<1>3. ASSUME NEW f PROVE AfterArmSwitch(f) \cap K = f \cap K
  BY DEF AfterArmSwitch
<1>4. ASSUME NEW f PROVE AfterThrow(f) \cap K = f \cap K
  BY DEF AfterThrow, Switched, DoNotTolerateDuringThrow
<1>5. flags \cap K = armingDisableFlags \cap K
  OBVIOUS
<1>6. StatusFlags(m)
          = AfterThrow(AfterArmSwitch(AfterConditions(AfterRxRecovery(flags))))
  BY DEF StatusFlags
<1> HIDE DEF flags
<1> QED
  BY <1>1, <1>2, <1>3, <1>4, <1>5, <1>6

(* Nobody arms, by switch or by throw, a craft whose link is lost.          *)
LEMMA SticksKeepLoss ==
    ASSUME CoreTypeOK, ProcessRcStickPositions
    PROVE  /\ armingDisableFlags' \cap {"FAILSAFE", "RX_FAILSAFE"}
                  = armingDisableFlags \cap {"FAILSAFE", "RX_FAILSAFE"}
           /\ armed' => armed \/ armingDisableFlags
                                     \cap {"FAILSAFE", "RX_FAILSAFE"} = {}
<1> USE DEF ProcessRcStickPositions, ProcessArmSwitch
<1>1. CASE UNCHANGED <<armed, armingDisableFlags>>
  BY <1>1
<1>2. CASE TryArm
  <2>1. \/ armed /\ UNCHANGED armingDisableFlags
        \/ ~armed /\ \E m \in BOOLEAN : armingDisableFlags' = StatusFlags(m)
    BY <1>2 DEF TryArm, UpdateArmingStatus, CoreTypeOK, RuntimeTypeOK
  <2>2. ASSUME ~armed, NEW m \in BOOLEAN, armingDisableFlags' = StatusFlags(m)
        PROVE  /\ armed' => armingDisableFlags' = {}
               /\ armingDisableFlags' \cap {"FAILSAFE", "RX_FAILSAFE"}
                      = armingDisableFlags \cap {"FAILSAFE", "RX_FAILSAFE"}
    BY <1>2, <2>2, StatusKeepsLoss DEF TryArm
  <2> QED
    BY <2>1, <2>2
<1>3. CASE CountDisarmTick /\ armed /\ UNCHANGED armingDisableFlags
  BY <1>3
<1> QED
  BY <1>1, <1>2, <1>3 DEF SwitchMayDisarm

(* Beside the failsafe nothing sets or lifts FAILSAFE, or arms with it.     *)
LEMMA CoreHonours ==
    ASSUME CoreTypeOK, CoreNext, ~RunFailsafe, ~FailsafeLoop
    PROVE  /\ HonoursLock
           /\ ~reprocessState /\ ~reprocessState'
           /\ phase' \in {phase, "IDLE"}
<1> USE DEF Idle
<1>1. CASE Tick
  BY <1>1 DEF Tick, HonoursLock, runtimeVars, loopVars
<1>2. CASE RxCheckFrame \/ RxCheckTimeout
  <2>1. PICK frame \in Frames, signal \in BOOLEAN : RxCheck(frame, signal)
    BY <1>2 DEF RxCheckFrame, RxCheckTimeout
  <2>2. FailsafeOnValidDataReceived \/ FailsafeOnValidDataFailed
    BY <2>1 DEF RxCheck, ReviewFrame
  <2>3. HonoursLock
    BY <2>1, <2>2, ReportHonours DEF RxCheck
  <2> QED
    BY <2>1, <2>2, <2>3 DEF RxCheck, FailsafeOnValidDataReceived,
       FailsafeOnValidDataFailed, loopVars
<1>3. CASE RxModes
  <2>1. /\ armingDisableFlags' \cap {"FAILSAFE", "RX_FAILSAFE"}
               = armingDisableFlags \cap {"FAILSAFE", "RX_FAILSAFE"}
        /\ armed' => armed \/ armingDisableFlags
                                  \cap {"FAILSAFE", "RX_FAILSAFE"} = {}
    BY <1>3, SticksKeepLoss DEF RxModes, ProcessRxModes
  <2>2. HonoursLock
    <3>1. UNCHANGED active
      BY <1>3 DEF RxModes, failsafeVars
    <3> QED
      BY <2>1, <3>1 DEF HonoursLock
  <2> QED
    BY <1>3, <2>2 DEF RxModes, failsafeVars, loopVars
<1>4. CASE RxUpdate
  <2>1. "FAILSAFE" \in armingDisableFlags' <=> "FAILSAFE" \in armingDisableFlags
    BY <1>4, StatusKeepsLoss DEF RxUpdate, UpdateArmingStatus
  <2> QED
    BY <1>4, <2>1 DEF RxUpdate, HonoursLock, failsafeVars, loopVars
<1>5. CASE PowerOnDelayEnds \/ ThrowTask
  BY <1>5 DEF PowerOnDelayEnds, ThrowTask, HonoursLock, runtimeVars,
     failsafeVars, loopVars
<1>6. CASE PidLoop
  BY <1>6 DEF PidLoop, RunawayTakeoff, HonoursLock, failsafeVars, loopVars
<1>7. CASE WriteConfig \/ ReloadConfig
  BY <1>7 DEF WriteConfig, ReloadConfig, FailsafeOnConfigWrite,
     FailsafeOnConfigReload, HonoursLock, runtimeVars, loopVars
<1> QED
  BY <1>1, <1>2, <1>3, <1>4, <1>5, <1>6, <1>7 DEF CoreNext

CoreSafe == CoreTypeOK /\ SafetyParts

LEMMA CoreStartsSafe == CoreInit => CoreSafe
BY CoreInitTyped, InitSafety DEF CoreInit, CoreSafe

LEMMA CoreStaysSafe == CoreSafe /\ [CoreNext]_coreVars => CoreSafe'
<1> SUFFICES ASSUME CoreSafe, [CoreNext]_coreVars PROVE CoreSafe'
  OBVIOUS
<1>1. CoreTypeOK' /\ CoreTypeOK /\ FailsafeTyped /\ SafetyParts
  BY CoreStepTyped DEF CoreSafe, CoreTypeOK, FailsafeTyped
<1>2. CASE RunFailsafe
  BY <1>1, <1>2, CheckSafety DEF RunFailsafe, CoreSafe
<1>3. CASE FailsafeLoop
  BY <1>1, <1>3, IterationSafety DEF FailsafeLoop, CoreSafe
<1>4. CASE CoreNext /\ ~RunFailsafe /\ ~FailsafeLoop
  BY <1>1, <1>4, CoreHonours, OthersSafety DEF CoreSafe
<1>5. CASE UNCHANGED coreVars
  BY <1>1, <1>5 DEF coreVars, runtimeVars, failsafeVars, clockVars, loopVars,
     CoreSafe, SafetyParts, SettledPhase, LockoutKeepsDisarmed,
     StaleArmedIsNeverRead, PhaseMeaning
<1> QED
  BY <1>2, <1>3, <1>4, <1>5

LEMMA CoreIsSafe == CoreSpec => []CoreSafe
BY CoreStartsSafe, CoreStaysSafe, PTL DEF CoreSpec

(* From the disarm by the failsafe to the end of the failsafe no switch and *)
(* no throw arms the craft, for every aux range and every period.           *)
THEOREM LockoutHoldsEndToEnd == CoreSpec => []LockoutKeepsDisarmed
<1>1. CoreSafe => LockoutKeepsDisarmed
  BY DEF CoreSafe, SafetyParts
<1> QED
  BY <1>1, CoreIsSafe, PTL

(* Whenever another task runs, failsafe.c is in a waiting phase, active and *)
(* the lock consistent with it.                                             *)
THEOREM PhaseSettlesEndToEnd == CoreSpec => []SettledPhase
<1>1. CoreSafe => SettledPhase
  BY DEF CoreSafe, SafetyParts
<1> QED
  BY <1>1, CoreIsSafe, PTL

(* No run of the loop takes the craft for armed that it has disarmed.       *)
THEOREM StaleArmedIsHarmlessEndToEnd == CoreSpec => []StaleArmedIsNeverRead
<1>1. CoreSafe => StaleArmedIsNeverRead
  BY DEF CoreSafe, SafetyParts
<1> QED
  BY <1>1, CoreIsSafe, PTL

(* However the tasks are interleaved, failsafeUpdateState returns after at  *)
(* most seven iterations.                                                   *)
THEOREM LoopIsShortEndToEnd ==
    CoreSpec => /\ [](LoopRank \in 1..7)
                /\ [][FailsafeLoop => LoopGoesDown]_coreVars
<1>1. CoreSafe => FailsafeTyped
  BY DEF CoreSafe, CoreTypeOK, FailsafeTyped
<1>2. CoreSafe => LoopRank \in 1..7
  BY <1>1, RankTyped
<1>3. CoreSafe /\ [CoreNext]_coreVars => [FailsafeLoop => LoopGoesDown]_coreVars
  <2> SUFFICES ASSUME CoreSafe, FailsafeLoop PROVE LoopGoesDown
    OBVIOUS
  <2>1. PICK s, c \in BOOLEAN : FailsafeIteration(rcThrottle = "low", s, c)
    BY DEF FailsafeLoop
  <2>2. (rcThrottle = "low") \in BOOLEAN
    OBVIOUS
  <2> QED
    BY <1>1, <2>1, <2>2, IterationGoesDown
<1> QED
  BY <1>2, <1>3, CoreIsSafe, PTL DEF CoreSpec

(* The whole loop of RX task, arming, throw and failsafe keeps the promise  *)
(* of LinkLossPromise: the lock of a craft that lost its link is lifted by  *)
(* the failsafe only, and only when it is over.                             *)
THEOREM CoreKeepsPromise == CoreSpec => ImplementsPromise
<1>1. CoreInit => Promise!PromiseInit
  BY InitImplementsPromise DEF CoreInit
<1>2. CoreSafe /\ [CoreNext]_coreVars
          => [Promise!PromiseNext]_(Promise!promiseVars)
  <2> SUFFICES ASSUME CoreSafe, [CoreNext]_coreVars
               PROVE  [Promise!PromiseNext]_(Promise!promiseVars)
    OBVIOUS
  <2>1. CoreTypeOK /\ FailsafeTyped /\ SafetyParts
    BY DEF CoreSafe, CoreTypeOK, FailsafeTyped
  <2>2. armed \in BOOLEAN /\ armed' \in BOOLEAN
    BY <2>1, CoreStepTyped DEF CoreTypeOK, RuntimeTypeOK
  <2>3. CASE FailsafeLoop
    BY <2>1, <2>3, IterationImplementsPromise DEF FailsafeLoop
  <2>4. CASE RunFailsafe
    BY <2>2, <2>4, CheckHonours, OthersImplementPromise DEF RunFailsafe
  <2>5. CASE CoreNext /\ ~RunFailsafe /\ ~FailsafeLoop
    BY <2>1, <2>2, <2>5, CoreHonours, OthersImplementPromise
  <2>6. CASE UNCHANGED coreVars
    BY <2>6, StutterImplementsPromise DEF coreVars, runtimeVars, failsafeVars,
       StageUnchanged
  <2> QED
    BY <2>3, <2>4, <2>5, <2>6
<1> QED
  BY <1>1, <1>2, CoreIsSafe, PTL
     DEF CoreSpec, ImplementsPromise, Promise!PromiseSpec

-----------------------------------------------------------------------------
(* The lock of an automatic disarm.                                         *)
(*                                                                          *)
(* ARM_SWITCH is not there at once: updateArmingStatus sets it, in the last *)
(* state of the RX task.  Until then FAILSAFE holds the lock, and the       *)
(* failsafe lifts it no earlier than its recovery period is over, which     *)
(* takes two ticks: a whole round of the RX task fits between them.  Only a *)
(* procedure that the failsafe switch began has no recovery period.  Such a *)
(* one disarms when the switch is set to STAGE2 and drops the craft; then   *)
(* the link counts as lost until RX_STATE_MODES sees the switch off, which  *)
(* looks at the arm switch first, unless the craft is paralyzed: then it    *)
(* stays disarmed for good.                                                 *)

(* A procedure that the failsafe switch begins either does not disarm or    *)
(* disarms at once and is not over before the switch is off: all but a      *)
(* landing, and a drop in stage 1.                                          *)
SwitchNeverLands ==
    "BOXFAILSAFE" \in UsedBoxes =>
        \A p \in Procedures, s \in SwitchModes :
            \/ s = "KILL"
            \/ p = "GPS_RESCUE"
            \/ p = "DROP_IT" /\ s = "STAGE2"

(* FAILSAFE is not about to be lifted: nothing lifts it (IDLE), the switch  *)
(* makes the link a lost one, or an RX round will have ended when the       *)
(* period has.                                                              *)
LockLasts ==
    \/ phase = "IDLE"
    \/ phase = "RX_LOSS_MONITORING" /\ SwitchForcesStage2
    \/ /\ phase = "RX_LOSS_MONITORING"
       /\ rxPeriodPreset = RecoveryPeriod
       /\ rxPeriodLeft # Expired
       /\ rxPeriodLeft = 0 => rxState # "CHECK" \/ "RX" \notin tasksDone

(* The switch begins no procedure: it is not there, or it kills. *)
SwitchBeginsNothing == "BOXFAILSAFE" \notin UsedBoxes \/ switchMode = "KILL"

Locked ==
    \/ ~SwitchBeginsNothing /\ IsRcModeActive("BOXPARALYZE")
    \/ "RUNAWAY_TAKEOFF" \in armingDisableFlags
    \/ "ARM_SWITCH" \in armingDisableFlags
    \/ "FAILSAFE" \in armingDisableFlags /\ LockLasts

(* What the loop knows of the switch and of ARMED. *)
LoopAgrees ==
    /\ reprocessState /\ SwitchForcesStage2 => ~loopReceiving
    /\ reprocessState /\ armed => loopArmed
    /\ phase = "RX_LOSS_DETECTED" =>
           /\ boxFailsafeSwitchWasOn = IsRcModeActive("BOXFAILSAFE")
           /\ SwitchBeginsNothing => ~boxFailsafeSwitchWasOn

(* A craft about to be disarmed has a whole recovery period before it, or   *)
(* its switch still on.                                                     *)
RecoveryIsWhole ==
    /\ SwitchBeginsNothing => rxPeriodPreset = RecoveryPeriod
    /\ phase = "LANDING" => procedure = "AUTO_LANDING"
    /\ phase = "LANDED" /\ armed =>
           rxPeriodPreset = RecoveryPeriod \/ SwitchForcesStage2

BoxesOK ==
    /\ "BOXTHROWTOARM" \notin rcModes
    /\ rcModes \subseteq UsedBoxes

HeldOK == heldSinceDisarm => ~armed /\ "BOXARM" \in rcModes /\ Locked

LockInv ==
    /\ CoreSafe
    /\ heldSinceDisarm \in BOOLEAN
    /\ BoxesOK
    /\ LoopAgrees
    /\ RecoveryIsWhole
    /\ HeldOK

(* updateArmingStatus lifts none of the three with the switch on.           *)
LEMMA StatusKeeps ==
    ASSUME "BOXARM" \in rcModes, "BOXTHROWTOARM" \notin rcModes,
           NEW m \in BOOLEAN
    PROVE  armingDisableFlags
               \cap {"FAILSAFE", "RUNAWAY_TAKEOFF", "ARM_SWITCH"}
               \subseteq StatusFlags(m)
<1> DEFINE K == {"FAILSAFE", "RUNAWAY_TAKEOFF", "ARM_SWITCH"}
<1>1. ASSUME NEW f PROVE f \cap K \subseteq AfterRxRecovery(f)
  BY DEF AfterRxRecovery, ArmSwitchOn, IsRcModeActive
<1>2. ASSUME NEW f PROVE f \cap K \subseteq AfterConditions(f)
  BY DEF AfterConditions, Switched
<1>3. ASSUME NEW f PROVE f \cap K \subseteq AfterArmSwitch(f)
  BY DEF AfterArmSwitch, ArmSwitchOn, IsRcModeActive
<1>4. ASSUME NEW f PROVE f \cap K \subseteq AfterThrow(f)
  BY DEF AfterThrow, IsRcModeActive
<1>5. armingDisableFlags \cap K
          \subseteq (armingDisableFlags \ {"BOOT_GRACE_TIME"})
  OBVIOUS
<1> QED
  BY <1>1, <1>2, <1>3, <1>4, <1>5 DEF StatusFlags

(* One pass of updateArmingStatus with the switch on turns any inhibition   *)
(* it does not review into ARM_SWITCH.                                      *)
LEMMA StatusLocks ==
    ASSUME "BOXARM" \in rcModes, "BOXTHROWTOARM" \notin rcModes,
           armingDisableFlags
               \cap {"FAILSAFE", "RUNAWAY_TAKEOFF", "ARM_SWITCH"} # {},
           NEW m \in BOOLEAN
    PROVE  "ARM_SWITCH" \in StatusFlags(m)
<1> DEFINE K     == {"FAILSAFE", "RUNAWAY_TAKEOFF", "ARM_SWITCH"}
           flags == IF powerOnDelayOver /\ m
                        THEN armingDisableFlags \ {"BOOT_GRACE_TIME"}
                        ELSE armingDisableFlags
           one   == AfterRxRecovery(flags)
           two   == AfterConditions(one)
           three == AfterArmSwitch(two)
<1>1. flags \cap K # {}
  OBVIOUS
<1>2. flags \subseteq one
  BY DEF AfterRxRecovery, ArmSwitchOn, IsRcModeActive
<1> HIDE DEF flags, one
<1>3. one \cap K \subseteq two
  BY DEF AfterConditions, Switched
<1> HIDE DEF two
<1>4. two # {}
  BY <1>1, <1>2, <1>3
<1>5. "ARM_SWITCH" \in three
  BY <1>4 DEF AfterArmSwitch, ArmSwitchOn, IsRcModeActive
<1> HIDE DEF three
<1>6. "ARM_SWITCH" \in AfterThrow(three)
  BY <1>5 DEF AfterThrow, IsRcModeActive
<1> QED
  BY <1>6 DEF StatusFlags, flags, one, two, three

LEMMA LockInitially ==
    LockInit => LockInv
<1> SUFFICES ASSUME LockInit PROVE LockInv
  OBVIOUS
<1>1. CoreSafe
  BY CoreStartsSafe DEF LockInit
<1>2. BoxesOK /\ LoopAgrees /\ RecoveryIsWhole
  BY DEF LockInit, CoreInit, FailsafeInit, BoxesOK, LoopAgrees, RecoveryIsWhole
<1>3. heldSinceDisarm = FALSE
  BY DEF LockInit
<1> QED
  BY <1>1, <1>2, <1>3 DEF LockInv, HeldOK

(* The loop of failsafeUpdateState starts a procedure without a recovery    *)
(* period only for the switch.                                              *)
LEMMA IterationKeepsWhole ==
    ASSUME SwitchNeverLands, LockInv,
           NEW t \in BOOLEAN, NEW s \in BOOLEAN, NEW c \in BOOLEAN,
           FailsafeIteration(t, s, c)
    PROVE  LoopAgrees' /\ RecoveryIsWhole'
<1> USE DEF LoopAgrees, RecoveryIsWhole, EndIteration, IterationAt,
        SwitchForcesStage2, SwitchBeginsNothing, IsRcModeActive, configVars
<1>1. /\ LoopAgrees /\ RecoveryIsWhole
      /\ StaleArmedIsNeverRead /\ PhaseMeaning
      /\ BoxesOK
      /\ procedure \in Procedures /\ switchMode \in SwitchModes
      /\ loopArmed \in BOOLEAN
  BY DEF LockInv, CoreSafe, SafetyParts, CoreTypeOK, FailsafeTypeOK, PhaseTypeOK,
     SwitchesTypeOK
<1>2. CASE IdleNotArmed
  BY <1>1, <1>2 DEF IdleNotArmed
<1>3. CASE IdleFlying(t)
  BY <1>1, <1>3 DEF IdleFlying
<1>4. CASE IdleDisarms(t)
  BY <1>1, <1>4 DEF IdleDisarms
<1>5. CASE IdleLosesLink(t)
  <2>1. SwitchBeginsNothing => ~IsRcModeActive("BOXFAILSAFE")
    BY <1>1, <1>5 DEF IdleLosesLink, KillSwitchOn, BoxesOK
  <2> QED
    BY <1>1, <1>5, <2>1 DEF IdleLosesLink
<1>6. CASE StartProcedure
  <2>1. /\ phase' = "LANDING" => procedure = "AUTO_LANDING"
        /\ phase' = "LANDED" => procedure = "DROP_IT"
        /\ phase' # "RX_LOSS_DETECTED"
    BY <1>1, <1>6, SettingsAssumption DEF StartProcedure, ProcedurePhase
  <2>2. SwitchBeginsNothing => rxPeriodPreset' = RecoveryPeriod
    BY <1>1, <1>6 DEF StartProcedure
  <2>3. ASSUME phase' = "LANDED"
        PROVE  rxPeriodPreset' = RecoveryPeriod \/ SwitchForcesStage2
    <3>1. CASE ~boxFailsafeSwitchWasOn
      BY <1>6, <3>1 DEF StartProcedure
    <3>2. CASE boxFailsafeSwitchWasOn
      <4>1. IsRcModeActive("BOXFAILSAFE") /\ ~SwitchBeginsNothing
        BY <1>1, <1>6, <3>2 DEF StartProcedure
      <4>2. switchMode = "STAGE2"
        BY <1>1, <2>1, <2>3, <4>1 DEF SwitchNeverLands
      <4> QED
        BY <4>1, <4>2
    <3> QED
      BY <3>1, <3>2
  <2> QED
    BY <1>1, <1>6, <2>1, <2>2, <2>3 DEF StartProcedure
<1>7. CASE RecoverLink(s)
  BY <1>1, <1>7 DEF RecoverLink, MoveTo
<1>8. CASE KeepLanding(c)
  BY <1>1, <1>8 DEF KeepLanding, StayInPhase
<1>9. CASE FinishLanding(c)
  <2>1. procedure = "AUTO_LANDING"
    BY <1>1, <1>9 DEF FinishLanding
  <2>2. SwitchBeginsNothing
    BY <1>1, <2>1 DEF SwitchNeverLands
  <2> QED
    BY <1>1, <1>9, <2>2 DEF FinishLanding, MoveTo
<1>10. CASE KeepRescuing(s)
  BY <1>1, <1>10 DEF KeepRescuing, StayInPhase
<1>11. CASE FinishRescue
  <2>1. ~armed
    BY <1>1, <1>11 DEF FinishRescue
  <2> QED
    BY <1>1, <1>11, <2>1 DEF FinishRescue, MoveTo
<1>12. CASE Landed
  BY <1>1, <1>12 DEF Landed
<1>13. CASE KeepMonitoring
  BY <1>1, <1>13 DEF KeepMonitoring
<1>14. CASE Recovered
  BY <1>1, <1>14 DEF Recovered
<1> QED
  BY <1>2, <1>3, <1>4, <1>5, <1>6, <1>7, <1>8, <1>9, <1>10, <1>11,
     <1>12, <1>13, <1>14 DEF FailsafeIteration

(* The loop of failsafeUpdateState lifts FAILSAFE only when the recovery    *)
(* period is over and the link is there.                                    *)
LEMMA IterationLocks ==
    ASSUME LockInv, NEW t \in BOOLEAN, NEW s \in BOOLEAN, NEW c \in BOOLEAN,
           FailsafeIteration(t, s, c), RecordHeld,
           UNCHANGED <<rxState, tasksDone>>
    PROVE  HeldOK'
<1> USE PeriodsAssumption
        DEF HeldOK, Locked, LockLasts, SwitchForcesStage2, SwitchBeginsNothing,
        RecordHeld, EndIteration, IterationAt, ArmSwitchOn, IsRcModeActive, Expired,
        configVars
<1>1. /\ HeldOK /\ LoopAgrees /\ RecoveryIsWhole /\ StaleArmedIsNeverRead
      /\ armed \in BOOLEAN /\ loopArmed \in BOOLEAN
      /\ heldSinceDisarm \in BOOLEAN
  BY DEF LockInv, CoreSafe, SafetyParts, CoreTypeOK, RuntimeTypeOK,
     FailsafeTypeOK, SwitchesTypeOK
<1> USE DEF StaleArmedIsNeverRead, LoopAgrees
<1>2. CASE IdleNotArmed
  BY <1>1, <1>2 DEF IdleNotArmed
<1>3. CASE IdleFlying(t)
  BY <1>1, <1>3 DEF IdleFlying
<1>4. CASE IdleDisarms(t)
  BY <1>1, <1>4 DEF IdleDisarms
<1>5. CASE IdleLosesLink(t)
  BY <1>1, <1>5 DEF IdleLosesLink
<1>6. CASE StartProcedure
  BY <1>1, <1>6 DEF StartProcedure
<1>7. CASE RecoverLink(s)
  BY <1>1, <1>7 DEF RecoverLink, MoveTo
<1>8. CASE KeepLanding(c)
  BY <1>1, <1>8 DEF KeepLanding, StayInPhase
<1>9. CASE FinishLanding(c)
  BY <1>1, <1>9 DEF FinishLanding, MoveTo
<1>10. CASE KeepRescuing(s)
  BY <1>1, <1>10 DEF KeepRescuing, StayInPhase
<1>11. CASE FinishRescue
  BY <1>1, <1>11 DEF FinishRescue, MoveTo
<1>12. CASE Landed
  BY <1>1, <1>12 DEF Landed, RecoveryIsWhole
<1>13. CASE KeepMonitoring
  BY <1>1, <1>13 DEF KeepMonitoring
<1>14. CASE Recovered
  BY <1>1, <1>14 DEF Recovered
<1> QED
  BY <1>2, <1>3, <1>4, <1>5, <1>6, <1>7, <1>8, <1>9, <1>10, <1>11,
     <1>12, <1>13, <1>14 DEF FailsafeIteration

(* A step outside the loop that leaves the boxes and what was begun alone.  *)
LEMMA OutsideKeepsWhole ==
    ASSUME LockInv, ~reprocessState, ~reprocessState',
           UNCHANGED <<rcModes, rxPeriodPreset, switchMode, procedure>>,
           phase' \in {phase, "IDLE"}
    PROVE  BoxesOK' /\ LoopAgrees' /\ RecoveryIsWhole'
BY DEF LockInv, CoreSafe, SafetyParts, SettledPhase, BoxesOK, LoopAgrees,
   RecoveryIsWhole, SwitchBeginsNothing, SwitchForcesStage2, IsRcModeActive

(* A step that leaves the boxes and the lock alone. *)
LEMMA QuietLocks ==
    ASSUME LockInv, RecordHeld,
           UNCHANGED <<armed, rcModes, phase, rxPeriodLeft, rxPeriodPreset,
                       switchMode>>,
           armingDisableFlags \cap {"FAILSAFE", "RUNAWAY_TAKEOFF", "ARM_SWITCH"}
               \subseteq armingDisableFlags',
           \/ rxState' # "CHECK"
           \/ UNCHANGED rxState /\ tasksDone' \subseteq tasksDone \cup {"FAILSAFE"}
    PROVE  HeldOK'
BY DEF LockInv, HeldOK, Locked, LockLasts, SwitchForcesStage2,
   SwitchBeginsNothing, RecordHeld, ArmSwitchOn, IsRcModeActive

(* RX_STATE_MODES looks at the arm switch before it reads the boxes anew.   *)
LEMMA ModesLock ==
    ASSUME LockInv, RecordHeld, RxModes
    PROVE  HeldOK'
<1> DEFINE K == {"FAILSAFE", "RUNAWAY_TAKEOFF", "ARM_SWITCH"}
<1> SUFFICES ASSUME heldSinceDisarm'
             PROVE  ~armed' /\ "BOXARM" \in rcModes' /\ Locked'
  BY DEF HeldOK
<1>1. /\ "BOXARM" \in rcModes'
      /\ heldSinceDisarm \/ (ArmSwitchOn /\ armed /\ ~armed')
  BY DEF RecordHeld
<1>2. heldSinceDisarm
  BY <1>1 DEF RxModes, ProcessRxModes, ProcessRcStickPositions, ProcessArmSwitch,
     TryArm
<1>3. /\ ~armed /\ "BOXARM" \in rcModes /\ Locked
      /\ "BOXTHROWTOARM" \notin rcModes
  BY <1>2 DEF LockInv, HeldOK, BoxesOK
<1>4. UNCHANGED <<phase, rxPeriodLeft, rxPeriodPreset, switchMode, tasksDone>>
      /\ rxState' = "UPDATE"
  BY DEF RxModes, failsafeVars, clockVars, configVars
<1>5. CASE IsRcModeActive("BOXPARALYZE")
  <2>1. UNCHANGED <<armed, armingDisableFlags>>
    BY <1>3, <1>5 DEF RxModes, ProcessRxModes, ProcessRcStickPositions
  <2>2. "BOXPARALYZE" \in rcModes'
    BY <1>5 DEF RxModes, ProcessRxModes, UpdateActivatedModes, Switched,
       Paralyzed, LockInv, CoreSafe, CoreTypeOK, RxTypeOK, IsRcModeActive
  <2>3. SwitchBeginsNothing => ~SwitchForcesStage2
    BY DEF LockInv, SwitchBeginsNothing, SwitchForcesStage2, BoxesOK,
       IsRcModeActive
  <2> QED
    BY <1>1, <1>3, <1>4, <2>1, <2>2, <2>3 DEF Locked, LockLasts,
       SwitchBeginsNothing, IsRcModeActive
<1>6. CASE ~IsRcModeActive("BOXPARALYZE")
  <2>0. armingDisableFlags \cap K # {}
    BY <1>3, <1>6 DEF Locked
  <2>1. TryArm
    BY <1>3, <1>6 DEF RxModes, ProcessRxModes, ProcessRcStickPositions,
       ProcessArmSwitch, ArmSwitchOn, IsRcModeActive
  <2>2. PICK m \in BOOLEAN : armingDisableFlags' = StatusFlags(m)
    BY <1>3, <2>1 DEF TryArm, UpdateArmingStatus
  <2>3. "ARM_SWITCH" \in armingDisableFlags'
    BY <1>3, <2>0, <2>2, StatusLocks
  <2>4. armed' = FALSE
    BY <1>3, <2>1, <2>3 DEF TryArm
  <2> QED
    BY <1>1, <2>3, <2>4 DEF Locked
<1> QED
  BY <1>5, <1>6

LEMMA LockStep ==
    ASSUME SwitchNeverLands, "BOXTHROWTOARM" \notin UsedBoxes
    PROVE  LockInv /\ [LockNext]_lockVars => LockInv'
<1> SUFFICES ASSUME LockInv, [LockNext]_lockVars PROVE LockInv'
  OBVIOUS
<1>1. CoreSafe'
  BY CoreStaysSafe DEF LockInv, LockNext, lockVars
<1>2. heldSinceDisarm' \in BOOLEAN
  BY DEF LockInv, LockNext, RecordHeld, ArmSwitchOn, IsRcModeActive, lockVars
<1>3. SUFFICES BoxesOK' /\ LoopAgrees' /\ RecoveryIsWhole' /\ HeldOK'
  BY <1>1, <1>2 DEF LockInv
<1> DEFINE Goal == BoxesOK' /\ LoopAgrees' /\ RecoveryIsWhole' /\ HeldOK'
<1>4. ASSUME RecordHeld, Tick PROVE Goal
  <2>1. /\ UNCHANGED <<armed, armingDisableFlags, rcModes, phase,
                       rxPeriodPreset, procedure, switchMode, reprocessState>>
        /\ ~reprocessState /\ rxState = "CHECK" /\ "RX" \in tasksDone
        /\ tasksDone' = {} /\ rxPeriodLeft' = Shorter(rxPeriodLeft)
    BY <1>4 DEF Tick, Idle, PeriodicTasks, ClockTick, runtimeVars, loopVars,
       configVars
  <2>2. rxPeriodLeft \in Int /\ rxPeriodLeft >= -1
    BY PeriodsAssumption DEF LockInv, CoreSafe, CoreTypeOK, FailsafeTypeOK,
       ClocksTypeOK, Expired
  <2>3. LockLasts => LockLasts'
    BY <2>1, <2>2 DEF LockLasts, SwitchForcesStage2, IsRcModeActive, Shorter,
       Expired
  <2>4. HeldOK'
    BY <1>4, <2>1, <2>3 DEF LockInv, HeldOK, Locked, SwitchBeginsNothing,
       RecordHeld, ArmSwitchOn, IsRcModeActive
  <2> QED
    BY <2>1, <2>4, OutsideKeepsWhole
<1>5. ASSUME RecordHeld, RunFailsafe PROVE Goal
  <2>1. /\ UNCHANGED <<armed, rcModes, phase, rxPeriodLeft, rxPeriodPreset,
                       procedure, switchMode, boxFailsafeSwitchWasOn, rxState>>
        /\ armingDisableFlags \subseteq armingDisableFlags'
        /\ tasksDone' = tasksDone \cup {"FAILSAFE"}
        /\ ~reprocessState
    BY <1>5 DEF RunFailsafe, FailsafeUpdateState,
       FailsafeCheckDataFailurePeriod, clockVars, configVars
  <2>2. HeldOK'
    BY <1>5, <2>1, QuietLocks
  <2>3. LoopAgrees'
    <3>1. phase' # "RX_LOSS_DETECTED"
      BY <2>1 DEF LockInv, CoreSafe, SafetyParts, SettledPhase
    <3>2. /\ armed \in BOOLEAN /\ monitoring \in BOOLEAN
          /\ reprocessState' = monitoring
          /\ loopArmed' = (monitoring /\ armed)
          /\ SwitchForcesStage2 => ~loopReceiving'
      BY <1>5 DEF RunFailsafe, FailsafeUpdateState, LockInv, CoreSafe,
         CoreTypeOK, RuntimeTypeOK, FailsafeTypeOK, SwitchesTypeOK
    <3>3. SwitchForcesStage2' => SwitchForcesStage2
      BY <2>1 DEF SwitchForcesStage2, IsRcModeActive
    <3> QED
      BY <2>1, <3>1, <3>2, <3>3 DEF LoopAgrees
  <2>4. BoxesOK' /\ RecoveryIsWhole'
    BY <2>1 DEF LockInv, BoxesOK, RecoveryIsWhole, SwitchBeginsNothing,
       SwitchForcesStage2, IsRcModeActive
  <2> QED
    BY <2>2, <2>3, <2>4
<1>6. ASSUME RecordHeld, FailsafeLoop PROVE Goal
  <2>1. PICK t, s, c \in BOOLEAN : FailsafeIteration(t, s, c)
    BY <1>6 DEF FailsafeLoop
  <2>2. LoopAgrees' /\ RecoveryIsWhole'
    BY <2>1, IterationKeepsWhole
  <2>3. HeldOK'
    BY <1>6, <2>1, IterationLocks DEF FailsafeLoop
  <2>4. UNCHANGED rcModes
    BY <2>1 DEF FailsafeIteration, IdleNotArmed, IdleFlying, IdleDisarms,
       IdleLosesLink, StartProcedure, RecoverLink, KeepLanding, FinishLanding,
       KeepRescuing, FinishRescue, Landed, KeepMonitoring, Recovered, MoveTo,
       StayInPhase, EndIteration
  <2> QED
    BY <2>2, <2>3, <2>4 DEF LockInv, BoxesOK
<1>7. ASSUME RecordHeld, PowerOnDelayEnds \/ ThrowTask PROVE Goal
  <2>1. UNCHANGED <<runtimeVars, failsafeVars, rxState, tasksDone>>
        /\ ~reprocessState
    BY <1>7 DEF PowerOnDelayEnds, ThrowTask, Idle
  <2> QED
    BY <1>7, <2>1, QuietLocks, OutsideKeepsWhole
       DEF runtimeVars, failsafeVars, clockVars, loopVars, configVars
<1>8. ASSUME RecordHeld, NEW frame \in Frames, NEW signal \in BOOLEAN,
             RxCheck(frame, signal)
      PROVE  Goal
  <2>1. FailsafeOnValidDataReceived \/ FailsafeOnValidDataFailed
    BY <1>8 DEF RxCheck, ReviewFrame
  <2>2. /\ UNCHANGED <<phase, rxPeriodLeft, rxPeriodPreset, procedure,
                       switchMode, reprocessState>>
        /\ armingDisableFlags
               \cap {"FAILSAFE", "RUNAWAY_TAKEOFF", "ARM_SWITCH"}
               \subseteq armingDisableFlags'
    BY <2>1 DEF FailsafeOnValidDataReceived, FailsafeOnValidDataFailed, loopVars,
       configVars
  <2>3. ~reprocessState /\ UNCHANGED <<armed, rcModes>> /\ rxState' = "MODES"
    BY <1>8 DEF RxCheck, Idle
  <2> QED
    BY <1>8, <2>2, <2>3, QuietLocks, OutsideKeepsWhole
<1>9. ASSUME RecordHeld, RxModes PROVE Goal
  <2>1. HeldOK'
    BY <1>9, ModesLock
  <2>2. /\ UNCHANGED <<phase, rxPeriodPreset, procedure, switchMode,
                       reprocessState>>
        /\ ~reprocessState
    BY <1>9 DEF RxModes, Idle, failsafeVars, loopVars, configVars
  <2>3. BoxesOK'
    BY <1>9 DEF RxModes, ProcessRxModes, UpdateActivatedModes, Switched,
       Paralyzed, LockInv, BoxesOK, CoreSafe, CoreTypeOK, RxTypeOK,
       IsRcModeActive
  <2>4. LoopAgrees' /\ RecoveryIsWhole'
    BY <2>2 DEF LockInv, CoreSafe, SafetyParts, SettledPhase, LoopAgrees,
       RecoveryIsWhole, SwitchBeginsNothing
  <2> QED
    BY <2>1, <2>3, <2>4
<1>10. ASSUME RecordHeld, RxUpdate PROVE Goal
  <2>1. /\ UNCHANGED <<phase, rxPeriodLeft, rxPeriodPreset, armed, rcModes,
                       procedure, switchMode, reprocessState>>
        /\ ~reprocessState
    BY <1>10 DEF RxUpdate, Idle, failsafeVars, clockVars, loopVars, configVars
  <2>2. ASSUME heldSinceDisarm' PROVE ~armed /\ "BOXARM" \in rcModes /\ Locked'
    <3>1. heldSinceDisarm
      BY <1>10, <2>1, <2>2 DEF RecordHeld
    <3>2. ~armed /\ "BOXARM" \in rcModes /\ Locked /\ "BOXTHROWTOARM" \notin rcModes
      BY <3>1 DEF LockInv, HeldOK, BoxesOK
    <3>3. CASE ~SwitchBeginsNothing /\ IsRcModeActive("BOXPARALYZE")
      BY <2>1, <3>2, <3>3 DEF Locked, SwitchBeginsNothing, IsRcModeActive
    <3>4. CASE armingDisableFlags
                   \cap {"FAILSAFE", "RUNAWAY_TAKEOFF", "ARM_SWITCH"} # {}
      <4>1. \A m \in BOOLEAN : "ARM_SWITCH" \in StatusFlags(m)
        BY <3>2, <3>4, StatusLocks
      <4>2. "ARM_SWITCH" \in armingDisableFlags'
        BY <1>10, <3>2, <4>1 DEF RxUpdate, UpdateArmingStatus
      <4> QED
        BY <3>2, <4>2 DEF Locked
    <3> QED
      BY <3>2, <3>3, <3>4 DEF Locked
  <2> QED
    BY <2>1, <2>2, OutsideKeepsWhole DEF HeldOK
<1>11. ASSUME RecordHeld, PidLoop PROVE Goal
  <2>1. /\ UNCHANGED <<phase, rxPeriodPreset, rcModes, procedure, switchMode,
                       reprocessState>>
        /\ ~reprocessState
    BY <1>11 DEF PidLoop, Idle, failsafeVars, loopVars, configVars
  <2>2. HeldOK'
    BY <1>11 DEF PidLoop, RunawayTakeoff, LockInv, HeldOK, Locked, RecordHeld,
       ArmSwitchOn, IsRcModeActive
  <2> QED
    BY <2>1, <2>2, OutsideKeepsWhole
<1>12. ASSUME RecordHeld, WriteConfig PROVE Goal
  <2>1. /\ UNCHANGED <<phase, rxPeriodLeft, rxPeriodPreset, procedure,
                       switchMode, reprocessState, runtimeVars, rxState,
                       tasksDone>>
        /\ ~reprocessState
    BY <1>12 DEF WriteConfig, Idle, FailsafeOnConfigWrite, loopVars, configVars
  <2> QED
    BY <1>12, <2>1, QuietLocks, OutsideKeepsWhole DEF runtimeVars
<1>13. ASSUME RecordHeld, ReloadConfig PROVE Goal
  <2>1. /\ UNCHANGED <<armed, armingDisableFlags, rcModes, procedure, switchMode,
                       reprocessState>>
        /\ ~reprocessState /\ phase' = "IDLE" /\ rxPeriodPreset' = RecoveryPeriod
    BY <1>13 DEF ReloadConfig, Idle, FailsafeOnConfigReload, runtimeVars, loopVars,
       configVars
  <2>2. HeldOK'
    BY <1>13, <2>1 DEF LockInv, HeldOK, Locked, LockLasts, SwitchBeginsNothing,
       RecordHeld, ArmSwitchOn, IsRcModeActive
  <2> QED
    BY <2>1, <2>2 DEF LockInv, BoxesOK, LoopAgrees, RecoveryIsWhole
<1>14. CASE UNCHANGED lockVars
  BY <1>14 DEF lockVars, coreVars, runtimeVars, failsafeVars, clockVars, loopVars,
     configVars, LockInv, BoxesOK, LoopAgrees, RecoveryIsWhole, HeldOK, Locked,
     LockLasts, SwitchBeginsNothing, SwitchForcesStage2, IsRcModeActive
<1> QED
  BY <1>4, <1>5, <1>6, <1>7, <1>8, <1>9, <1>10, <1>11, <1>12, <1>13, <1>14
     DEF LockNext, CoreNext, RxCheckFrame, RxCheckTimeout

(* A craft that the failsafe or a runaway take-off disarmed stays disarmed, *)
(* with arming inhibited, until the arm switch is seen off: for every       *)
(* period of the failsafe, when no aux range has a throw switch and no      *)
(* landing is begun by a failsafe switch.  (With such a switch set to drop  *)
(* the craft the sticky BOXPARALYZE is not on the radio as well: it skips   *)
(* the look at the arm switch and keeps the craft disarmed on its own.)     *)
THEOREM AutomaticDisarmHolds ==
    ASSUME SwitchNeverLands, "BOXTHROWTOARM" \notin UsedBoxes,
           \/ "BOXPARALYZE" \notin UsedBoxes
           \/ "BOXFAILSAFE" \notin UsedBoxes
           \/ SwitchModes \subseteq {"KILL"}
    PROVE  LockSpec => []AutomaticDisarmLocks
<1>1. LockInv => AutomaticDisarmLocks
  <2> SUFFICES ASSUME LockInv, heldSinceDisarm
               PROVE  ~armed /\ armingDisableFlags
                      \cap {"FAILSAFE", "RUNAWAY_TAKEOFF", "ARM_SWITCH"} # {}
    BY DEF AutomaticDisarmLocks
  <2>1. ~armed /\ Locked
    BY DEF LockInv, HeldOK
  <2>2. rcModes \subseteq UsedBoxes /\ switchMode \in SwitchModes
    BY DEF LockInv, BoxesOK, CoreSafe, CoreTypeOK, FailsafeTypeOK, PhaseTypeOK
  <2>3. ~(~SwitchBeginsNothing /\ IsRcModeActive("BOXPARALYZE"))
    BY <2>2 DEF SwitchBeginsNothing, IsRcModeActive
  <2> QED
    BY <2>1, <2>3 DEF Locked
<1>2. LockInit => LockInv
  BY LockInitially
<1>3. LockInv /\ [LockNext]_lockVars => LockInv'
  BY LockStep
<1> QED
  BY <1>1, <1>2, <1>3, PTL DEF LockSpec

(* With BOXPARALYZE on the radio too: such a craft stays disarmed with the  *)
(* switch held on, by an inhibition or because it is paralyzed.             *)
THEOREM HeldCraftStaysDisarmed ==
    ASSUME SwitchNeverLands, "BOXTHROWTOARM" \notin UsedBoxes
    PROVE  LockSpec => [](\/ AutomaticDisarmLocks
                          \/ ~armed /\ IsRcModeActive("BOXPARALYZE"))
<1>1. LockInv => \/ AutomaticDisarmLocks
                 \/ ~armed /\ IsRcModeActive("BOXPARALYZE")
  BY DEF LockInv, HeldOK, Locked, AutomaticDisarmLocks
<1>2. LockInit => LockInv
  BY LockInitially
<1>3. LockInv /\ [LockNext]_lockVars => LockInv'
  BY LockStep
<1> QED
  BY <1>1, <1>2, <1>3, PTL DEF LockSpec

-----------------------------------------------------------------------------
(* A disarmed craft with BOXPARALYZE on stays disarmed with it on: the mode *)
(* is sticky, and the sticks are not looked at.                             *)
THEOREM ParalysisIsForGood == LockSpec => ParalyzedForGood
<1> DEFINE Stays == ~armed /\ IsRcModeActive("BOXPARALYZE")
                        => ~armed' /\ "BOXPARALYZE" \in rcModes'
<1>1. [LockNext]_lockVars => [Stays]_coreVars
  <2> SUFFICES ASSUME LockNext, ~armed, IsRcModeActive("BOXPARALYZE")
               PROVE  ~armed' /\ "BOXPARALYZE" \in rcModes'
    BY DEF lockVars
  <2>1. CASE FailsafeLoop
    <3>1. PICK t, s, c \in BOOLEAN : FailsafeIteration(t, s, c)
      BY <2>1 DEF FailsafeLoop
    <3>2. ~armed'
      BY <3>1 DEF FailsafeIteration, IdleNotArmed, IdleFlying, IdleDisarms,
         IdleLosesLink, StartProcedure, RecoverLink, KeepLanding,
         FinishLanding, KeepRescuing, FinishRescue, Landed, KeepMonitoring,
         Recovered, MoveTo, StayInPhase
    <3>3. UNCHANGED rcModes
      BY <3>1 DEF FailsafeIteration, IdleNotArmed, IdleFlying, IdleDisarms,
         IdleLosesLink, StartProcedure, RecoverLink, KeepLanding,
         FinishLanding, KeepRescuing, FinishRescue, Landed, KeepMonitoring,
         Recovered, MoveTo, StayInPhase, EndIteration
    <3> QED
      BY <3>2, <3>3 DEF IsRcModeActive
  <2>2. CASE RxModes
    BY <2>2 DEF RxModes, ProcessRxModes, ProcessRcStickPositions,
       UpdateActivatedModes, Paralyzed, Switched, IsRcModeActive
  <2>3. CASE RunFailsafe
    BY <2>3 DEF RunFailsafe, FailsafeUpdateState, IsRcModeActive
  <2>4. CASE Tick \/ PowerOnDelayEnds \/ ThrowTask \/ WriteConfig \/ ReloadConfig
    BY <2>4 DEF Tick, PowerOnDelayEnds, ThrowTask, WriteConfig, ReloadConfig,
       runtimeVars, IsRcModeActive
  <2>5. CASE RxCheckFrame \/ RxCheckTimeout
    <3>1. PICK frame \in Frames, signal \in BOOLEAN : RxCheck(frame, signal)
      BY <2>5 DEF RxCheckFrame, RxCheckTimeout
    <3>2. UNCHANGED armed /\ UNCHANGED rcModes
      BY <3>1 DEF RxCheck
    <3> QED
      BY <3>2 DEF IsRcModeActive
  <2>6. CASE RxUpdate
    <3>1. UNCHANGED armed /\ UNCHANGED rcModes
      BY <2>6 DEF RxUpdate
    <3> QED
      BY <3>1 DEF IsRcModeActive
  <2>7. CASE PidLoop
    BY <2>7 DEF PidLoop, RunawayTakeoff
  <2> QED
    BY <2>1, <2>2, <2>3, <2>4, <2>5, <2>6, <2>7 DEF LockNext, CoreNext
<1> QED
  BY <1>1, PTL DEF LockSpec, ParalyzedForGood

-----------------------------------------------------------------------------
(* Before a throw is recognised something inhibits arming.                  *)
LEMMA ThrowAwaited ==
    ASSUME IsRcModeActive("BOXTHROWTOARM"), throwState # "THROWN", NEW flags
    PROVE  AfterThrow(flags) # {}
<1>1. CASE ThrowInProgress
  <2>1. "WAITING_FOR_THROW" \in AfterThrow(flags)
    BY <1>1 DEF AfterThrow, Switched
  <2> QED
    BY <2>1
<1>2. CASE ~ThrowInProgress
  <2>1. "THROW_NOT_READY" \in AfterThrow(flags)
    BY <1>2 DEF AfterThrow
  <2> QED
    BY <2>1
<1> QED
  BY <1>1, <1>2

(* With the throw switch on, however the composition interleaves its tasks, *)
(* only the craft whose throw has been recognised is armed.                 *)
THEOREM OnlyAThrowArms == CoreSpec => ThrowSwitchNeedsThrow
<1> DEFINE Needs == ~armed /\ armed' /\ IsRcModeActive("BOXTHROWTOARM")
                        => throwState = "THROWN"
<1>1. [CoreNext]_coreVars => [Needs]_coreVars
  <2> SUFFICES ASSUME CoreNext, ~armed, IsRcModeActive("BOXTHROWTOARM"),
                      throwState # "THROWN"
               PROVE  ~armed'
    OBVIOUS
  <2>1. CASE RxModes
    <3>1. UpdateArmingStatus => armingDisableFlags' # {}
      BY ThrowAwaited DEF UpdateArmingStatus, StatusFlags
    <3>2. ProcessRcStickPositions
      BY <2>1 DEF RxModes, ProcessRxModes
    <3> QED
      BY <3>1, <3>2 DEF ProcessRcStickPositions, ProcessArmSwitch, TryArm,
         SwitchMayDisarm
  <2>2. CASE FailsafeLoop
    BY <2>2 DEF FailsafeLoop, FailsafeIteration, IdleNotArmed, IdleFlying,
       IdleDisarms, IdleLosesLink, StartProcedure, RecoverLink, KeepLanding,
       FinishLanding, KeepRescuing, FinishRescue, Landed, KeepMonitoring,
       Recovered, MoveTo, StayInPhase
  <2>3. CASE RxCheckFrame \/ RxCheckTimeout
    BY <2>3 DEF RxCheckFrame, RxCheckTimeout, RxCheck
  <2>4. CASE Tick \/ RunFailsafe \/ PowerOnDelayEnds \/ ThrowTask \/ RxUpdate
    BY <2>4 DEF Tick, RunFailsafe, FailsafeUpdateState, PowerOnDelayEnds,
       ThrowTask, RxUpdate, runtimeVars
  <2>5. CASE WriteConfig \/ ReloadConfig \/ PidLoop
    BY <2>5 DEF WriteConfig, ReloadConfig, PidLoop, RunawayTakeoff, runtimeVars
  <2> QED
    BY <2>1, <2>2, <2>3, <2>4, <2>5 DEF CoreNext
<1> QED
  BY <1>1, PTL DEF CoreSpec, ThrowSwitchNeedsThrow

-----------------------------------------------------------------------------
(* rx.c, core.c and the tasks implement what FailsafeSystem assumes.        *)

(* An iteration of the loop is one of FailsafeSystem.                       *)
LEMMA IterationMaps ==
    ASSUME NEW t \in BOOLEAN, NEW s \in BOOLEAN, NEW c \in BOOLEAN,
           FailsafeIteration(t, s, c)
    PROVE  System!FailsafeIteration(t, s, c)
<1> USE DEF EndIteration, System!EndIteration, IterationAt, System!IterationAt,
        configVars, System!configVars, Expired, System!Expired
<1>1. IsRcModeActive("BOXFAILSAFE") <=> System!IsRcModeActive("BOXFAILSAFE")
  BY DEF IsRcModeActive, System!IsRcModeActive
<1>2. KillSwitchOn <=> System!KillSwitchOn
  BY <1>1 DEF KillSwitchOn, System!KillSwitchOn
<1>3. TrackThrottle(t) = System!TrackThrottle(t)
  BY DEF TrackThrottle, System!TrackThrottle
<1>4. JustDisarm(t) <=> System!JustDisarm(t)
  BY <1>3 DEF JustDisarm, System!JustDisarm
<1>5. ProcedurePhase = System!ProcedurePhase
  BY DEF ProcedurePhase, System!ProcedurePhase
<1>6. ASSUME NEW p, MoveTo(p) PROVE System!MoveTo(p)
  BY <1>6 DEF MoveTo, System!MoveTo
<1>7. StayInPhase => System!StayInPhase
  BY DEF StayInPhase, System!StayInPhase
<1>8. ASSUME boxFailsafeSwitchWasOn' = IsRcModeActive("BOXFAILSAFE")
      PROVE  boxFailsafeSwitchWasOn' = System!IsRcModeActive("BOXFAILSAFE")
  <2>1. IsRcModeActive("BOXFAILSAFE") \in BOOLEAN
        /\ System!IsRcModeActive("BOXFAILSAFE") \in BOOLEAN
    BY DEF IsRcModeActive, System!IsRcModeActive
  <2>2. IsRcModeActive("BOXFAILSAFE") = System!IsRcModeActive("BOXFAILSAFE")
    BY <1>1, <2>1
  <2> QED
    BY <1>8, <2>2, Zenon
<1>9. ASSUME NEW set, NEW x
      PROVE  Switched(set, x, IsRcModeActive("BOXFAILSAFE"))
                 = System!Switched(set, x, System!IsRcModeActive("BOXFAILSAFE"))
  BY <1>1 DEF Switched, System!Switched
<1>11. CASE IdleNotArmed
  <2>1. boxFailsafeSwitchWasOn' = System!IsRcModeActive("BOXFAILSAFE")
    BY <1>8, <1>11 DEF IdleNotArmed
  <2>2. System!IdleNotArmed
    BY <1>9, <1>11, <2>1 DEF IdleNotArmed, System!IdleNotArmed
  <2> QED
    BY <2>2 DEF System!FailsafeIteration
<1>12. CASE IdleFlying(t)
  <2>1. boxFailsafeSwitchWasOn' = System!IsRcModeActive("BOXFAILSAFE")
    BY <1>8, <1>12 DEF IdleFlying
  <2>2. System!IdleFlying(t)
    BY <1>2, <1>3, <1>12, <2>1 DEF IdleFlying, System!IdleFlying
  <2> QED
    BY <2>2 DEF System!FailsafeIteration
<1>13. CASE IdleDisarms(t)
  <2>1. boxFailsafeSwitchWasOn' = System!IsRcModeActive("BOXFAILSAFE")
    BY <1>8, <1>13 DEF IdleDisarms
  <2>2. System!IdleDisarms(t)
    BY <1>2, <1>3, <1>4, <1>13, <2>1 DEF IdleDisarms, System!IdleDisarms
  <2> QED
    BY <2>2 DEF System!FailsafeIteration
<1>14. CASE IdleLosesLink(t)
  <2>1. boxFailsafeSwitchWasOn' = System!IsRcModeActive("BOXFAILSAFE")
    BY <1>8, <1>14 DEF IdleLosesLink
  <2>2. System!IdleLosesLink(t)
    BY <1>2, <1>3, <1>4, <1>14, <2>1 DEF IdleLosesLink, System!IdleLosesLink
  <2> QED
    BY <2>2 DEF System!FailsafeIteration
<1>15. CASE StartProcedure
  BY <1>5, <1>15 DEF StartProcedure, System!StartProcedure,
     System!FailsafeIteration
<1>16. CASE RecoverLink(s)
  BY <1>6, <1>16 DEF RecoverLink, System!RecoverLink, System!FailsafeIteration
<1>17. CASE KeepLanding(c)
  BY <1>7, <1>17 DEF KeepLanding, System!KeepLanding, System!FailsafeIteration
<1>18. CASE FinishLanding(c)
  BY <1>6, <1>18 DEF FinishLanding, System!FinishLanding,
     System!FailsafeIteration
<1>19. CASE KeepRescuing(s)
  BY <1>7, <1>19 DEF KeepRescuing, System!KeepRescuing,
     System!FailsafeIteration
<1>20. CASE FinishRescue
  BY <1>6, <1>20 DEF FinishRescue, System!FinishRescue,
     System!FailsafeIteration
<1>21. CASE Landed
  BY <1>21 DEF Landed, System!Landed, System!FailsafeIteration
<1>22. CASE KeepMonitoring
  BY <1>22 DEF KeepMonitoring, System!KeepMonitoring, System!FailsafeIteration
<1>23. CASE Recovered
  BY <1>23 DEF Recovered, System!Recovered, System!FailsafeIteration
<1> QED
  BY <1>11, <1>12, <1>13, <1>14, <1>15, <1>16, <1>17, <1>18, <1>19, <1>20,
     <1>21, <1>22, <1>23 DEF FailsafeIteration

(* Of the inhibitions FailsafeSystem knows updateArmingStatus touches none. *)
LEMMA StatusMaps ==
    ASSUME "BOXTHROWTOARM" \notin rcModes, NEW m \in BOOLEAN
    PROVE  /\ StatusFlags(m) \cap {"FAILSAFE", "RX_FAILSAFE", "BST"}
                  = armingDisableFlags \cap {"FAILSAFE", "RX_FAILSAFE", "BST"}
           /\ "BOOT_GRACE_TIME" \in armingDisableFlags /\ ~powerOnDelayOver
                  => "BOOT_GRACE_TIME" \in StatusFlags(m)
<1> DEFINE K == {"FAILSAFE", "RX_FAILSAFE", "BST"}
           B == {"BOOT_GRACE_TIME"}
           flags == IF powerOnDelayOver /\ m THEN armingDisableFlags \ B
                                             ELSE armingDisableFlags
<1>1. ASSUME NEW f PROVE /\ AfterRxRecovery(f) \cap K = f \cap K
                         /\ AfterRxRecovery(f) \cap B = f \cap B
  BY DEF AfterRxRecovery
<1>2. ASSUME NEW f PROVE /\ AfterConditions(f) \cap K = f \cap K
                         /\ AfterConditions(f) \cap B = f \cap B
  BY DEF AfterConditions, Switched
<1>3. ASSUME NEW f PROVE /\ AfterArmSwitch(f) \cap K = f \cap K
                         /\ AfterArmSwitch(f) \cap B = f \cap B
  BY DEF AfterArmSwitch
<1>4. ASSUME NEW f PROVE /\ AfterThrow(f) \cap K = f \cap K
                         /\ AfterThrow(f) \cap B = f \cap B
  BY DEF AfterThrow, IsRcModeActive
<1>5. /\ flags \cap K = armingDisableFlags \cap K
      /\ ~powerOnDelayOver => flags \cap B = armingDisableFlags \cap B
  OBVIOUS
<1>6. StatusFlags(m)
          = AfterThrow(AfterArmSwitch(AfterConditions(AfterRxRecovery(flags))))
  BY DEF StatusFlags
<1> HIDE DEF flags
<1>7. StatusFlags(m) \cap K = flags \cap K
  BY <1>1, <1>2, <1>3, <1>4, <1>6
<1>8. StatusFlags(m) \cap B = flags \cap B
  BY <1>1, <1>2, <1>3, <1>4, <1>6
<1>9. "BOOT_GRACE_TIME" \in armingDisableFlags /\ ~powerOnDelayOver
          => "BOOT_GRACE_TIME" \in StatusFlags(m)
  BY <1>5, <1>8
<1> QED
  BY <1>5, <1>7, <1>9

(* What the refinement rests on: nothing arms before the power-on delay is  *)
(* over, and the modes follow a review.                                     *)
MapInv ==
    /\ CoreTypeOK
    /\ "BOXTHROWTOARM" \notin rcModes
    /\ ~powerOnDelayOver => ~armed /\ "BOOT_GRACE_TIME" \in armingDisableFlags
    /\ rxState = "MODES" => "RX" \in tasksDone

(* The arm switch arms only a craft with no inhibition, and touches none of *)
(* those FailsafeSystem knows.                                              *)
LEMMA SticksMap ==
    ASSUME MapInv, ProcessRcStickPositions
    PROVE  /\ armed' => armed \/ armingDisableFlags
                                     \cap {"FAILSAFE", "RX_FAILSAFE", "BST"} = {}
           /\ armed' => armed \/ powerOnDelayOver
           /\ armingDisableFlags' \cap {"FAILSAFE", "RX_FAILSAFE", "BST"}
                  = armingDisableFlags \cap {"FAILSAFE", "RX_FAILSAFE", "BST"}
           /\ "BOOT_GRACE_TIME" \in armingDisableFlags /\ ~powerOnDelayOver
                  => "BOOT_GRACE_TIME" \in armingDisableFlags'
<1> USE DEF ProcessRcStickPositions, ProcessArmSwitch
<1>1. CASE UNCHANGED <<armed, armingDisableFlags>>
  BY <1>1
<1>2. CASE TryArm
  <2>1. \/ armed /\ armed' /\ UNCHANGED armingDisableFlags
        \/ ~armed /\ \E m \in BOOLEAN : armingDisableFlags' = StatusFlags(m)
    BY <1>2 DEF TryArm, UpdateArmingStatus, MapInv, CoreTypeOK, RuntimeTypeOK
  <2>2. CASE armed /\ armed' /\ UNCHANGED armingDisableFlags
    BY <2>2
  <2>3. ASSUME ~armed, NEW m \in BOOLEAN, armingDisableFlags' = StatusFlags(m)
        PROVE  /\ armed' => armingDisableFlags' = {}
               /\ armingDisableFlags' \cap {"FAILSAFE", "RX_FAILSAFE", "BST"}
                    = armingDisableFlags \cap {"FAILSAFE", "RX_FAILSAFE", "BST"}
               /\ "BOOT_GRACE_TIME" \in armingDisableFlags /\ ~powerOnDelayOver
                    => "BOOT_GRACE_TIME" \in armingDisableFlags'
    BY <1>2, <2>3, StatusMaps DEF TryArm, MapInv
  <2> QED
    BY <2>1, <2>2, <2>3 DEF MapInv
<1>3. CASE CountDisarmTick /\ armed /\ UNCHANGED armingDisableFlags
  BY <1>3
<1> QED
  BY <1>1, <1>2, <1>3 DEF SwitchMayDisarm

LEMMA MapInitially == FlightInit => MapInv
<1> SUFFICES ASSUME FlightInit PROVE MapInv
  OBVIOUS
<1>1. CoreTypeOK
  BY CoreInitTyped DEF FlightInit, LockInit
<1> QED
  BY <1>1 DEF FlightInit, LockInit, CoreInit, MapInv

LEMMA MapStep ==
    ASSUME "BOXTHROWTOARM" \notin UsedBoxes
    PROVE  MapInv /\ [CoreNext]_coreVars => MapInv'
<1> SUFFICES ASSUME MapInv, [CoreNext]_coreVars PROVE MapInv'
  OBVIOUS
<1>1. CoreTypeOK'
  BY CoreStepTyped DEF MapInv
<1> DEFINE Rest == /\ "BOXTHROWTOARM" \notin rcModes
                   /\ ~powerOnDelayOver
                          => ~armed /\ "BOOT_GRACE_TIME" \in armingDisableFlags
                   /\ rxState = "MODES" => "RX" \in tasksDone
<1>2. SUFFICES Rest'
  BY <1>1 DEF MapInv
<1>3. CASE FailsafeLoop
  <2>1. PICK t, s, c \in BOOLEAN : FailsafeIteration(t, s, c)
    BY <1>3 DEF FailsafeLoop
  <2>2. ~armed => ~armed'
    BY <2>1 DEF FailsafeIteration, IdleNotArmed, IdleFlying, IdleDisarms,
       IdleLosesLink, StartProcedure, RecoverLink, KeepLanding,
       FinishLanding, KeepRescuing, FinishRescue, Landed, KeepMonitoring,
       Recovered, MoveTo, StayInPhase
  <2>3. armingDisableFlags \ {"FAILSAFE"} \subseteq armingDisableFlags'
    BY <2>1 DEF FailsafeIteration, IdleNotArmed, IdleFlying, IdleDisarms,
       IdleLosesLink, StartProcedure, RecoverLink, KeepLanding,
       FinishLanding, KeepRescuing, FinishRescue, Landed, KeepMonitoring,
       Recovered, MoveTo, StayInPhase
  <2>4. UNCHANGED rcModes
    BY <2>1 DEF FailsafeIteration, IdleNotArmed, IdleFlying, IdleDisarms,
       IdleLosesLink, StartProcedure, RecoverLink, KeepLanding,
       FinishLanding, KeepRescuing, FinishRescue, Landed, KeepMonitoring,
       Recovered, MoveTo, StayInPhase, EndIteration
  <2> QED
    BY <1>3, <2>2, <2>3, <2>4 DEF FailsafeLoop, armingVars, MapInv
<1>4. CASE RxModes
  <2>1. "BOXTHROWTOARM" \notin rcModes' /\ UNCHANGED powerOnDelayOver
    BY <1>4 DEF RxModes, ProcessRxModes, UpdateActivatedModes, Switched, MapInv,
       CoreTypeOK, RxTypeOK
  <2>2. rxState' = "UPDATE"
    BY <1>4 DEF RxModes
  <2>3. ~powerOnDelayOver
            => ~armed' /\ "BOOT_GRACE_TIME" \in armingDisableFlags'
    BY <1>4, SticksMap DEF RxModes, ProcessRxModes, MapInv
  <2> QED
    BY <2>1, <2>2, <2>3
<1>5. CASE RxUpdate
  <2>1. "BOOT_GRACE_TIME" \in armingDisableFlags /\ ~powerOnDelayOver
            => "BOOT_GRACE_TIME" \in armingDisableFlags'
    BY <1>5, StatusMaps DEF RxUpdate, UpdateArmingStatus, MapInv
  <2> QED
    BY <1>5, <2>1 DEF RxUpdate, MapInv
<1>6. CASE RxCheckFrame \/ RxCheckTimeout
  <2>1. PICK frame \in Frames, signal \in BOOLEAN : RxCheck(frame, signal)
    BY <1>6 DEF RxCheckFrame, RxCheckTimeout
  <2>2. armingDisableFlags \ {"RX_FAILSAFE", "BST"}
            \subseteq armingDisableFlags'
    BY <2>1 DEF RxCheck, ReviewFrame, FailsafeOnValidDataReceived,
       FailsafeOnValidDataFailed
  <2>3. UNCHANGED <<armed, rcModes, powerOnDelayOver>> /\ "RX" \in tasksDone'
    BY <2>1 DEF RxCheck, armingVars
  <2> QED
    BY <2>2, <2>3 DEF MapInv
<1>7. CASE RunFailsafe
  BY <1>7 DEF RunFailsafe, FailsafeUpdateState, FailsafeCheckDataFailurePeriod,
     armingVars, MapInv
<1>8. CASE Tick \/ PowerOnDelayEnds \/ ThrowTask \/ WriteConfig \/ ReloadConfig
  BY <1>8 DEF Tick, PowerOnDelayEnds, ThrowTask, WriteConfig, ReloadConfig,
     runtimeVars, armingVars, MapInv
<1>9. CASE PidLoop
  BY <1>9 DEF PidLoop, RunawayTakeoff, armingVars, MapInv
<1>10. CASE UNCHANGED coreVars
  BY <1>10 DEF coreVars, runtimeVars, armingVars, MapInv
<1> QED
  BY <1>3, <1>4, <1>5, <1>6, <1>7, <1>8, <1>9, <1>10 DEF CoreNext

LEMMA InitMaps == FlightInit => System!SystemInit
BY DEF FlightInit, LockInit, CoreInit, FailsafeInit, HistoryInit,
   System!SystemInit, System!FailsafeInit, System!HistoryInit, NotStamped, Expired, System!NotStamped, System!Expired

(* Every step of the composition is one of FailsafeSystem, or a stutter.    *)
LEMMA StepMaps ==
    MapInv /\ [FlightNext]_flightVars
        => [System!SystemNext]_(System!systemVars)
<1> SUFFICES ASSUME MapInv, [FlightNext]_flightVars
             PROVE  System!SystemNext \/ UNCHANGED System!systemVars
  OBVIOUS
<1> USE DEF System!SystemNext, System!systemVars, System!runtimeVars,
        System!failsafeVars, System!historyVars, System!clockVars,
        System!configVars, System!loopVars, System!PeriodicTasks,
        runtimeVars, failsafeVars, clockVars, configVars, loopVars, historyVars,
        Idle
<1>1. CASE TimePasses
  <2>1. System!ClockTick
    BY <1>1 DEF TimePasses, Tick, ClockTick, System!ClockTick, Older, Shorter,
       System!Older, System!Shorter, NotStamped, Expired, System!NotStamped,
       System!Expired
  <2>2. System!Tick
    BY <1>1, <2>1 DEF TimePasses, Tick, System!Tick, PeriodicTasks,
       SilenceGrows, System!SilenceGrows, SilenceMax, System!SilenceMax
  <2> QED
    BY <2>2
<1>2. CASE ConfigReloaded
  <2>1. System!FailsafeOnConfigReload
    BY <1>2 DEF ConfigReloaded, ReloadConfig, FailsafeOnConfigReload,
       System!FailsafeOnConfigReload, NotStamped, Expired, System!NotStamped,
       System!Expired
  <2>2. System!ReloadConfig
    BY <1>2, <2>1 DEF ConfigReloaded, ReloadConfig, System!ReloadConfig,
       ReloadIsRecorded, System!ReloadIsRecorded
  <2> QED
    BY <2>2
<1>3. ASSUME NEW frame \in Frames, NEW signal \in BOOLEAN,
             RxCheck(frame, signal),
             silence' = IF FlightChannelsValid(frame, signal) THEN 0
                                                              ELSE silence,
             UNCHANGED reloadedInStage2
      PROVE  System!SystemNext
  <2>1. System!MonitorFromNowOn
    BY <1>3 DEF RxCheck, MonitorWhenPoweredOn, FailsafeStartMonitoring, MapInv,
       System!MonitorFromNowOn, System!FailsafeStartMonitoring
  <2>2. CASE FlightChannelsValid(frame, signal)
    <3>1. System!FailsafeOnValidDataReceived
      BY <1>3, <2>2 DEF RxCheck, ReviewFrame, FailsafeOnValidDataReceived,
         System!FailsafeOnValidDataReceived, NotStamped, System!NotStamped
    <3>2. ~System!IsRcModeActive("BOXFAILSAFE")
      BY <2>2 DEF FlightChannelsValid, PacketIsGood, IsRcModeActive,
         System!IsRcModeActive
    <3>3. System!ReceiveValidData
      BY <1>3, <2>1, <2>2, <3>1, <3>2 DEF RxCheck, System!ReceiveValidData
    <3> QED
      BY <3>3
  <2>3. CASE ~FlightChannelsValid(frame, signal)
    <3>1. System!FailsafeOnValidDataFailed
      BY <1>3, <2>3 DEF RxCheck, ReviewFrame, FailsafeOnValidDataFailed,
         System!FailsafeOnValidDataFailed
    <3>2. System!MissValidData
      BY <1>3, <2>1, <2>3, <3>1 DEF RxCheck, System!MissValidData
    <3> QED
      BY <3>2
  <2> QED
    BY <2>2, <2>3
<1>4. CASE RunFailsafe /\ UNCHANGED historyVars
  <2>1. System!SwitchForcesStage2 <=> SwitchForcesStage2
    BY DEF SwitchForcesStage2, System!SwitchForcesStage2, IsRcModeActive,
       System!IsRcModeActive
  <2>2. System!LinkStateAfterCheck = LinkStateAfterCheck
    BY DEF LinkStateAfterCheck, System!LinkStateAfterCheck
  <2>3. System!FailsafeCheckDataFailurePeriod
    BY <1>4, <2>2 DEF RunFailsafe, FailsafeUpdateState,
       FailsafeCheckDataFailurePeriod, System!FailsafeCheckDataFailurePeriod
  <2>4. System!FailsafeUpdateState
    BY <1>4, <2>1, <2>2, <2>3 DEF RunFailsafe, FailsafeUpdateState,
       System!FailsafeUpdateState
  <2>5. System!RunFailsafe
    BY <1>4, <2>4 DEF RunFailsafe, System!RunFailsafe
  <2> QED
    BY <2>5
<1>5. CASE FailsafeLoop /\ UNCHANGED historyVars
  <2>1. PICK s, c \in BOOLEAN : FailsafeIteration(rcThrottle = "low", s, c)
    BY <1>5 DEF FailsafeLoop
  <2>2. (rcThrottle = "low") \in BOOLEAN
    OBVIOUS
  <2>3. System!FailsafeIteration(rcThrottle = "low", s, c)
    BY <2>1, <2>2, IterationMaps
  <2>4. System!FailsafeLoop
    BY <1>5, <2>2, <2>3 DEF FailsafeLoop, System!FailsafeLoop
  <2> QED
    BY <2>4
<1>6. CASE RxModes /\ UNCHANGED historyVars
  <2>1. /\ armed' => armed \/ ~System!IsArmingDisabled
        /\ UNCHANGED (armingDisableFlags
                          \cap {"FAILSAFE", "RX_FAILSAFE", "BST"})
    BY <1>6, SticksMap DEF RxModes, ProcessRxModes, System!IsArmingDisabled
  <2>2. armed' \in BOOLEAN
    BY <1>6, ModesTyped DEF MapInv, CoreTypeOK, RuntimeTypeOK
  <2>3. \E boxOn \in BOOLEAN :
           rcModes' \cap {"BOXFAILSAFE"}
               = System!Switched(rcModes \cap {"BOXFAILSAFE"}, "BOXFAILSAFE",
                                 boxOn)
    <3>1. CASE "BOXFAILSAFE" \in rcModes'
      BY <3>1 DEF System!Switched
    <3>2. CASE "BOXFAILSAFE" \notin rcModes'
      BY <3>2 DEF System!Switched
    <3> QED
      BY <3>1, <3>2
  <2>4. flightModeFlags' = System!Switched(flightModeFlags, "GPS_RESCUE_MODE",
                               armed' /\ active /\ procedure = "GPS_RESCUE")
    BY <1>6 DEF RxModes, ProcessRxModes, GpsRescueWanted, Switched,
       System!Switched
  <2>5. ~reprocessState /\ "RX" \in tasksDone
        /\ UNCHANGED System!failsafeVars
        /\ UNCHANGED <<tasksDone, silence, reloadedInStage2>>
    BY <1>6 DEF RxModes, MapInv
  <2>6. System!ProcessRxModes
    BY <2>1, <2>2, <2>3, <2>4, <2>5 DEF System!ProcessRxModes
  <2> QED
    BY <2>6
<1>7. CASE RxUpdate /\ UNCHANGED historyVars
  <2>1. UNCHANGED (armingDisableFlags \cap {"FAILSAFE", "RX_FAILSAFE", "BST"})
    BY <1>7, StatusMaps DEF RxUpdate, UpdateArmingStatus, MapInv
  <2> QED
    BY <1>7, <2>1 DEF RxUpdate
<1>8. CASE PidLoop /\ UNCHANGED historyVars
  <2>1. System!Disarm
    BY <1>8 DEF PidLoop, RunawayTakeoff, System!Disarm
  <2> QED
    BY <2>1
<1>9. CASE WriteConfig /\ UNCHANGED historyVars
  <2>1. System!FailsafeOnConfigWrite
    BY <1>9 DEF WriteConfig, FailsafeOnConfigWrite, System!FailsafeOnConfigWrite
  <2>2. System!WriteConfig
    BY <1>9, <2>1 DEF WriteConfig, System!WriteConfig
  <2> QED
    BY <2>2
<1>10. CASE /\ PowerOnDelayEnds \/ ThrowTask
            /\ UNCHANGED historyVars
  BY <1>10 DEF PowerOnDelayEnds, ThrowTask
<1>11. CASE UNCHANGED flightVars
  BY <1>11 DEF flightVars, lockVars, coreVars, historyVars
<1> QED
  BY <1>1, <1>2, <1>3, <1>4, <1>5, <1>6, <1>7, <1>8, <1>9, <1>10, <1>11
     DEF FlightNext, DataReviewed, NothingToRecord

(* The composition implements FailsafeSystem, so that what holds of every   *)
(* step of FailsafeSystem holds end to end: for every period and every aux  *)
(* range but a throw switch.                                                *)
THEOREM CompositionImplements ==
    ASSUME "BOXTHROWTOARM" \notin UsedBoxes
    PROVE  FlightSpec => ImplementsFailsafeSystem
<1>1. FlightInit => MapInv /\ System!SystemInit
  BY MapInitially, InitMaps
<1>2. MapInv /\ [FlightNext]_flightVars => MapInv'
  BY MapStep, FlightIsLock DEF LockNext, flightVars, lockVars
<1>3. MapInv /\ [FlightNext]_flightVars
          => [System!SystemNext]_(System!systemVars)
  BY StepMaps
<1> QED
  BY <1>1, <1>2, <1>3, PTL DEF FlightSpec, ImplementsFailsafeSystem

-----------------------------------------------------------------------------
(* The bound on silence, end to end.  A craft is monitored when it may arm, *)
(* and arms only when it has just been heard.                               *)

HearInv == MapInv /\ SafetyParts /\ HistoryTypeOK /\ SilenceInv

LEMMA FlightStartsHeard == FlightInit => HearInv
<1> SUFFICES ASSUME FlightInit PROVE HearInv
  OBVIOUS
<1>1. SafetyParts
  BY CoreStartsSafe DEF FlightInit, LockInit, CoreSafe
<1>2. HistoryTypeOK
  <2>1. silence \in 0..SilenceMax
    BY PeriodsAssumption DEF FlightInit, HistoryInit, SilenceMax
  <2> QED
    BY <2>1 DEF FlightInit, HistoryInit, HistoryTypeOK
<1>3. SilenceInv
  BY InitSilence DEF FlightInit, LockInit, CoreInit
<1> QED
  BY <1>1, <1>2, <1>3, MapInitially DEF HearInv

LEMMA FlightStepHeard ==
    ASSUME HearInv, [FlightNext]_flightVars
    PROVE  SilenceInv'
<1>1. Typed /\ SafetyParts /\ SilenceInv /\ CoreTypeOK
  BY DEF HearInv, MapInv, CoreTypeOK, Typed, FailsafeTyped
<1> USE DEF Idle
<1>2. CASE TimePasses
  BY <1>1, <1>2, TickSilence DEF TimePasses, Tick, ClockMoves
<1>3. CASE DataReviewed
  <2>1. PICK frame \in Frames, signal \in BOOLEAN :
           /\ RxCheck(frame, signal)
           /\ silence' = IF FlightChannelsValid(frame, signal) THEN 0
                                                               ELSE silence
    BY <1>3 DEF DataReviewed
  <2>2. /\ ~reprocessState /\ UNCHANGED armed
        /\ tasksDone' = tasksDone \cup {"RX"}
        /\ armed => monitoring'
    BY <2>1 DEF RxCheck, MonitorWhenPoweredOn, FailsafeStartMonitoring,
       HearInv, MapInv
  <2>3. CASE FlightChannelsValid(frame, signal)
    <3>1. FailsafeOnValidDataReceived
      BY <2>1, <2>3 DEF RxCheck, ReviewFrame
    <3> QED
      BY <1>1, <2>1, <2>2, <2>3, <3>1, HeardSilence
  <2>4. CASE ~FlightChannelsValid(frame, signal)
    <3>1. FailsafeOnValidDataFailed
      BY <2>1, <2>4 DEF RxCheck, ReviewFrame
    <3> QED
      BY <1>1, <2>1, <2>2, <2>4, <3>1, MissedSilence
  <2> QED
    BY <2>3, <2>4
<1>4. CASE RunFailsafe /\ UNCHANGED historyVars
  BY <1>1, <1>4, CheckSilence DEF RunFailsafe, historyVars
<1>5. CASE FailsafeLoop /\ UNCHANGED historyVars
  <2>1. PICK t, s, c \in BOOLEAN : FailsafeIteration(t, s, c)
    BY <1>5 DEF FailsafeLoop
  <2> QED
    BY <1>1, <1>5, <2>1, IterationSilence DEF FailsafeLoop, historyVars
<1>6. CASE RxModes /\ UNCHANGED historyVars
  <2>1. /\ armingDisableFlags' \cap {"FAILSAFE", "RX_FAILSAFE"}
               = armingDisableFlags \cap {"FAILSAFE", "RX_FAILSAFE"}
        /\ armed' => armed \/ armingDisableFlags
                                  \cap {"FAILSAFE", "RX_FAILSAFE"} = {}
    BY <1>1, <1>6, SticksKeepLoss DEF RxModes, ProcessRxModes
  <2>2. "RX" \in tasksDone
    BY <1>6 DEF RxModes, HearInv, MapInv
  <2> QED
    BY <1>1, <1>6, <2>1, <2>2, OthersSilence DEF RxModes, historyVars
<1>7. CASE RxUpdate /\ UNCHANGED historyVars
  <2>1. "RX_FAILSAFE" \in armingDisableFlags
            => "RX_FAILSAFE" \in armingDisableFlags'
    BY <1>7, StatusKeepsLoss DEF RxUpdate, UpdateArmingStatus
  <2> QED
    BY <1>1, <1>7, <2>1, OthersSilence DEF RxUpdate, historyVars
<1>8. CASE PidLoop /\ UNCHANGED historyVars
  BY <1>1, <1>8, OthersSilence DEF PidLoop, RunawayTakeoff, historyVars
<1>9. CASE (PowerOnDelayEnds \/ ThrowTask) /\ UNCHANGED historyVars
  BY <1>1, <1>9, OthersSilence DEF PowerOnDelayEnds, ThrowTask, runtimeVars,
     historyVars
<1>10. CASE ConfigReloaded \/ (WriteConfig /\ UNCHANGED historyVars)
  BY <1>1, <1>10, ConfigSilence DEF ConfigReloaded, ReloadConfig, WriteConfig,
     historyVars
<1>11. CASE UNCHANGED flightVars
  BY <1>1, <1>11 DEF flightVars, lockVars, coreVars, runtimeVars, failsafeVars,
     loopVars, clockVars, configVars, historyVars, SilenceInv, HeardOK,
     JustHeard, AgeOK, LoopOK, Chosen, PhaseBound, CheckedBound, LandingOK
<1> QED
  BY <1>2, <1>3, <1>4, <1>5, <1>6, <1>7, <1>8, <1>9, <1>10, <1>11
     DEF FlightNext, NothingToRecord

LEMMA HearStep ==
    ASSUME "BOXTHROWTOARM" \notin UsedBoxes
    PROVE  HearInv /\ [FlightNext]_flightVars => HearInv'
<1> SUFFICES ASSUME HearInv, [FlightNext]_flightVars PROVE HearInv'
  OBVIOUS
<1>1. [CoreNext]_coreVars
  BY FlightIsLock DEF LockNext, flightVars, lockVars
<1>2. MapInv'
  BY <1>1, MapStep DEF HearInv
<1>3. SafetyParts'
  BY <1>1, CoreStaysSafe DEF HearInv, MapInv, CoreSafe
<1>4. HistoryTypeOK'
  BY FlightHistoryTyped DEF HearInv, MapInv
<1>5. SilenceInv'
  BY FlightStepHeard
<1> QED
  BY <1>2, <1>3, <1>4, <1>5 DEF HearInv

(* End to end an armed craft that hears nothing valid is disarmed when      *)
(* stage 1 and the landing time are over, whatever the switches last said:  *)
(* for every period and every aux range but a throw switch, which may arm   *)
(* before the power-on delay is over and the monitoring on.                 *)
THEOREM SilenceDisarmsEndToEnd ==
    ASSUME "BOXTHROWTOARM" \notin UsedBoxes
    PROVE  FlightSpec => []SilentCraftIsDisarmed
<1>1. HearInv => SilentCraftIsDisarmed
  BY SilenceIsBounded
     DEF HearInv, MapInv, CoreTypeOK, Typed, FailsafeTyped
<1> QED
  BY <1>1, FlightStartsHeard, HearStep, PTL DEF FlightSpec
=============================================================================
