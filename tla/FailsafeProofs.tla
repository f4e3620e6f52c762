--------------------------- MODULE FailsafeProofs ---------------------------
(***************************************************************************)
(* Theorems about FailsafeSystem for every stage 1 period, recovery period *)
(* and landing time: its type invariant, the lockout after a disarm by the *)
(* failsafe, the settled phases, the end of the loop, the harmless stale   *)
(* copy of ARMED, the refinement of LinkLossPromise, and the bound on the  *)
(* silence an armed craft may fly in.                                      *)
(***************************************************************************)
EXTENDS FailsafeSystem, FailsafeLemmas

-----------------------------------------------------------------------------
(* What each step of FailsafeSystem is to the lemmas of the failsafe.       *)

(* The loop and the check that begins a run of it are the failsafe's own.   *)
FailsafeRuns == RunFailsafe \/ FailsafeLoop

LEMMA OthersHonour ==
    ASSUME SystemTypeOK, [SystemNext]_systemVars, ~FailsafeRuns
    PROVE  /\ HonoursLock
           /\ UNCHANGED reprocessState
           /\ phase' \in {phase, "IDLE"}
           /\ ~reprocessState \/ UNCHANGED systemVars
<1>1. CASE Tick
  BY <1>1 DEF Tick, HonoursLock, runtimeVars, loopVars
<1>2. CASE ReceiveValidData \/ MissValidData
  BY <1>2, ReportHonours DEF ReceiveValidData, MissValidData, loopVars,
     FailsafeOnValidDataReceived, FailsafeOnValidDataFailed
<1>3. CASE ProcessRxModes
  BY <1>3 DEF ProcessRxModes, IsArmingDisabled, HonoursLock, failsafeVars,
     loopVars
<1>4. CASE Disarm
  BY <1>4 DEF Disarm, HonoursLock, failsafeVars, loopVars
<1>5. CASE WriteConfig
  BY <1>5 DEF WriteConfig, FailsafeOnConfigWrite, HonoursLock, runtimeVars,
     loopVars
<1>6. CASE ReloadConfig
  BY <1>6 DEF ReloadConfig, FailsafeOnConfigReload, HonoursLock, runtimeVars,
     loopVars
<1>7. CASE UNCHANGED systemVars
  BY <1>7 DEF systemVars, HonoursLock, runtimeVars, failsafeVars, loopVars
<1> QED
  BY <1>1, <1>2, <1>3, <1>4, <1>5, <1>6, <1>7 DEF SystemNext, FailsafeRuns

-----------------------------------------------------------------------------
(* Type correctness. *)

LEMMA InitTypeOK == SystemInit => SystemTypeOK
<1> SUFFICES ASSUME SystemInit PROVE SystemTypeOK
  OBVIOUS
<1>1. RuntimeTypeOK
  BY DEF SystemInit, RuntimeTypeOK
<1>2. HistoryTypeOK
  <2>1. silence \in 0..SilenceMax
    BY PeriodsAssumption DEF SystemInit, HistoryInit, SilenceMax
  <2> QED
    BY <2>1 DEF SystemInit, HistoryInit, HistoryTypeOK
<1> QED
  BY <1>1, <1>2, InitTyped DEF SystemInit, SystemTypeOK

LEMMA StepTypeOK == SystemTypeOK /\ [SystemNext]_systemVars => SystemTypeOK'
<1> SUFFICES ASSUME SystemTypeOK, [SystemNext]_systemVars PROVE SystemTypeOK'
  OBVIOUS
<1>1. FailsafeTyped /\ HistoryTypeOK /\ active \in BOOLEAN
  BY DEF SystemTypeOK, FailsafeTyped, FailsafeTypeOK, SwitchesTypeOK
<1>2. HistoryTypeOK'
  <2>1. SilenceGrows \/ silence' \in {0, silence}
    BY DEF SystemNext, Tick, RunFailsafe, FailsafeLoop, ReceiveValidData,
       MissValidData, ProcessRxModes, Disarm, WriteConfig, ReloadConfig,
       systemVars, historyVars
  <2>2. ReloadIsRecorded \/ UNCHANGED reloadedInStage2
    BY DEF SystemNext, Tick, RunFailsafe, FailsafeLoop, ReceiveValidData,
       MissValidData, ProcessRxModes, Disarm, WriteConfig, ReloadConfig,
       systemVars, historyVars
  <2> QED
    BY <1>1, <2>1, <2>2, HistoryTyped
<1>3. tasksDone' \subseteq PeriodicTasks
  BY DEF SystemNext, Tick, RunFailsafe, FailsafeLoop, ReceiveValidData,
     MissValidData, ProcessRxModes, Disarm, WriteConfig, ReloadConfig,
     systemVars, SystemTypeOK, PeriodicTasks
<1>4. FailsafeTyped'
  <2>1. CASE Tick
    BY <1>1, <2>1, ClockTyped DEF Tick, ClockMoves
  <2>2. CASE RunFailsafe
    BY <1>1, <2>2, CheckTyped DEF RunFailsafe
  <2>3. CASE FailsafeLoop
    BY <1>1, <2>3, IterationTyped DEF FailsafeLoop
  <2>4. CASE ReceiveValidData \/ MissValidData
    <3>1. monitoring' \in BOOLEAN
      BY <1>1, <2>4 DEF ReceiveValidData, MissValidData, MonitorFromNowOn,
         FailsafeStartMonitoring, FailsafeTyped, FailsafeTypeOK, SwitchesTypeOK
    <3> QED
      BY <1>1, <2>4, <3>1, ReportTyped DEF ReceiveValidData, MissValidData
  <2>5. CASE ProcessRxModes
    <3>1. RuntimeTypeOK'
      BY <1>1, <2>5 DEF ProcessRxModes, FailsafeTyped, RuntimeTypeOK, Switched,
         Boxes, FlightModes
    <3>2. UNCHANGED failsafeVars
      BY <2>5 DEF ProcessRxModes
    <3> QED
      BY <1>1, <3>1, <3>2, OthersTyped DEF FailsafeTyped
  <2>6. CASE Disarm
    <3>1. RuntimeTypeOK'
      BY <1>1, <2>6 DEF Disarm, FailsafeTyped, RuntimeTypeOK
    <3>2. UNCHANGED failsafeVars
      BY <2>6 DEF Disarm
    <3> QED
      BY <1>1, <3>1, <3>2, OthersTyped DEF FailsafeTyped
  <2>7. CASE WriteConfig
    BY <1>1, <2>7, WriteTyped DEF WriteConfig
  <2>8. CASE ReloadConfig
    BY <1>1, <2>8, ReloadTyped DEF ReloadConfig
  <2>9. CASE UNCHANGED systemVars
    <3>1. RuntimeTypeOK' /\ UNCHANGED failsafeVars
      BY <1>1, <2>9 DEF systemVars, runtimeVars, FailsafeTyped, RuntimeTypeOK
    <3> QED
      BY <1>1, <3>1, OthersTyped DEF FailsafeTyped
  <2> QED
    BY <2>1, <2>2, <2>3, <2>4, <2>5, <2>6, <2>7, <2>8, <2>9 DEF SystemNext
<1> QED
  BY <1>2, <1>3, <1>4 DEF FailsafeTyped, SystemTypeOK

(* Every variable of the failsafe keeps its type, the deadlines within      *)
(* their periods.                                                           *)
THEOREM TypeCorrect == SystemSpec => []SystemTypeOK
BY InitTypeOK, StepTypeOK, PTL DEF SystemSpec

-----------------------------------------------------------------------------
(* Safety. *)

SafetyInv == SystemTypeOK /\ SafetyParts

LEMMA SystemStartsSafe == SystemInit => SafetyInv
BY InitTypeOK, InitSafety DEF SystemInit, SafetyInv

LEMMA StepSafety == SafetyInv /\ [SystemNext]_systemVars => SafetyInv'
<1> SUFFICES ASSUME SafetyInv, [SystemNext]_systemVars PROVE SafetyInv'
  OBVIOUS
<1>1. SystemTypeOK'
  BY StepTypeOK DEF SafetyInv
<1>2. SystemTypeOK /\ FailsafeTyped /\ SafetyParts
  BY DEF SafetyInv, SystemTypeOK, FailsafeTyped
<1>3. CASE RunFailsafe
  BY <1>1, <1>2, <1>3, CheckSafety DEF RunFailsafe, SafetyInv
<1>4. CASE FailsafeLoop
  BY <1>1, <1>2, <1>4, IterationSafety DEF FailsafeLoop, SafetyInv
<1>5. CASE UNCHANGED systemVars
  BY <1>1, <1>2, <1>5 DEF systemVars, runtimeVars, failsafeVars, clockVars,
     loopVars, SafetyInv, SafetyParts, SettledPhase, LockoutKeepsDisarmed,
     StaleArmedIsNeverRead, PhaseMeaning
<1>6. CASE ~FailsafeRuns /\ ~UNCHANGED systemVars
  BY <1>1, <1>2, <1>6, OthersHonour, OthersSafety DEF SafetyInv
<1> QED
  BY <1>3, <1>4, <1>5, <1>6 DEF FailsafeRuns

LEMMA SafetyIsInvariant == SystemSpec => []SafetyInv
BY SystemStartsSafe, StepSafety, PTL DEF SystemSpec

(* From the disarm by the failsafe to the end of the failsafe the craft is  *)
(* disarmed, for every length of the periods.                               *)
THEOREM LockoutHolds == SystemSpec => []LockoutKeepsDisarmed
<1>1. SafetyInv => LockoutKeepsDisarmed
  BY DEF SafetyInv, SafetyParts
<1> QED
  BY <1>1, SafetyIsInvariant, PTL

(* Between two runs of failsafeUpdateState the phase is a waiting one.      *)
THEOREM PhaseSettles == SystemSpec => []SettledPhase
<1>1. SafetyInv => SettledPhase
  BY DEF SafetyInv, SafetyParts
<1> QED
  BY <1>1, SafetyIsInvariant, PTL

(* failsafeUpdateState returns after at most seven iterations, whatever the *)
(* settings, the switches and the link: each lowers LoopRank or is the last.*)
THEOREM LoopIsShort ==
    SystemSpec => /\ [](LoopRank \in 1..7)
                  /\ [][FailsafeLoop => LoopGoesDown]_systemVars
<1>1. SafetyInv => FailsafeTyped
  BY DEF SafetyInv, SystemTypeOK, FailsafeTyped
<1>2. SafetyInv => LoopRank \in 1..7
  BY <1>1, RankTyped
<1>3. SafetyInv /\ [SystemNext]_systemVars
          => [FailsafeLoop => LoopGoesDown]_systemVars
  BY <1>1, IterationGoesDown DEF FailsafeLoop
<1> QED
  BY <1>2, <1>3, SafetyIsInvariant, PTL DEF SystemSpec

(* The copy of ARMED that the loop works with is never read when stale.     *)
THEOREM StaleArmedIsHarmless == SystemSpec => []StaleArmedIsNeverRead
<1>1. SafetyInv => StaleArmedIsNeverRead
  BY DEF SafetyInv, SafetyParts
<1> QED
  BY <1>1, SafetyIsInvariant, PTL

-----------------------------------------------------------------------------
(* The bound on silence.                                                    *)

LEMMA SystemStartsHeard == SystemInit => SilenceInv
BY InitSilence DEF SystemInit

LEMMA StepSilence ==
    ASSUME SafetyInv, SilenceInv, [SystemNext]_systemVars
    PROVE  SilenceInv'
<1>1. Typed /\ SafetyParts
  BY DEF SafetyInv, SystemTypeOK, Typed, FailsafeTyped
<1>2. CASE Tick
  BY <1>1, <1>2, TickSilence DEF Tick, ClockMoves
<1>3. CASE RunFailsafe
  BY <1>1, <1>3, CheckSilence DEF RunFailsafe, historyVars
<1>4. CASE FailsafeLoop
  BY <1>1, <1>4, IterationSilence DEF FailsafeLoop, historyVars
<1>5. CASE ReceiveValidData
  BY <1>1, <1>5, HeardSilence DEF ReceiveValidData
<1>6. CASE MissValidData
  BY <1>1, <1>6, MissedSilence DEF MissValidData, historyVars,
     MonitorFromNowOn, FailsafeStartMonitoring
<1>7. CASE ProcessRxModes
  <2>1. armed' => armed \/ "RX_FAILSAFE" \notin armingDisableFlags
    BY <1>7 DEF ProcessRxModes, IsArmingDisabled
  <2> QED
    BY <1>1, <1>7, <2>1, OthersSilence DEF ProcessRxModes, historyVars
<1>8. CASE Disarm
  BY <1>1, <1>8, OthersSilence DEF Disarm, historyVars
<1>9. CASE WriteConfig \/ ReloadConfig
  BY <1>9, ConfigSilence DEF WriteConfig, ReloadConfig, historyVars
<1>10. CASE UNCHANGED systemVars
  BY <1>10 DEF systemVars, runtimeVars, failsafeVars, loopVars, clockVars,
     configVars, historyVars, SilenceInv, HeardOK, JustHeard, AgeOK, LoopOK,
     Chosen, PhaseBound, CheckedBound, LandingOK
<1> QED
  BY <1>2, <1>3, <1>4, <1>5, <1>6, <1>7, <1>8, <1>9, <1>10 DEF SystemNext

(* Whatever the switches last said, an armed craft that hears nothing is    *)
(* disarmed when stage 1 and the landing are over, for every length of them.*)
THEOREM SilenceDisarms == SystemSpec => []SilentCraftIsDisarmed
<1>1. SafetyInv /\ SilenceInv => SilentCraftIsDisarmed
  BY SilenceIsBounded DEF SafetyInv, SystemTypeOK, Typed, FailsafeTyped
<1> QED
  BY <1>1, SystemStartsHeard, StepSilence, SafetyIsInvariant, PTL
     DEF SystemSpec

-----------------------------------------------------------------------------
(* Refinement. *)

LEMMA SystemStartsPromise == SystemInit => Promise!PromiseInit
BY InitImplementsPromise DEF SystemInit

LEMMA StepImplementsPromise ==
    SafetyInv /\ [SystemNext]_systemVars
        => [Promise!PromiseNext]_(Promise!promiseVars)
<1> SUFFICES ASSUME SafetyInv, [SystemNext]_systemVars
             PROVE  [Promise!PromiseNext]_(Promise!promiseVars)
  OBVIOUS
<1>1. SystemTypeOK /\ FailsafeTyped /\ SafetyParts
  BY DEF SafetyInv, SystemTypeOK, FailsafeTyped
<1>2. armed \in BOOLEAN /\ armed' \in BOOLEAN
  BY <1>1, StepTypeOK DEF SystemTypeOK, RuntimeTypeOK
<1>3. CASE FailsafeLoop
  BY <1>1, <1>3, IterationImplementsPromise DEF FailsafeLoop
<1>4. CASE RunFailsafe
  BY <1>2, <1>4, CheckHonours, OthersImplementPromise DEF RunFailsafe
<1>5. CASE ~FailsafeRuns
  BY <1>1, <1>2, <1>5, OthersHonour, OthersImplementPromise
<1> QED
  BY <1>3, <1>4, <1>5 DEF FailsafeRuns

(* failsafe.c with its phases, clocks and link state keeps the promise of   *)
(* LinkLossPromise: every step is a step of it or changes nothing it sees.  *)
THEOREM FailsafeKeepsPromise == SystemSpec => ImplementsPromise
<1>1. SystemSpec => []SafetyInv
  BY SafetyIsInvariant
<1> QED
  BY <1>1, SystemStartsPromise, StepImplementsPromise, PTL
     DEF SystemSpec, ImplementsPromise, Promise!PromiseSpec
=============================================================================
