---------------------------- MODULE LinkHistory ----------------------------
(***************************************************************************)
(* What is recorded of a flight beside the state of failsafe.c: how long   *)
(* no valid data came, and whether the configuration was reloaded in       *)
(* stage 2.                                                                *)
(***************************************************************************)
EXTENDS Failsafe

VARIABLES
    silence,           \* history: time since the last valid data
    reloadedInStage2   \* history: failsafeReset ran while active

historyVars == <<silence, reloadedInStage2>>

SilenceMax == FailurePeriod + LandingDelay + 3   \* a bound: silence saturates

HistoryTypeOK ==
    /\ silence \in 0..SilenceMax
    /\ reloadedInStage2 \in BOOLEAN

HistoryInit == silence = 0 /\ reloadedInStage2 = FALSE

SilenceGrows ==
    silence' = IF silence < SilenceMax THEN silence + 1 ELSE SilenceMax

ReloadIsRecorded == reloadedInStage2' = (reloadedInStage2 \/ active)

-----------------------------------------------------------------------------
(* An armed craft that has heard nothing is disarmed when stage 1 and the   *)
(* landing time are over, whatever the switches last said (the procedure    *)
(* that flies home is the exception).                                       *)
(* Two more ticks are the granularity of the two deadlines: each must be    *)
(* past, not reached.                                                       *)
SilentCraftIsDisarmed ==
    armed /\ procedure # "GPS_RESCUE" =>
        silence <= FailurePeriod + LandingDelay + 2
=============================================================================
