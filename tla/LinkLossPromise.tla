-------------------------- MODULE LinkLossPromise --------------------------
(***************************************************************************)
(* What the failsafe promises, without its phases, timers and link state:  *)
(* an armed craft that loses its link is in an emergency, an emergency     *)
(* ends either with the link back or with the craft disarmed and locked,   *)
(* and a locked craft cannot be armed before the lock is lifted.           *)
(***************************************************************************)
VARIABLES
    armed,   \* the motors may turn
    stage    \* "normal", "emergency" (stage 2) or "lockout" (disarmed by it)

promiseVars == <<armed, stage>>

Stages == {"normal", "emergency", "lockout"}

PromiseInit == armed = FALSE /\ stage = "normal"

(* Arming is refused in the lockout only: a craft disarmed by hand during   *)
(* an emergency that never locked it may be armed again.                    *)
Arm == ~armed /\ stage # "lockout" /\ armed' = TRUE /\ UNCHANGED stage

Disarm == armed /\ armed' = FALSE /\ UNCHANGED stage

LoseLink == armed /\ stage = "normal" /\ stage' = "emergency" /\ UNCHANGED armed

GiveUp == stage = "emergency" /\ armed' = FALSE /\ stage' = "lockout"

Recover == stage # "normal" /\ stage' = "normal" /\ UNCHANGED armed

PromiseNext == Arm \/ Disarm \/ LoseLink \/ GiveUp \/ Recover

PromiseSpec == PromiseInit /\ [][PromiseNext]_promiseVars
=============================================================================
