----------------------------- MODULE GpsRescue -----------------------------
(***************************************************************************)
(* flight/gps_rescue.c: the phases of a rescue and its sanity checks, run  *)
(* by the GPS_RESCUE task whether or not a rescue is on.  What the flight  *)
(* to home looks like is a reading: whether the goal of the phase is       *)
(* reached and whether the craft came closer to it within the last second. *)
(* A pass is one step; the operators below take the state of the rescue    *)
(* from one of its calls to the next.                                      *)
(***************************************************************************)
EXTENDS RuntimeConfig

CONSTANTS
    SanityChecks,           \* "ON", "FS_ONLY" or "OFF"
    AllowArmingWithoutFix,
    UseMag,                 \* a magnetometer is there and used
    FlyawayLimit,           \* 15 seconds without coming closer to home
    StuckLimit,             \* 10 without climbing or descending
    LowSatsLimit,           \* 10 with too few satellites
    NothingLimit            \* 20 of doing nothing

ASSUME RescueAssumption ==
    /\ SanityChecks \in {"ON", "FS_ONLY", "OFF"}
    /\ AllowArmingWithoutFix \in BOOLEAN /\ UseMag \in BOOLEAN
    /\ FlyawayLimit \in Nat \ {0} /\ StuckLimit \in 1..FlyawayLimit
    /\ LowSatsLimit \in Nat \ {0} /\ NothingLimit \in Nat \ {0}

VARIABLES
    rescueState,   \* with the static counters of performSanityChecks
    stuck,         \* the craft neither climbs, approaches nor descends
    checkDue,      \* a second is over since previousTimeUs
    taskRan,       \* the task ran in this second
    failing,       \* history: seconds since the rescue failed
    away           \* history: seconds in FLY_HOME without coming closer

rescueVars == <<rescueState, stuck, checkDue, taskRan, failing, away>>

Phases == { "IDLE", "INITIALIZE", "ATTAIN_ALT", "ROTATE", "FLY_HOME",
            "DESCENT", "LANDING", "ABORT", "DO_NOTHING" }
Failures == { "HEALTHY", "FLYAWAY", "GPSLOST", "LOWSATS", "NO_HOME_POINT" }

RescueMode == "GPS_RESCUE_MODE" \in flightModeFlags

RescueStates ==
    [ phase : Phases, failure : Failures,
      secondsFailing : 0..FlyawayLimit,
      secondsLowSats : 0..LowSatsLimit,
      secondsDoingNothing : 0..NothingLimit,
      healthy : BOOLEAN,             \* GPS data came in, at the last pass
      impact : BOOLEAN,              \* accMagnitude, as it was last measured
      magForceDisable : BOOLEAN,
      disarms : BOOLEAN ]            \* the pass that is made disarms

RescueInit ==
    rescueState = [ phase |-> "IDLE", failure |-> "HEALTHY",
                    secondsFailing |-> 0, secondsLowSats |-> 0,
                    secondsDoingNothing |-> 0, healthy |-> FALSE,
                    impact |-> FALSE, magForceDisable |-> FALSE,
                    disarms |-> FALSE ]

Starts == RescueMode /\ rescueState.phase = "IDLE"

PhaseAfter == [ ATTAIN_ALT |-> "ROTATE", ROTATE |-> "FLY_HOME",
                FLY_HOME |-> "DESCENT", DESCENT |-> "LANDING" ]

(* What a pass may find; what it does not look at is left FALSE. *)
Readings ==
    [ healthy : BOOLEAN,               \* gpsIsHealthy
      home : {"NONE", "HERE", "AWAY"}, \* no GPS_FIX_HOME, or whether the craft
                                       \* is low and within 5 m of it
      reached :                        \* the goal of the phase
         IF rescueState.phase \in DOMAIN PhaseAfter THEN BOOLEAN ELSE {FALSE},
      progress :                       \* towards it, since the last slow check
         IF checkDue THEN BOOLEAN ELSE {FALSE},
      fewSats : IF checkDue THEN BOOLEAN ELSE {FALSE},
      hit :                            \* an acceleration over the threshold
         IF rescueState.phase = "LANDING" THEN BOOLEAN ELSE {FALSE},
      crash :                          \* crashRecoveryModeActive
         IF Starts \/ rescueState.phase # "IDLE" THEN BOOLEAN ELSE {FALSE},
      signal :                         \* rxIsReceivingSignal
         IF Starts \/ rescueState.phase = "INITIALIZE"
              \/ rescueState.failure # "HEALTHY"
         THEN BOOLEAN ELSE {FALSE} ]

(* setArmingDisabled(ARMING_DISABLED_ARM_SWITCH), disarm, rescueStop *)
Disarmed(r) == [r EXCEPT !.phase = "IDLE", !.disarms = TRUE]

(* Mutant of Counted: the counter is not constrained. *)
CountedUnlimited(n, up, limit) ==
    IF up THEN n + 1 ELSE IF n > 0 THEN n - 1 ELSE 0

(* constrain(n + (up ? 1 : -1), 0, limit) *)
Counted(n, up, limit) ==
    LET m == IF up THEN n + 1 ELSE n - 1
    IN  IF m < 0 THEN 0 ELSE IF m > limit THEN limit ELSE m

-----------------------------------------------------------------------------
(* performSanityChecks *)

CountersReset(r) ==
    IF r.phase = "INITIALIZE"
    THEN [r EXCEPT !.secondsLowSats = 0, !.secondsDoingNothing = 0] ELSE r

FailureAborts(in) ==
    \/ SanityChecks = "ON"
    \/ SanityChecks = "FS_ONLY" /\ ~in.signal
    \/ SanityChecks = "OFF" /\ AllowArmingWithoutFix /\ in.home = "NONE" /\ ~in.signal

(* Mutant of FailureHandled: a rescue that has begun to land goes on. *)
FailureHandledUnlessLanding(r, in) ==
    IF r.failure = "HEALTHY" \/ r.phase = "LANDING" THEN r
    ELSE [r EXCEPT !.phase = IF FailureAborts(in) THEN "ABORT" ELSE "DO_NOTHING"]

FailureHandled(r, in) ==
    IF r.failure = "HEALTHY" THEN r
    ELSE [r EXCEPT !.phase = IF FailureAborts(in) THEN "ABORT" ELSE "DO_NOTHING"]

CrashChecked(r, in) == IF in.crash THEN Disarmed(r) ELSE r

GpsChecked(r) == IF r.healthy THEN r ELSE [r EXCEPT !.failure = "GPSLOST"]

(* Mutant of FlyawayFound: every flight that fails is tried again. *)
FlyawayFoundAgain(r) ==
    [r EXCEPT !.magForceDisable = TRUE, !.secondsFailing = 0]

(* A flight that does not come closer is tried again without the            *)
(* magnetometer, once and for all.                                          *)
FlyawayFound(r) ==
    IF UseMag /\ ~r.magForceDisable
    THEN [r EXCEPT !.magForceDisable = TRUE, !.secondsFailing = 0]
    ELSE [r EXCEPT !.failure = "FLYAWAY"]

FlightChecked(r, in) ==
    IF r.phase # "FLY_HOME" THEN r
    ELSE LET n == Counted(r.secondsFailing, ~in.progress, FlyawayLimit)
             s == [r EXCEPT !.secondsFailing = n]
         IN  IF n = FlyawayLimit THEN FlyawayFound(s) ELSE s

SatsChecked(r, in) ==
    LET n == Counted(r.secondsLowSats, in.fewSats, LowSatsLimit)
    IN  [r EXCEPT !.secondsLowSats = n,
                  !.failure = IF n = LowSatsLimit THEN "LOWSATS" ELSE @]

(* Mutant of AltitudeChecked: a landing that is stuck is begun anew. *)
AltitudeCheckedAgain(r, in) ==
    IF r.phase \notin {"ATTAIN_ALT", "DESCENT", "LANDING"} THEN r
    ELSE LET n == Counted(r.secondsFailing, ~in.progress, StuckLimit)
         IN  IF n < StuckLimit THEN [r EXCEPT !.secondsFailing = n]
             ELSE [r EXCEPT !.phase = "LANDING", !.secondsFailing = 0]

(* Getting stuck in a climb or a descent leads to the landing, which leads  *)
(* to the end.                                                              *)
AltitudeChecked(r, in) ==
    IF r.phase \notin {"ATTAIN_ALT", "DESCENT", "LANDING"} THEN r
    ELSE LET n == Counted(r.secondsFailing, ~in.progress, StuckLimit)
             s == [r EXCEPT !.secondsFailing = n]
         IN  IF n < StuckLimit THEN s
             ELSE IF r.phase = "LANDING" THEN [s EXCEPT !.phase = "ABORT"]
             ELSE [s EXCEPT !.phase = "LANDING", !.secondsFailing = 0]

(* Mutant of NothingChecked: the count is taken anew whenever the GPS is    *)
(* back.                                                                    *)
NothingCheckedAnew(r) ==
    IF r.phase # "DO_NOTHING" THEN r
    ELSE IF r.healthy THEN [r EXCEPT !.secondsDoingNothing = 0]
    ELSE LET n == Counted(r.secondsDoingNothing, TRUE, NothingLimit)
         IN  [r EXCEPT !.secondsDoingNothing = n,
                       !.phase = IF n = NothingLimit THEN "ABORT" ELSE @]

NothingChecked(r) ==
    IF r.phase # "DO_NOTHING" THEN r
    ELSE LET n == Counted(r.secondsDoingNothing, TRUE, NothingLimit)
         IN  [r EXCEPT !.secondsDoingNothing = n,
                       !.phase = IF n = NothingLimit THEN "ABORT" ELSE @]

(* The checks made once a second.                                           *)
SlowChecked(r, in) ==
    NothingChecked(AltitudeChecked(SatsChecked(FlightChecked(r, in), in), in))

(* The pass that starts a rescue also starts its second. *)
SanityChecked(r, in) ==
    IF r.phase = "IDLE" THEN [r EXCEPT !.failure = "HEALTHY"]
    ELSE LET s == GpsChecked(CrashChecked(
                      FailureHandled(CountersReset(r), in), in))
         IN  IF checkDue /\ ~Starts THEN SlowChecked(s, in) ELSE s

-----------------------------------------------------------------------------
(* gpsRescueUpdate *)

Started(r, in) ==
    IF ~RescueMode THEN [r EXCEPT !.phase = "IDLE"]
    ELSE IF Starts THEN SanityChecked([r EXCEPT !.phase = "INITIALIZE"], in)
    ELSE r

(* The acceleration is measured in the landing only. *)
Sensed(r, in) ==
    [r EXCEPT !.healthy = in.healthy,
              !.impact = IF r.phase = "LANDING" THEN in.hit ELSE @]

Initialized(r, in) ==
    IF in.home = "NONE" THEN [r EXCEPT !.failure = "NO_HOME_POINT"]
    ELSE IF in.home = "HERE" THEN [r EXCEPT !.phase = "ABORT"]
    ELSE [r EXCEPT !.phase = "ATTAIN_ALT", !.secondsFailing = 0]

DisarmOnImpact(r) == IF r.impact THEN Disarmed(r) ELSE r

(* The climb, the turn, the flight and the descent, each up to its goal;    *)
(* all but the first leave the sanity timer reset.                          *)
Flown(r, in) ==
    IF ~in.reached THEN r
    ELSE [r EXCEPT !.phase = PhaseAfter[r.phase],
                   !.secondsFailing = IF r.phase = "ATTAIN_ALT" THEN @ ELSE 0]

Moved(r, in) ==
    CASE r.phase = "IDLE" -> r
      [] r.phase = "INITIALIZE" -> Initialized(r, in)
      [] r.phase \in DOMAIN PhaseAfter -> Flown(r, in)
      [] r.phase \in {"LANDING", "DO_NOTHING"} -> DisarmOnImpact(r)
      [] r.phase = "ABORT" -> [Disarmed(r) EXCEPT !.secondsFailing = 0]

(* A craft that is stuck makes no progress; it may still turn. *)
Possible(in) ==
    stuck => ~in.progress /\ (in.reached => rescueState.phase = "ROTATE")

NotCloser(in) ==
    checkDue /\ ~in.progress
        /\ rescueState.phase = "FLY_HOME" /\ rescueState'.phase = "FLY_HOME"

gpsRescueUpdate(in) ==
    /\ Possible(in)
    /\ LET moved == Moved(Sensed(Started(rescueState, in), in), in)
           checked == SanityChecked(moved, in)
       IN  /\ rescueState' = [checked EXCEPT !.disarms = FALSE]
           /\ checkDue' = (checkDue /\ ~Starts /\ moved.phase = "IDLE")
           /\ armed' = (armed /\ ~checked.disarms)
           /\ armingDisableFlags' =
                 armingDisableFlags \cup
                    (IF checked.disarms THEN {"ARM_SWITCH"} ELSE {})
    /\ failing' =
          IF Starts \/ rescueState'.phase = "IDLE" THEN 0
          ELSE IF rescueState.failure # "HEALTHY" /\ checkDue THEN failing + 1
          ELSE failing
    /\ away' =
          IF NotCloser(in) THEN away + 1
          ELSE IF rescueState'.phase = "FLY_HOME" /\ ~checkDue THEN away
          ELSE 0
    /\ taskRan' = TRUE
    /\ UNCHANGED <<flightModeFlags, rcModes, stuck>>

-----------------------------------------------------------------------------
(* The rest of the firmware, the pilot and the craft. *)

(* processRxModes: the rescue is chosen by its box or by the failsafe.      *)
SelectRescue ==
    /\ flightModeFlags' \in SUBSET {"GPS_RESCUE_MODE"}
    /\ flightModeFlags' # {} => armed
    /\ UNCHANGED <<armed, armingDisableFlags, rcModes, rescueVars>>

(* tryArm; the modes of the frame that disarmed were selected before.       *)
Arm ==
    /\ ~armed /\ ~IsArmingDisabled /\ ~RescueMode
    /\ armed' = TRUE
    /\ UNCHANGED <<armingDisableFlags, flightModeFlags, rcModes, rescueVars>>

(* disarm() by anybody else *)
Disarm ==
    /\ armed
    /\ armed' = FALSE
    /\ UNCHANGED <<armingDisableFlags, flightModeFlags, rcModes, rescueVars>>

(* updateArmingStatus, when the arm switch is off. *)
ArmSwitchOff ==
    /\ ~armed
    /\ armingDisableFlags' = armingDisableFlags \ {"ARM_SWITCH"}
    /\ UNCHANGED <<armed, flightModeFlags, rcModes, rescueVars>>

CraftMoves ==
    /\ stuck' = ~stuck
    /\ UNCHANGED <<runtimeVars, rescueState, checkDue, taskRan, failing, away>>

(* The task runs a hundred times a second. *)
SecondOver ==
    /\ taskRan
    /\ taskRan' = FALSE
    /\ checkDue' = TRUE
    /\ UNCHANGED <<runtimeVars, rescueState, stuck, failing, away>>

RescueSystemInit ==
    /\ armed = FALSE
    /\ armingDisableFlags = {}
    /\ flightModeFlags = {}
    /\ rcModes = {}
    /\ RescueInit
    /\ stuck = FALSE
    /\ checkDue = FALSE
    /\ taskRan = FALSE
    /\ failing = 0
    /\ away = 0

RescuePass == \E in \in Readings : gpsRescueUpdate(in)

RescueNext ==
    \/ RescuePass
    \/ SelectRescue
    \/ Arm
    \/ Disarm
    \/ ArmSwitchOff
    \/ CraftMoves
    \/ SecondOver

rescueSystemVars == <<runtimeVars, rescueVars>>

(* Time passes, and the task, which no other action can disable, runs in    *)
(* every second.                                                            *)
RescueSpec ==
    RescueSystemInit /\ [][RescueNext]_rescueSystemVars
        /\ WF_rescueSystemVars(SecondOver) /\ []<>taskRan

RescueTypeOK ==
    /\ RuntimeTypeOK
    /\ rescueState \in RescueStates
    /\ stuck \in BOOLEAN /\ checkDue \in BOOLEAN /\ taskRan \in BOOLEAN
    /\ failing \in Nat /\ away \in Nat

-----------------------------------------------------------------------------
(* Properties. *)

(* "Limit on doing nothing": whatever failed, whatever comes back and       *)
(* whatever the sanity setting says, a failed rescue is over within 20      *)
(* seconds, by a disarm or by the pilot.                                    *)
FailureEndsInTime == failing <= NothingLimit

(* A rescue that has failed does not fly home, descend or land any more:    *)
(* only a new one does.                                                     *)
FailedRescueStaysFailed ==
    [][rescueState.failure # "HEALTHY" /\ rescueState' # rescueState =>
          rescueState'.phase \in {"DO_NOTHING", "ABORT", "IDLE"}]_rescueSystemVars

(* "checks that we are getting closer to home": a craft that for 15 seconds *)
(* never comes closer is taken for a flyaway, after one more try without    *)
(* the magnetometer.                                                        *)
FlyawayIsNoticed ==
    away >= FlyawayLimit + (IF UseMag THEN FlyawayLimit ELSE 0) =>
        rescueState.failure # "HEALTHY"

(* "to handle getting stuck in a climb or descend": a rescue that makes no  *)
(* progress does not keep the motors running for ever, in any phase but the *)
(* turn towards home, which has no timer.                                   *)
StuckRescueEnds ==
    RescueMode /\ stuck /\ armed ~>
        ~RescueMode \/ ~stuck \/ ~armed \/ rescueState.phase = "ROTATE"

=============================================================================
