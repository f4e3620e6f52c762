# Formal models of the Indiflight flight core and its log

TLA+ modules, TLC configurations and TLAPS proofs about three parts of Indiflight
(a Betaflight 4.4 fork, `src/src/main`):

- what decides whether the motors may turn: the RC link, the failsafe, arming and
  disarming, the switch boxes, the throw detector, the catapult and the learner's
  motor queries, and the GPS rescue;
- the scheduler that interleaves all of it;
- what records the flight: the blackbox and the flash file system.

Paths below are relative to `src/src/main`.

## The system

The firmware is one cooperative loop. `scheduler/scheduler.c` runs the
gyro/filter/PID tasks on the gyro's clock, polls the receiver (`rxFrameCheck`),
runs the failsafe every 10 ms, and picks one other task by priority. No task is
interrupted by another, so a C function runs to its end; tasks that are split
into states (the RX task, the blackbox) give the others the processor between the
states. Interrupts do run in between; the one that matters here is the completion
of a transfer to the flash chip, which moves the tail of the log's ring. All
components talk through globals.

| component | state | operations | interacts through |
|---|---|---|---|
| RC channels `rx/rx.c` | `rcRaw`, `rcData`, per-channel hold timers, `rxSignalReceived` | frame check, frame review, signal-loss behaviour, suspend/resume | reports valid/failed data to the failsafe; reads `failsafeIsActive` and BOXFAILSAFE |
| failsafe `flight/failsafe.c` | phase, active, link state, stamps and deadlines | two reports, 10 ms check and update, reset, suspend/resume | disarms, sets arming inhibitions and flight modes |
| arming `fc/core.c`, `fc/rc_controls.c` | ARMED, `armingDisableFlags`, disarm ticks, last RX state | updateArmingStatus, tryArm, disarm, stick and switch processing, runaway take-off | reads boxes, link, throw state |
| switch boxes `fc/rc_modes.c` | active box mask, sticky boxes | updateActivatedModes | reads `rcData` |
| throw `flight/throw.c` | throw state, momentum, release time | updateThrowFallStateMachine (accelerometer task) | waives arming inhibitions |
| RX task `fc/tasks.c` | `rxState` | CHECK, MODES, UPDATE | calls all of the above |
| configuration `config/config.c` | parameter groups in flash | read, write, reset | suspends the RX signal, resets the failsafe |
| catapult `flight/catapult.c` | launch state, launch and cut-off stamps | runCatapultStateMachine in every PID pass | waits for ARMED; inhibits arming in its mode until it waits |
| learner query `flight/learner.c` | query state, one state and stamp per motor, safety timeout, INDI profile | runLearningQueryStateMachine, after the catapult in the same pass | starts when the catapult is DONE or after a throw; changes the profile the catapult looks at |
| GPS rescue `flight/gps_rescue.c` | rescue phase, failure, three counters of seconds, `magForceDisable` | gpsRescueUpdate with performSanityChecks (100 Hz task) | started by its box or by the failsafe; disarms and sets ARM_SWITCH |
| scheduler `scheduler/scheduler.c` | queue, age, estimate and priority of each task, guard, schedule count | scheduler(), schedulerExecuteTask | calls every task |
| blackbox `blackbox/blackbox.c`, `blackbox_io.c` | state of the log, header index and budget, cache flush target | blackboxUpdate in the PID pass, start, finish, erase | started by arming, a throw awaited or a motor test; reads the ring's free space; MSP erases |
| flash file system `io/flashfs.c` | ring (head, tail, `dataWritten`), `tailAddress`, erase state | write byte, flush async and sync, erase of the chip or by sectors, read, search for free space | `drivers/flash.c` |
| flash chip `drivers/flash.c`, `flash_m25p16.c` | page program that is fed, callback, write in progress | begin, continue and finish a page program, erase, wait for ready | completion interrupt calls flashfsWriteCallback |
| trajectory tracker, external position | state machines over numeric estimates | update, start, stop | setpoints, freshness |
| position, INDI, PID, EKF, NN, mixer | filters and control laws | per loop | numeric |
| asyncfatfs | file system on an SD card | read, write, seek, allocate | blackbox |
| MSP, CLI, keyboard | command parsers | many | everything |
| DSHOT commands, drivers, OSD, beeper, LEDs | queues, buffers | output | - |

What is hard to test here: the order of the failsafe and the three RX states;
stale copies (`armed` in the failsafe loop, boxes one frame old, held
channels); timers renewed at different places; inhibitions set by one component
and lifted by another; a configuration save in the middle of a failsafe; counters
of seconds that several phases share; an interrupt between any two bytes; a power
failure at any byte; estimates of running times that are one pass old; and
everything that must happen in the end (the loop returns, the craft is disarmed,
the failsafe ends, the header gets out, the erase ends, the lowest task runs).
`PROJECT.json` lists each under "hazards" with its line.

What makes each component correct:

- failsafe: an armed craft that hears nothing is disarmed in bounded time; a
  craft it disarmed is not armed before the failsafe is over; a failsafe ends
  when the link is back; its loop returns.
- RC channels: valid data is reported only when the packet is good and the
  failsafe switch is off; switches are held when data is not valid.
- arming: no arming while anything inhibits it; an automatic disarm locks until
  the switch goes off; the pilot can always disarm with a good link.
- throw: with its switch on nothing but a throw arms.
- boxes: BOXPARALYZE is for ever.
- catapult and learner: no launch of a craft that flies already, none longer than
  the limit; one query per launch, whichever launch the settings name, done in its
  time; never both at once; both
  end.
- GPS rescue: a failed rescue is over in bounded time and never resumes; a craft
  that does not come closer is noticed; one that is stuck does not keep its motors
  running.
- scheduler: its own checks and estimates never make the gyro task late; every
  task that is due runs in the end.
- flash file system: the log is in the flash byte for byte in order; no byte is
  programmed over another; a restart finds the free space; an erase ends.
- blackbox: the header never overflows the ring, is stored whole before the first
  frame, and gets out.

## Modules

| module | models | extends |
|---|---|---|
| `RuntimeConfig` | the shared flags, as sets | - |
| `Failsafe` | `failsafe.c`, whole | RuntimeConfig |
| `LinkHistory` | what is recorded of a flight: silence, reloads in stage 2 | Failsafe |
| `FailsafeSystem` | `failsafe.c` in the most general environment the rest of the firmware allows | LinkHistory |
| `LinkLossPromise` | abstract specification of the failsafe: normal, emergency, lockout | - |
| `FailsafeLemmas` | what `failsafe.c` keeps whoever calls it: lemmas for both proof modules | LinkHistory, TLAPS |
| `FailsafeProofs` | theorems about FailsafeSystem | FailsafeSystem, FailsafeLemmas |
| `RxLink` | the frame review of `rx.c` | Failsafe |
| `Throw` | `throw.c` | RuntimeConfig |
| `Arming` | arming, disarming and the boxes | RxLink, Throw |
| `FlightCore` | the tasks interleaved; the composition of all of the above | Arming |
| `FlightLock` | FlightCore with a record of the arm switch held since a disarm | FlightCore |
| `FlightHistory` | FlightLock with that record; the refinement of FailsafeSystem | FlightLock, LinkHistory |
| `FlightPilot` | FlightCore with a record of the arm switch as the pilot sent it | FlightCore |
| `FlightProofs` | theorems about the composition | FlightHistory, FailsafeLemmas |
| `Catapult` | `runCatapultStateMachine` | RuntimeConfig |
| `Learner` | `runLearningQueryStateMachine` | Catapult, Throw |
| `LaunchSystem` | both in one pass of the PID loop, in the most general environment: armed, disarmed and switched at any moment | Learner |
| `LaunchProofs` | theorems about LaunchSystem | LaunchSystem, TLAPS |
| `GpsRescue` | `gpsRescueUpdate` and `performSanityChecks`, closed with the pilot, the craft and time | RuntimeConfig |
| `GpsRescueProofs` | theorems about GpsRescue | GpsRescue, TLAPS |
| `Scheduler` | `scheduler()` | - |
| `MCScheduler` | three tasks for TLC | Scheduler |
| `SchedulerProofs` | theorems about Scheduler | Scheduler, TLAPS |
| `FlashFs` | `flashfs.c` and the chip | - |
| `Blackbox` | the states of a log | FlashFs |
| `LogSystem` | both, with the interrupt, the configurator and power failures | Blackbox |
| `LogProofs` | type correctness of LogSystem; the header never overflows the ring | LogSystem, TLAPS |
| `LogOrderProofs` | order, garbling, restart and the whole header before the first frame, on a chip erased as a whole | LogProofs |

### State and actions

Variables have the names of the code. Flags are sets (`armingDisableFlags`,
`flightModeFlags`, `rcModes`). A stamp compared with `millis()` is an age, a
deadline is the time left (-1 when past), and `Tick` lets one unit pass; the tick
requires that the RX task and the failsafe each ran since the last, which is far
slower than they do, and then they may run any number of times. The do-while loop
of `failsafeUpdateState` is one action per iteration; `reprocessState` is its
condition and, because the loop does not yield, no other action is enabled while
it holds. The three states of `taskUpdateRxMain` are `RxCheck...`, `RxModes` and
`RxUpdate`; between them the failsafe, the PID loop and the accelerometer task may
run. `rxFrameCheck` is merged into `RxCheck`: it returns early while MODES or
UPDATE is pending, so nothing is lost. In LaunchSystem a stamp of the code is its
age too, negative while it lies ahead; the tick requires a pass of the PID loop
since the last, so one tick is the longest time between two passes. The cases that
a `goto doMore` runs in the same pass are one action (`CatapultFiring`,
`DriveMotors`).

GPS rescue. A pass of the task is one step: the operators `Started`, `Sensed`,
`Moved` and `SanityChecked` take the record `rescueState` from one call to the
next in the order of `gpsRescueUpdate`. What the flight looks like is a reading:
the goal of the phase reached, progress made since the last slow check, a GPS that
is healthy, a home point, satellites, a hit, a crash, a signal. `SecondOver` makes
the slow check due; it requires that the task ran since the last. `stuck` is the
craft's: while it holds there is neither progress nor a goal but the turn.

Scheduler. A call of `scheduler()` is one step: the gyro pass (`GyroPass`), a pass
too near to the end of the period to do anything (`IdlePass`), or a pass that makes
the checks and runs, skips or finds no task (`TaskPass`). `left` is the time to the
next gyro pass, `age` counts gyro periods. A task takes any of `ExecTimes`; the
estimate of a task that is no state machine decays by nothing or by one, which
stands for the fractions of the code; the guard likewise. `Expedited` is the
scaling by TASK_AGE_EXPEDITE_SCALE as `ExpediteTenths`, rounded down as the code
does. `StartLoops` says how near to the end of the period the scheduler begins to
poll; the code adjusts it.

Logging. A byte is its number in the stream since the file pointer was last set, so
that order and completeness can be stated. A pass of `blackboxUpdate` is several
steps (`pc`, `toWrite`): the case of the state, each byte, the flush at the end; so
are `flashfsFlushSync`, which waits, and the search after a start. Between any two
of them `DmaByte` feeds the chip one byte, `TransferDone` is the interrupt that
moves `tailAddress` and `bufferTail`, and `ChipReady` ends what the chip does.
`ReplenishTorn` is the reading of the free space whose two reads of `bufferTail`
have the interrupt between them. A power cycle may come at any of these steps: what
was transferred is in the flash, the rest is not. A byte programmed twice is
`Garbled`, one of before the restart, or a zero of the RAM that start-up cleared,
`Old`. The frames of the log are a number of bytes out of `FrameLens`, the lines and
fields of the header have one length each.
Bytes of a log are never taken for erased ones, which the search of the code
assumes too (`io/flashfs.c:563`). `DelayOver` ends the 100 ms before a header and the
200 ms of a shutdown; it comes between transfers, which take microseconds. For the same
reason the configurator asks only between transfers unless `MidTransfer` is TRUE:
the hazard is real, has a run of its own (`erase_during_transfer`) and violates a
promise of the code, so the other runs leave it out. The proofs do not: all
cover an erase asked for during a transfer, and `HeaderNeverOverflow`,
`NothingIsGarbled` and `RestartIsRight` a read as well. `LogInOrder` and
`HeadersAreComplete` fail with such a read, and their theorems exclude it.

### Data and settings

The throttle stands for the four flight channels ("bad" is a pulse outside the
valid range), the aux channels for the set of boxes they select; on a timeout the
receiver may present any values. THROTTLE stands for all arming conditions that
updateArmingStatus evaluates afresh. Sticks, crash detector, motor readiness, the
DSHOT beacon, IMU readings and the other conditions of the throw detector are
inputs that may be anything at any time.

Settings. Arming by a switch, no 3D feature, no PREARM, one range per box,
default RX failsafe modes (throttle auto, aux hold), serial receiver (no sample
skipping). The three delays after power-on (`powerOnArmingGraceTime`,
`FAILSAFE_POWER_ON_DELAY_US`, `STICKY_MODE_BOOT_DELAY_US`) are all 5 s and are
one variable; the first can be set to other values, which is not modelled.

The learner's estimators are not modelled; whether the user wants the learned
profile applied is a free choice. The gyro overrun of a motor is an input. The
guidance of the catapult (position mode, external position, setpoint) may come and
go in every pass, and its fire time is any of a set. `learnerConfig()->mode` is a bit
field of 0 to 7 (`cli/settings.c:1352`); `LearnModes` has its four values as far as
the query looks at it (never, after the catapult, after a throw, after either), the
bit LEARN_DURING_FLIGHT being the estimators'. The settings do not change while the
system runs. Where no query follows a throw, nothing in LaunchSystem looks at
`throwState`, and it stays IDLE. Learner settings for which the safety
timeout would be negative (an overlap longer than a whole motor query) are excluded
by `LearnerAssumption`, and so is `numAct` = 0, which switches the query off.

History variables, read by no guard: `silence` (time since valid data) and
`reloadedInStage2` in LinkHistory, `heldSinceDisarm` in
FlightLock, `switchOff` (the last frame had the arm switch off) in FlightPilot,
`learnedSince` and `inFlight` in LaunchSystem; `failing` (seconds since the failure)
and `away` (seconds without coming closer) in GpsRescue; `sent`, `first` and
`tracked` (the numbers of the last byte and of the first of the log, and whether
the ring has not overflowed since) in Blackbox; `ran` and `overdue` in Scheduler.
`MaxSent` bounds the bytes of a log: beyond it no frame is begun.

## Runs

| run | module | question | result |
|---|---|---|---|
| failsafe | FailsafeSystem | all procedures and switch modes: safety, refinement of LinkLossPromise, the loop returns, a failsafe ends | holds |
| flight_core | FlightLock | arm switch, BOXPARALYZE and a landing: automatic disarms lock; a paralyzed craft stays disarmed | holds |
| flight_core_switch | FlightHistory | arm and failsafe switch, DROP_IT: the composition implements FailsafeSystem; automatic disarms lock | holds |
| flight_core_throw | FlightCore | only a throw arms while the throw switch is on; the promise of the failsafe with a throw | holds |
| disarm_switch | FlightPilot | the arm switch disarms in the end (AUTO_LANDING, DROP_IT) | holds |
| launch | LaunchSystem | window of a launch, time and number of the queries, launch and query apart, both end | holds |
| gps_rescue | GpsRescue | a failure ends in time and stays, a flyaway is noticed, a stuck rescue ends | holds |
| scheduler | MCScheduler | the gyro task is on time; no task starves | holds |
| log | LogSystem | whole chip: order, header budget, garbling, header complete, restart, header gets out | holds |
| log_partition | LogSystem | erase by sectors: header budget; the erase ends | holds |
| active_only_in_stage2 | FailsafeSystem | statement of a comment | violated |
| erase_during_transfer | LogSystem | HeaderGetsOut, with an erase asked for while a page is programmed | violated |

Because the composition implements FailsafeSystem (`ImplementsFailsafeSystem`,
for crafts without a throw switch), what is shown of FailsafeSystem holds of the
composition. The refinement is checked with DROP_IT and a failsafe switch: the
procedures differ in `failsafe.c` only, which both levels share, so what has to be
shown is that rx.c, core.c and the tasks report, arm and disarm only as
FailsafeSystem allows, and the failsafe switch is what makes these reports
intricate. A throw waives BST, which FailsafeSystem does not allow; what a throw must
not do is to waive FAILSAFE too, and its run checks `ImplementsPromise` of the
composition directly.

`AutomaticDisarmLocks` does not hold of every setting. A failsafe switch that begins a
procedure sets the recovery period to zero, so the failsafe may lift its inhibition
right after the first good review; when it runs once between updateArmingStatus
and that review and once after, no updateArmingStatus falls between, ARM_SWITCH
is not set yet and the craft arms again with the switch held on. TLC finds this for
AUTO_LANDING begun by a switch set to STAGE1 or STAGE2, and for DROP_IT with STAGE1
when the configuration is saved right after the disarm; with DROP_IT and STAGE2 the
lock is passed over when BOXPARALYZE is on, which keeps the craft disarmed by itself.
For every other combination of procedure and switch mode it is proved
(`AutomaticDisarmHolds`). No comment says that the craft may not arm there.

`StuckRescueEnds` leaves out ROTATE, which has no timer: the turn towards home
ends only when the heading is right (see "Behaviours the models show").
Both it and `FlyawayIsNoticed` take progress as the code measures it, which assumes of
the environment that a craft that is stuck is seen as such: with
`gps_rescue_ground_speed` = 0 the flight home counts any speed towards home, zero
included, as progress.
`EraseEnds` leaves out an erase that is begun, or a flight that is ended, again and
again: the test of the ERASE box and the start of the next log come back to it.
`NothingGarbled`, `LogInOrder` and `HeadersAreComplete` are checked and proved for
the chip that is erased as a whole; with a partition erased by sectors a log may be
begun before the erase is over, which programs pages the erase has not reached.
`LogInOrder` and `HeadersAreComplete` need, besides, that the configurator does not
read while a transfer runs: `flashfsFlushSync` then stores the same bytes twice.

### Bounds

The failsafe run has a stage 1 of 2, a recovery period of 1, a landing time and
throttle delay of 1, so that each deadline has a "before", "at" and "past" and
stage 1 is longer than the recovery period; ages saturate at `AgeMax` = 3, one more
than every period they are compared with. The runs of the composition have periods
of 1, delays of 0 and AgeMax 2, with one procedure each, because the interleavings
and not the durations are their subject: the procedures and the durations are the
failsafe run's. `DisarmTicksMax` = 4 is where the code compares; `SilenceMax` is
beyond the bound `SilentCraftIsDisarmed` states. `HoldPeriod` is 1 in flight_core
(a lost channel is held before it is given up) and 0 in flight_core_switch (given
up at once).

The launch run has two motors, each with a step and a ramp of one tick; the
countdown and the query limit are equal (6), as in the code; the safety limit is 4,
the fire times 1 (a launch that ends by itself) and 4 (one that is cut); a query
follows no launch, the catapult's, a throw or either; the query
delays 0 (the query fits its limit) and 6 (it is cut). The grace is 3 ticks, one per
motor and one for the start: for the 10 ms and the four motors of the code this is a
PID pass at least every 2 ms. 1 140 000 states, about three minutes.

The rescue run has limits of 4, 3, 2 and 4 seconds for 15, 10, 10 and 20: each is
reached, in the order of the code (stuck before flyaway), with the one further try
without the magnetometer. FS_ONLY is the setting that treats a failure in both ways,
by whether the link is lost; 80 000 states.

The scheduler run has an event driven task, the serial task whose run is longer than
a gyro period (11 against 6, so that periods are skipped) and a task of the lowest
priority with two lengths; the schedule count is modulo 4, the scale 0.5 so that an
estimate shrinks within a few periods. Ages are counted to 8, several times every
desired period; 176 000 states.

The log run has a ring of 4 (3 usable), pages, sectors and free blocks of 3 and a
flash of 9 bytes, so that the ring wraps, a transfer is cut at a page in its first or its
second part, and a restart may find any of four places; the header is 5 bytes long, more
than the ring; a frame is as long as what the ring holds. `MaxSent` is 9, the whole
flash; 380 000 states, about two minutes. The run of the partition has two sectors
of 2 bytes, with a log begun and ended during the erase; 400 000 states.

The proofs have no bounds.

### Fairness

The scheduler starves nothing for ever: that is what `NoTaskStarves` shows of task
ageing. So the tick, the failsafe and the RX task in each of its states are strongly
fair, because the loop and other tasks disable them again and again; the iterations
of the loop are plain code, weakly fair. Writing the configuration, PID loop, pilot
and radio have none. In LaunchSystem the tick and the first PID pass after it are
weakly fair: the
scheduler runs the PID loop on the gyro's clock before anything else. In GpsRescue
seconds pass and the task runs in every second; nothing else is fair. In Scheduler
the two assumptions say that calls which consider every task (schedule count 0) and
have time left come again and again, and that the count moves on: the times the
passes take have no common measure with the gyro period, so the passes of count 0 do
not fall on the end of a period for ever. In LogSystem the interrupt, the waits and
the search are weakly fair, because nothing else disables them for ever; `TaskMain`,
the pass of `blackboxUpdate` and `DelayOver` are strongly fair, because a transfer or
another handler in progress disables them again and again. The configurator, the
pilot and power failures have none.

## What the runs and proofs show

### Proved

All of it by TLAPS, for every value of the constants the named assumptions allow.

Failsafe (`PeriodsAssumption`, `SettingsAssumption`): type correctness; that the
lockout keeps the craft disarmed; that the phase settles; that the stale copy of
ARMED is never read; and that FailsafeSystem implements LinkLossPromise. The argument
is one inductive invariant, `SafetyInv`, whose parts `SafetyParts` say how inside the
loop the flags, `active`, the copies and the phase fit one another in the way each
case leaves them; SettledPhase alone is not inductive, since it says nothing of
the states inside the loop. `SilenceDisarms` bounds the silence an armed craft may
fly in (`SilentCraftIsDisarmed`): it relates the time since valid data to the age of
that data, to whether the monitoring heard the link in this very tick (a recovery
begun on data that is now old restarts the count), to the time left to land, and to
whether the failsafe ran since the last tick; the bounds (`SilenceInv`) are a tick
shorter once it ran, which is what lets a tick pass. `LoopIsShort` gives the do-while
loop a variant, `LoopRank`: every iteration lowers it or ends the loop, and it is at
most seven. That is the safety half of `LoopTerminates`, with the number of iterations.

The lemmas of `FailsafeLemmas` speak of `failsafe.c` alone: what an iteration, a
report, a check, a reset keeps of types, `SafetyParts`, the promise and `SilenceInv`,
and what any other step keeps that arms only when nothing inhibits it and lifts no
FAILSAFE (`HonoursLock`). They serve FailsafeSystem and the composition alike.

Flight (the same assumptions):

- `FlightTypeCorrect`: type correctness of FlightHistory.
- `LockoutHoldsEndToEnd`, `PhaseSettlesEndToEnd`, `StaleArmedIsHarmlessEndToEnd`,
  `LoopIsShortEndToEnd`, `CoreKeepsPromise`: what is shown of FailsafeSystem holds of
  the composition, for every set of aux ranges, the throw switch included. They do not
  go through the refinement, which a throw breaks: `CoreSafe` (types and
  `SafetyParts`) is inductive for CoreSpec, because every step of rx.c, core.c and the
  tasks honours the lock, a throw in particular (`DoNotTolerateDuringThrow`).
- `SilenceDisarmsEndToEnd`: the bound on silence, with the real receiver and the real
  arming code, for every set of aux ranges but a throw switch: with one the craft may
  be armed before the delay after power-on is over, and the monitoring is not on yet.
- `AutomaticDisarmHolds`: LockSpec keeps `AutomaticDisarmLocks` without a throw switch,
  and with a failsafe switch for every procedure and switch mode it does not fail for
  (`SwitchNeverLands`, and no BOXPARALYZE beside a switch that drops the craft); see
  above for the others. `LockInv` says that the FAILSAFE inhibition
  holds the lock until ARM_SWITCH takes over (`HeldOK`, `Locked`): after a loss of the
  link it is lifted only after a recovery period, which takes two ticks, and a whole
  round of the RX task fits between them (`LockLasts`); when the switch began the
  procedure, the phase cannot leave the monitoring while the switch is on
  (`SwitchForcesStage2`), the recovery period is whole whenever the switch did not
  begin one (`RecoveryIsWhole`), and the copies the loop works with agree with the
  flags (`LoopAgrees`). `HeldCraftStaysDisarmed` is what remains with BOXPARALYZE on:
  such a craft stays disarmed, by the lock or paralyzed.
- `ParalysisIsForGood` and `OnlyAThrowArms`: `ParalyzedForGood` and
  `ThrowSwitchNeedsThrow`, with every set of aux ranges; both by the steps alone.
- `CompositionImplements`: FlightSpec implements FailsafeSystem
  (`ImplementsFailsafeSystem`) when no aux range has a throw switch. Each of the
  actions of rx.c, core.c and the tasks is mapped to a report, an arming, a disarm, a
  reload or a stutter of FailsafeSystem; the invariant `MapInv` it needs says that
  before the delay after power-on is over the craft is disarmed and BOOT_GRACE_TIME
  is set, and that the RX state MODES follows a review.

Launch (`CatapultAssumption`, `LearnerAssumption`): type correctness of LaunchSystem;
`LaunchWindow`; `FlyingCraftIsNotLaunched`; and, with `LaunchAssumption`,
`LaunchAndQueryApart`. The last needs more: `ApartInv` adds that a query running
during a countdown began before it, so its stamps are not older than the countdown's
(`QueryIsOlder`), and that a countdown never gets past its end without a pass
(`CountdownBound`); when the countdown is over, the query's timeout is over in the
same pass. `LaunchWindow` alone is not inductive, because it says nothing between a
tick and the next pass; `WindowInv` does. `LaunchAssumption` says of the constants
what the code fixes (the countdown and the query limit are one second) and what the
range of the query delay allows (0 to 1000 ms, `cli/settings.c:1354`).
`LaunchGivesOneQuery` proves `OneQueryPerLaunch` for every value of `mode`: each query
follows a launch no query followed yet, and the one exception, a disarmed craft whose
query may follow either launch, is part of the property (see "Behaviours the models
show"). `OnceInv` says that a catapult that counts down or fires has a query to come
(the history variable `unlearned`), and that a learner that waits for a launch waits
behind none that is over; a learner in IDLE does so too, unless a query may follow
either launch: then it may have gone to IDLE for the one while the other is over. It
leaves IDLE only in a disarmed craft (`enableConditions`). `QueryKeepsItsTime`
proves `QueryFitsItsTime` when the grace exceeds the number of motors and no overlap
is longer than a motor's time. In `TimeInv` the motors up to `last` have started, in
this order; `last` is at most one tick late; and what is left of the timeout is
enough for the motors to come, each with a tick of lateness (`Ahead`): every motor
that starts late uses up one tick of the grace, and the last one ends late too.

GPS rescue (`RescueAssumption`): type correctness, `FailureEndsInTime`,
`FlyawayIsNoticed`, `FailedRescueStaysFailed`, for every limit and every sanity
setting. The invariant is `RescueInv`: `RescueTypeOK`, `FailingOK` (in
DO_NOTHING the seconds since the failure are at most those the counter of doing
nothing holds, outside it and ABORT both are zero) and `AwayOK` (the seconds without
coming closer are at most those the counter of the flight holds, plus a whole limit
once the magnetometer is off). FailureEndsInTime is not inductive: it
does not say which counter keeps `failing` in its bound.

Scheduler (`SchedulerAssumption`): type correctness for every queue; and `GyroOnTime`,
that SchedulerSpec implies `GyroIsOnTime` when `MarginsSuffice`: the checks fit their
guard margin, the gyro tasks their period, and the polling begins more than one pass
before the end. The type invariant is inductive and enough; the work is in the
arithmetic of the skipped periods (`WithinRemaining`) and in that the selected task
is a candidate at all (`SelectedIsCandidate`, by a greatest priority and a least
position).

Logging (`FlashAssumption`, `BlackboxAssumption`, `LogAssumption`):

- `LogTypeCorrect`: no index leaves the ring, no transfer leaves the flash.
- `HeaderNeverOverflow`, for the whole chip and for a partition, whatever the
  configurator asks for and when. `HeaderInv` says that while flashfsFlushSync waits
  nothing is left to write (`SyncOK`), that otherwise no transfer is longer than what
  is buffered once a header is begun (`TransferOK`), that the budget and the bytes still to
  write fit into the free space (`RoomOK`), and what has been written of the header
  when (`BegunOK`). The property alone does not mention the budget. The torn reading is
  part of it: it only ever yields less than what is free. So is a read in the middle
  of a transfer, after which the tail may run past the head: that happens only while
  flashfsFlushSync waits, when nothing is left to write.
- `NothingIsGarbled` and `RestartIsRight`, for the chip erased as a whole
  (`WholeChip`), again whatever is asked for and when. `FlashInv` says that the flash
  is written up to the tail and what the transfer has programmed (`Limit`), erased
  from there on, that the transfer programs at that place and within a page, that no
  byte of the ring looks erased, and how far the search of a restart has narrowed the
  place down. It says nothing of which bytes a transfer takes: a read in the middle
  of one stores bytes twice, but never one over another.
- `LogStaysInOrder`, for the chip erased as a whole and no read asked for while a
  transfer runs (`NoReadMidTransfer`). `LogInv` adds to the above that the region a
  synchronous flush has taken is still the ring's, that no transfer takes more than
  the ring holds, and that it reads from the tail on (`TransferInv`); and that what
  the transfer has programmed is what the ring still holds (`OrderInv`).
- `HeaderComesFirst` (same conditions): `Behind` counts the bytes of the header that
  are written, `sent + toWrite + 1 = first + HeaderPlace`, so that at the end of
  CACHE_FLUSH, with the ring empty, all of them are in the flash.

### Only model-checked

All liveness, which TLAPS does not prove: LoopTerminates (of which `LoopIsShort` gives
the bound), FailsafeEndsWhenLinkIsBack, DisarmSwitchWorks, LaunchEnds, HeaderGetsOut,
EraseEnds, StuckRescueEnds, NoTaskStarves. Every other property of a passing run is
stated by a theorem.

### Statements the code does not keep

Each has its run and the quoted line in `PROJECT.json`:

1. A configuration reload in stage 2 leaves `active` and the FAILSAFE inhibition
   set in the IDLE phase for good (`config/config.c:746`).
2. An erase of the chip asked for by MSP while a page is being programmed takes the
   callback away, so `dataWritten` stays FALSE until the next start-up and no later
   log gets past its header (`drivers/flash.c:423`, `msp/msp.c:3581`).

### Behaviours the models show

Contradicting a comment, without a run of their own:

- a flash write declares the link up, so the lockout can end in silence
  (`flight/failsafe.c:159`);
- the zero recovery period of a switch-induced failsafe stays in force
  (`flight/failsafe.c:336`);
- after a GPS rescue procedure the recovered arm switch stays frozen until the
  sticks move (`rx/rx.c:704`);
- a query still running when the learner mode is left selects the learned profile
  afterwards (`flight/learner.c:767`);
- in DO_NOTHING an impact is not noticed, because the acceleration is measured in
  LANDING only (`flight/gps_rescue.c:519` and `:554`).

That no comment forbids:

- a craft may arm before the first recovery period is over, depending on which
  report comes first after boot (`flight/failsafe.c:171`); a throw lifts BST and
  BOOT_GRACE_TIME for good; THROWN lasts until the accelerometer task sees the craft
  armed or three seconds pass (`flight/throw.c:192`); a held frame is counted again
  by the disarm counter;
- a query that exceeds one second is cut and applied all the same; an arming during
  WAITING_FOR_ARM launches although the guidance or the catapult mode is gone in the
  same moment; a query also counts as never touching ground (`fc/core.c:1271`);
- with `mode` 6 or 7 (after the catapult and after a throw) a disarmed craft may get a
  second query of the same launch: a query is over in DONE, the craft, armed after a
  throw, is disarmed with the catapult mode on, the next PID pass moves the catapult to
  WAITING_FOR_ARM and so the learner to IDLE (`flight/learner.c:776`), and the pass
  after that, run before the accelerometer task has left ARMED_AFTER_THROW, takes it
  for a new launch (`flight/learner.c:683`). Each of the two tests asks for either
  launcher, not for the one that launched. With one launcher, or in an armed craft, it
  cannot happen;
- the turn of a GPS rescue (ROTATE) has no timer;
- only a task that overruns by more than a gyro period makes the scheduler skip
  periods (`scheduler/scheduler.c:475`);
- `flashfsFlushSync` takes its region before it waits for the chip, so a transfer
  then running is programmed a second time, behind the first copy, and the tail moves
  on twice;
- an erase by sectors cut short by a power failure leaves erased sectors before full
  ones, and the binary search may take their beginning for the end of the log;
- `flash_erase` of the CLI and of the menu (`cli/cli.c:2560`,
  `cms/cms_menu_blackbox.c:176`) waits in a loop for an erase by sectors that only
  taskMain carries on;
- a disarm during ERASING goes to SHUTTING_DOWN and no longer waits for the erase;
  `startedLoggingInTestMode` outlives an erase (`blackboxEraseAll`);
- the name in front of a header line is not charged to the header budget
  (`blackboxPrintfHeaderLine`); the proof shows that the reserve of the budget covers
  it as long as a line is no longer than the budget of one pass;
- an I-frame longer than the ring overflows it at once, and the rest of the log is
  then in the flash from some later byte on.

Outside the models' reach, for want of wide integers: `millis()` is compared with
deadlines by `>` and wraps after 49.7 days (`flight/failsafe.c:278`); learner
settings with a negative safety timeout (`flight/learner.c:686`). And
MSP_SET_ARMING_DISABLED disarms, but the line that would inhibit arming is commented
out (`msp/msp.c:3559`).

## Plan

1. Done: Failsafe, FailsafeSystem, LinkLossPromise; RxLink, Throw, Arming,
   FlightCore, FlightLock, FlightHistory, FlightPilot; Catapult, Learner,
   LaunchSystem; GpsRescue; Scheduler; FlashFs, Blackbox, LogSystem; and their
   proofs.
2. RcModes: the AND/OR masks of several ranges and the linked modes against a
   declarative definition of what the user configured, with the mask lemma.
3. Throw with a finer clock (one throw arms once); the freshness states of external
   position; the DSHOT command queue.
4. More proofs: what holds of a partition erased by sectors.

## Not modelled

Control laws and estimators (position, INDI, PID, EKF, neural controllers, mixer) are
floating point and no discrete protocol. OSD, LEDs, beeper and displays are output
only. MSP, CLI and keyboard appear by what they do to the modelled state: disarm,
erase, read, save. Drivers and targets are hardware access; of the flash drivers the
m25p16 is modelled, not NAND (w25n01g) and QSPI chips. Of the blackbox: the serial
port, the SD card with asyncfatfs and the simulator as devices, the contents of frames
and header, and the choice of logged fields. Of the rescue: the controllers and the
targets its phases set. Of the scheduler: the mode without a gyro, the lock onto the gyro
interrupt, the statistics, and tasks enabled or rescheduled at run time. The EEPROM
format and parameter validation.

By far the most lines of the repository are vendored device headers and libraries
(`src/lib`), generated code and the hardware drivers; the modelled files are the
few thousand lines in which the decisions above are made.
