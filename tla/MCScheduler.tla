---------------------------- MODULE MCScheduler ----------------------------
(***************************************************************************)
(* Three tasks, one of each kind: RX, which waits for an event; SERIAL,     *)
(* which may take several gyro periods; and one of the lowest priority.     *)
(***************************************************************************)
EXTENDS Scheduler

MCQueue == <<"RX", "SERIAL", "BARO">>
MCStaticPriority == [RX |-> 2, SERIAL |-> 1, BARO |-> 1]
MCDesiredPeriod == [RX |-> 2, SERIAL |-> 1, BARO |-> 1]
MCExecTimes == [RX |-> {1}, SERIAL |-> {1, 11}, BARO |-> {1, 2}]
MCRelax == [RX |-> 1]

ASSUME MCMarginsAssumption == MarginsSuffice
=============================================================================
