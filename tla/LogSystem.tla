----------------------------- MODULE LogSystem -----------------------------
(***************************************************************************)
(* Blackbox and flash file system, run by the PID loop (blackboxUpdate),   *)
(* taskMain (flashfsEraseAsync), the interrupt of the flash chip and the   *)
(* configurator, with a power cycle at any moment.                         *)
(***************************************************************************)
EXTENDS Blackbox

CONSTANTS
    Requests,      \* what the configurator asks for, of {"ERASE", "READ"},
    MidTransfer,   \*   and whether it may ask while a transfer runs
    PowerFails     \* whether the power may fail

ASSUME LogAssumption ==
    /\ Requests \subseteq {"ERASE", "READ"}
    /\ MidTransfer \in BOOLEAN /\ PowerFails \in BOOLEAN

logSystemVars == <<chipVars, ringVars, dataWritten, tailAddress, eraseVars,
                   scanVars, pc, logVars, recording, toWrite, traceVars>>

LogInit == FlashFsInit /\ BlackboxInit

(* Handlers of flashfs alone, which leave the Blackbox as it is. *)
Interrupt == (DmaByte \/ TransferDone \/ ChipReady)
                 /\ UNCHANGED <<logVars, recording, toWrite, traceVars>>

TaskMain == Idle /\ flashfsEraseAsync
                /\ UNCHANGED <<logVars, recording, toWrite, traceVars>>

Asked(request) ==
    request \in Requests /\ Idle /\ (InFlight => MidTransfer)

MspRead == Asked("READ") /\ ReadAbs
                /\ UNCHANGED <<logVars, recording, toWrite, traceVars>>

SyncWait == (FlushSyncWrite \/ FlushSyncReturns)
                /\ UNCHANGED <<logVars, recording, toWrite, traceVars>>

StartUp == (SearchBlock \/ SearchEnds)
                /\ UNCHANGED <<logVars, recording, toWrite, traceVars>>

UpdatePass ==
    \/ blackboxUpdate
    \/ ReplenishHeaderBudget
    \/ ReplenishTorn
    \/ HeaderStep
    \/ WriteByte
    \/ DeviceFlush
    \/ StartErase
    \/ UpdateEnds

LogNext ==
    \/ Interrupt
    \/ TaskMain
    \/ MspRead
    \/ SyncWait
    \/ StartUp
    \/ UpdatePass
    \/ DelayOver
    \/ StartsRecording
    \/ Disarm
    \/ Asked("ERASE") /\ MspErase
    \/ PowerFails /\ PowerCycle

(* The chip finishes what it is given, time goes on, and the main loop runs *)
(* its handlers to their end and each of its tasks again and again.         *)
LogFairness ==
    /\ WF_logSystemVars(Interrupt)
    /\ SF_logSystemVars(TaskMain)
    /\ WF_logSystemVars(SyncWait)
    /\ WF_logSystemVars(StartUp)
    /\ SF_logSystemVars(UpdatePass)
    /\ SF_logSystemVars(DelayOver)

LogSpec == LogInit /\ [][LogNext]_logSystemVars /\ LogFairness

-----------------------------------------------------------------------------
(* Safety. *)

(* Byte n of the stream is in the ring or in the flash, at its place behind *)
(* the tail.                                                                *)
Buffered == Used(bufferHead, bufferTail)

InPlace(n) ==
    LET ahead == sent - Buffered - n
    IN  IF ahead < 0 THEN flashWriteBuffer[Wrap(bufferTail - ahead - 1)] = n
        ELSE tailAddress - 1 - ahead \in Addresses
                 /\ flash[tailAddress - 1 - ahead] = n

(* From the first byte of its header on, a log is in the flash byte for     *)
(* byte in the order it was written, with what is not yet there in the      *)
(* ring, as long as the ring has not overflowed: whenever the interrupt     *)
(* moves the tail, none is lost, doubled or out of place.                   *)
LogInOrder ==
    tracked => \A n \in first..sent : InPlace(n)

(* "a successful return code guarantees that no data will be lost if you    *)
(* write that many bytes": the ring does not overflow before the header is  *)
(* complete, whatever the log before it left in the ring.                   *)
HeaderNeverOverflows ==
    blackboxState \in {"SEND_FIELDS", "SEND_SYSINFO", "CACHE_FLUSH"} => tracked

(* "Wait for header buffers to drain completely before data logging         *)
(* begins": frames are logged only behind a header that is in the flash     *)
(* whole, also when the first frames overflow the ring.                     *)
HeaderTotal == HeaderLen + Fields * FieldLen + Lines * LineLen

HeaderBeforeFrames ==
    blackboxState = "CACHE_FLUSH" /\ blackboxState' = "RUNNING" =>
        \E a \in Addresses : \A i \in 0..HeaderTotal - 1 :
            a + i \in Addresses /\ flash'[a + i] = first + i

HeadersAreComplete == [][HeaderBeforeFrames]_logSystemVars

(* No byte is programmed over another one: the tail, the page boundaries,   *)
(* the erase and the search after a power cycle agree on what is free.      *)
NothingGarbled == \A a \in Addresses : flash[a] # Garbled

(* After a restart everything from the tail on is erased, and less than a   *)
(* block before it is wasted.                                               *)
FreeSpaceFound ==
    pc = "SEARCH" /\ pc' = "IDLE" =>
        /\ \A a \in Addresses : a >= tailAddress' => flash[a] = Erased
        /\ tailAddress' > 0 =>
              \E a \in Addresses :
                  a >= tailAddress' - FreeBlockSize /\ flash[a] # Erased

RestartFindsFreeSpace == [][FreeSpaceFound]_logSystemVars

-----------------------------------------------------------------------------
(* Liveness. *)

(* A log that was begun gets its header into the flash, or ends: neither    *)
(* the budget nor the flush gets stuck, whenever the interrupt comes.       *)
HeaderGetsOut ==
    blackboxState = "SEND_HEADER" ~>
        blackboxState \in {"RUNNING", "STOPPED", "SHUTTING_DOWN"}

(* An erase by sectors comes to its end, although a log begun during it     *)
(* takes the chip as well, unless the erase is begun again and again.       *)
EraseEnds ==
    \/ []<><<Disarm \/ MspErase>>_logSystemVars
    \/ flashfsState = "ERASING" ~> flashfsState = "IDLE"
=============================================================================
