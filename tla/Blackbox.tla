------------------------------ MODULE Blackbox ------------------------------
(***************************************************************************)
(* blackbox/blackbox.c and blackbox_io.c with the flash as the device: the *)
(* states of a log, the budget by which the header is written without ever *)
(* overflowing the ring, the frames that are written without asking, and   *)
(* the erase.  A pass of blackboxUpdate is several steps, between which    *)
(* the interrupt may run: the case of the state, each byte, the end.       *)
(***************************************************************************)
EXTENDS FlashFs

CONSTANTS
    LogMode,          \* blackbox_mode
    ModeRange,        \* a switch range for BOXBLACKBOX is set
    HeaderBudget,     \* BLACKBOX_TARGET_HEADER_BUDGET_PER_ITERATION
    MaxBudget,        \* BLACKBOX_MAX_ACCUMULATED_HEADER_BUDGET
    HeaderLen,        \* bytes of blackboxHeader
    Fields, FieldLen, \* field definitions, and the bytes of each
    Lines, LineLen,   \* lines of the system information, bytes of each,
    LineName,         \*   and of the name, which the budget is not charged
    FrameLens,        \* bytes a logged iteration may write
    EventLen,         \* bytes of an event
    MaxSent           \* bound: no frames or events beyond this place

ASSUME BlackboxAssumption ==
    /\ LogMode \in {"NORMAL", "MOTOR_TEST", "ALWAYS_ON"}
    /\ ModeRange \in BOOLEAN
    /\ HeaderBudget \in 1..Usable /\ MaxBudget \in Nat
    /\ HeaderLen \in Nat \ {0} /\ Fields \in Nat /\ Lines \in Nat
    /\ FieldLen \in 1..Usable
    /\ LineLen \in 1..HeaderBudget /\ LineName \in 0..LineLen
    /\ FrameLens \subseteq Nat /\ EventLen \in Nat

VARIABLES
    blackboxState, cacheFlushNextState, blackboxHeaderBudget, headerIndex,
    startedLoggingInTestMode,
    delayOver,    \* the time since xmitState.u.startTime is up
    recording,    \* the craft is armed or waits for its throw
    toWrite,      \* bytes the running handler still has to write
    sent,         \* history: bytes written since the file pointer was set
    first,        \* history: the first byte that is followed up, and
    tracked       \* history: whether the ring has not overflowed since

logVars == <<blackboxState, cacheFlushNextState, blackboxHeaderBudget,
             headerIndex, startedLoggingInTestMode, delayOver>>
traceVars == <<sent, first, tracked>>

HeaderStates == {"SEND_HEADER", "SEND_FIELDS", "SEND_SYSINFO"}
EraseStates == {"START_ERASE", "ERASING", "ERASED"}
BlackboxStates ==
    HeaderStates \cup EraseStates
        \cup {"DISABLED", "STOPPED", "PREPARE_LOG_FILE", "CACHE_FLUSH",
              "RUNNING", "PAUSED", "SHUTTING_DOWN"}

BlackboxTypeOK ==
    /\ FlashFsTypeOK
    /\ blackboxState \in BlackboxStates
    /\ cacheFlushNextState \in {"SEND_SYSINFO", "RUNNING"}
    /\ blackboxHeaderBudget \in Int
    /\ headerIndex \in Nat
    /\ startedLoggingInTestMode \in BOOLEAN
    /\ delayOver \in BOOLEAN
    /\ recording \in BOOLEAN
    /\ toWrite \in Nat
    /\ sent \in Nat /\ first \in Nat
    /\ tracked \in BOOLEAN
    /\ pc \in {"IDLE", "HEADER", "FLUSH", "END", "FLUSH_SYNC",
               "FLUSHED_SYNC", "SEARCH"}

BlackboxInit ==
    /\ blackboxState = "STOPPED"
    /\ cacheFlushNextState = "SEND_SYSINFO"
    /\ blackboxHeaderBudget = 0
    /\ headerIndex = 0
    /\ startedLoggingInTestMode = FALSE
    /\ delayOver = FALSE
    /\ recording = FALSE
    /\ toWrite = 0
    /\ sent = 0
    /\ first = 1
    /\ tracked = TRUE

-----------------------------------------------------------------------------
(* What several states do. *)

Idle == pc = "IDLE" /\ toWrite = 0

(* The ring, the chip and the history when a step writes nothing. *)
NothingWritten ==
    UNCHANGED <<chipVars, ringVars, dataWritten, tailAddress, eraseVars,
                scanVars, traceVars, toWrite>>

flashfsFlush(force) ==
    /\ flashfsFlushAsync(bufferHead, force)
    /\ UNCHANGED <<flash, busy, ringVars, tailAddress, eraseVars, scanVars,
                   traceVars, toWrite>>

(* Mutant of BufferIsEmpty: less than what is flushed unasked is left. *)
BufferIsEmptySoon == Used(bufferHead, bufferTail) < AutoFlushLen

BufferIsEmpty == bufferHead = bufferTail

(* One byte of the running handler.  The strings of the later headers go    *)
(* through flashfsWrite.                                                    *)
WriteByte ==
    /\ toWrite > 0
    /\ \E endsString \in IF blackboxState = "SEND_HEADER" THEN {FALSE}
                         ELSE BOOLEAN :
          flashfsWriteByte(sent + 1, endsString)
    /\ toWrite' = toWrite - 1
    /\ sent' = sent + 1
    /\ tracked' = (tracked /\ Used(bufferHead, bufferTail) < Usable)
    /\ UNCHANGED <<flash, busy, bufferTail, tailAddress, eraseVars, scanVars,
                   logVars, recording, first, pc>>

(* blackboxStart *)
Started == IF flashfsIsEOF THEN "DISABLED" ELSE "PREPARE_LOG_FILE"

(* blackboxFinish; a log that runs gets a last event. *)
blackboxFinish ==
    IF blackboxState \in {"DISABLED", "STOPPED", "SHUTTING_DOWN"}
    THEN UNCHANGED <<blackboxState, delayOver>>
    ELSE blackboxState' = "SHUTTING_DOWN" /\ delayOver' = FALSE

LastEvent == IF blackboxState \in {"RUNNING", "PAUSED"} THEN EventLen ELSE 0

(* blackboxDeviceReserveBufferSpace that does not succeed. *)
(* Mutant of ReserveFails: it makes no room. *)
ReserveFailsUnflushed(bytes) == bytes > 0 /\ NothingWritten

ReserveFails(bytes) ==
    IF bytes > FreeSpace THEN flashfsFlush(TRUE) ELSE NothingWritten

(* The handler goes on with these bytes. *)
StartWriting(bytes) ==
    /\ toWrite' = bytes
    /\ UNCHANGED <<chipVars, ringVars, dataWritten, tailAddress, eraseVars,
                   scanVars>>

-----------------------------------------------------------------------------
(* The header. *)

(* blackboxReplenishHeaderBudget, given what it takes for the free space.   *)
Replenish(free) ==
    /\ Idle /\ blackboxState \in HeaderStates
    /\ blackboxHeaderBudget' =
          Lesser(Lesser(free, blackboxHeaderBudget + HeaderBudget), MaxBudget)
    /\ pc' = "HEADER"
    /\ UNCHANGED <<blackboxState, cacheFlushNextState, headerIndex,
                   startedLoggingInTestMode, delayOver, recording, toWrite,
                   traceVars>>

ReplenishHeaderBudget ==
    /\ Replenish(FreeSpace)
    /\ UNCHANGED <<chipVars, ringVars, dataWritten, tailAddress, eraseVars,
                   scanVars>>

(* flashfsTransmitBufferUsed reads bufferTail twice: with the interrupt in  *)
(* between, the second reading may be of the next round.                    *)
ReplenishTorn ==
    /\ bufferHead < bufferTail
    /\ WriteCallback
    /\ Replenish(Usable - (BufferSize - bufferTail' + bufferHead))

(* The next bytes of blackboxHeader, once 100 ms are over.  From its first  *)
(* byte on the log is followed up.                                          *)
SendHeader ==
    /\ blackboxState = "SEND_HEADER"
    /\ \/ /\ delayOver /\ HeaderBudget <= blackboxHeaderBudget
          /\ LET n == Lesser(HeaderBudget, HeaderLen - headerIndex)
             IN  /\ StartWriting(n)
                 /\ blackboxHeaderBudget' = blackboxHeaderBudget - n
                 /\ headerIndex' = headerIndex + n
          /\ IF headerIndex = 0
             THEN first' = sent + 1 /\ tracked' = TRUE /\ UNCHANGED sent
             ELSE UNCHANGED traceVars
       \/ /\ delayOver /\ HeaderBudget > blackboxHeaderBudget
          /\ ReserveFails(HeaderBudget)
          /\ UNCHANGED <<blackboxHeaderBudget, headerIndex>>
       \/ /\ ~delayOver
          /\ NothingWritten
          /\ UNCHANGED <<blackboxHeaderBudget, headerIndex>>
    /\ pc' = "END"
    /\ UNCHANGED <<blackboxState, cacheFlushNextState>>

(* sendFieldDefinition of the four kinds of fields: as many as the budget   *)
(* allows, each charged before it is written.                               *)
SendFields ==
    /\ blackboxState = "SEND_FIELDS"
    /\ \/ /\ headerIndex < Fields /\ FieldLen <= blackboxHeaderBudget
          /\ StartWriting(FieldLen)
          /\ blackboxHeaderBudget' = blackboxHeaderBudget - FieldLen
          /\ headerIndex' = headerIndex + 1
          /\ UNCHANGED <<traceVars, blackboxState, cacheFlushNextState, pc>>
       \/ /\ headerIndex < Fields /\ FieldLen > blackboxHeaderBudget
          /\ ReserveFails(FieldLen)
          /\ pc' = "END"
          /\ UNCHANGED <<blackboxHeaderBudget, headerIndex, blackboxState,
                         cacheFlushNextState>>
       \/ /\ headerIndex >= Fields
          /\ blackboxState' = "CACHE_FLUSH"
          /\ cacheFlushNextState' = "SEND_SYSINFO"
          /\ NothingWritten
          /\ pc' = "END"
          /\ UNCHANGED <<blackboxHeaderBudget, headerIndex>>

(* blackboxWriteSysinfo: a line, whose name is not charged, or the end. *)
SendSysinfo ==
    /\ blackboxState = "SEND_SYSINFO"
    /\ \/ /\ HeaderBudget <= blackboxHeaderBudget /\ headerIndex < Lines
          /\ StartWriting(LineLen)
          /\ blackboxHeaderBudget' = blackboxHeaderBudget - (LineLen - LineName)
          /\ headerIndex' = headerIndex + 1
          /\ UNCHANGED <<traceVars, blackboxState, cacheFlushNextState>>
       \/ /\ HeaderBudget <= blackboxHeaderBudget /\ headerIndex >= Lines
          /\ blackboxState' = "CACHE_FLUSH"
          /\ cacheFlushNextState' = "RUNNING"
          /\ NothingWritten
          /\ UNCHANGED <<blackboxHeaderBudget, headerIndex>>
       \/ /\ HeaderBudget > blackboxHeaderBudget
          /\ ReserveFails(HeaderBudget)
          /\ UNCHANGED <<blackboxHeaderBudget, headerIndex, blackboxState,
                         cacheFlushNextState>>
    /\ pc' = "END"

HeaderStep ==
    /\ pc = "HEADER" /\ toWrite = 0
    /\ SendHeader \/ SendFields \/ SendSysinfo
    /\ UNCHANGED <<startedLoggingInTestMode, delayOver, recording>>

-----------------------------------------------------------------------------
(* The other states of blackboxUpdate. *)

Stopped(eraseBox) ==
    /\ blackboxState = "STOPPED"
    /\ blackboxState' = IF eraseBox THEN "START_ERASE"
                        ELSE IF recording THEN Started ELSE "STOPPED"
    /\ NothingWritten
    /\ UNCHANGED <<blackboxHeaderBudget, headerIndex, delayOver>>

PrepareLogFile ==
    /\ blackboxState = "PREPARE_LOG_FILE"
    /\ blackboxState' = "SEND_HEADER"
    /\ blackboxHeaderBudget' = 0
    /\ headerIndex' = 0
    /\ delayOver' = FALSE
    /\ NothingWritten

CacheFlush ==
    /\ blackboxState = "CACHE_FLUSH"
    /\ \/ /\ BufferIsEmpty
          /\ blackboxState' = cacheFlushNextState
          /\ headerIndex' = IF cacheFlushNextState = "SEND_SYSINFO" THEN 0
                            ELSE headerIndex
          /\ NothingWritten
       \/ /\ ~BufferIsEmpty
          /\ flashfsFlush(TRUE)
          /\ UNCHANGED <<blackboxState, headerIndex>>
    /\ UNCHANGED <<blackboxHeaderBudget, delayOver>>

(* BLACKBOX_SHUTDOWN_TIMEOUT_MILLIS, or nothing is left in the ring. *)
ShuttingDown ==
    /\ blackboxState = "SHUTTING_DOWN"
    /\ \/ /\ delayOver \/ BufferIsEmpty
          /\ blackboxState' = "STOPPED"
          /\ NothingWritten
       \/ /\ ~(delayOver \/ BufferIsEmpty)
          /\ flashfsFlush(TRUE)
          /\ UNCHANGED blackboxState
    /\ UNCHANGED <<blackboxHeaderBudget, headerIndex, delayOver>>

EraseCase(eraseBox) ==
    /\ \/ /\ blackboxState = "ERASING"
          /\ blackboxState' = IF flashfsIsReady THEN "ERASED" ELSE "ERASING"
       \/ /\ blackboxState = "ERASED"
          /\ blackboxState' = IF eraseBox THEN "ERASED" ELSE "STOPPED"
    /\ NothingWritten
    /\ UNCHANGED <<blackboxHeaderBudget, headerIndex, delayOver>>

Disabled ==
    /\ blackboxState = "DISABLED"
    /\ NothingWritten
    /\ UNCHANGED <<blackboxState, blackboxHeaderBudget, headerIndex, delayOver>>

Pauses(blackboxBox) ==
    ModeRange /\ ~blackboxBox /\ ~startedLoggingInTestMode

(* The mode switch pauses, the end of the flight finishes the log. *)
RunningEnds(blackboxBox) ==
    /\ blackboxState = "RUNNING"
    /\ \/ /\ Pauses(blackboxBox)
          /\ blackboxState' = "PAUSED"
          /\ NothingWritten
          /\ UNCHANGED delayOver
       \/ /\ ~Pauses(blackboxBox) /\ ~recording /\ ~startedLoggingInTestMode
          /\ blackboxFinish
          /\ StartWriting(LastEvent)
          /\ UNCHANGED traceVars
    /\ UNCHANGED <<blackboxHeaderBudget, headerIndex>>

StaysPaused(blackboxBox, iFrame) ==
    /\ blackboxState = "PAUSED" /\ ~(blackboxBox /\ iFrame)
    /\ NothingWritten
    /\ UNCHANGED <<blackboxState, blackboxHeaderBudget, headerIndex, delayOver>>

(* blackboxLogIteration, also after a pause. *)
LogIteration(blackboxBox, iFrame) ==
    /\ \/ /\ blackboxState = "RUNNING" /\ ~Pauses(blackboxBox)
          /\ recording \/ startedLoggingInTestMode
       \/ blackboxState = "PAUSED" /\ blackboxBox /\ iFrame
    /\ \E frame \in FrameLens :
          /\ \/ blackboxState = "RUNNING" /\ frame = 0
             \/ sent + EventLen + frame <= MaxSent
          /\ StartWriting(IF blackboxState = "PAUSED" THEN EventLen + frame
                          ELSE frame)
    /\ blackboxState' = "RUNNING"
    /\ UNCHANGED <<blackboxHeaderBudget, headerIndex, delayOver, traceVars>>

blackboxUpdate ==
    /\ Idle
    /\ \E blackboxBox, eraseBox, iFrame \in BOOLEAN :
          \/ /\ \/ Stopped(eraseBox)
                \/ PrepareLogFile
                \/ CacheFlush
                \/ ShuttingDown
                \/ EraseCase(eraseBox)
                \/ Disabled
                \/ RunningEnds(blackboxBox)
                \/ StaysPaused(blackboxBox, iFrame)
             /\ pc' = "END"
          \/ LogIteration(blackboxBox, iFrame) /\ pc' = "FLUSH"
    /\ UNCHANGED <<cacheFlushNextState, startedLoggingInTestMode, recording>>

(* blackboxDeviceFlush at the end of blackboxLogIteration. *)
DeviceFlush ==
    /\ pc = "FLUSH" /\ toWrite = 0
    /\ flashfsFlush(FALSE)
    /\ pc' = "END"
    /\ UNCHANGED <<logVars, recording>>

-----------------------------------------------------------------------------
(* Erasing. *)

(* blackboxEraseAll: blackboxInit first, then flashfsEraseCompletely. *)
EraseAll(stateAfter) ==
    /\ flashfsEraseCompletely
    /\ blackboxState' = stateAfter
    /\ sent' = 0
    /\ first' = 1
    /\ tracked' = TRUE
    /\ UNCHANGED <<scanVars, toWrite, cacheFlushNextState,
                   blackboxHeaderBudget, headerIndex, delayOver,
                   startedLoggingInTestMode, recording>>

(* Two passes after the log was left, its last transfer is over. *)
StartErase ==
    /\ Idle /\ blackboxState = "START_ERASE" /\ ~InFlight
    /\ EraseAll("ERASING")
    /\ pc' = "END"

(* MSP_DATAFLASH_ERASE *)
MspErase ==
    /\ EraseAll("STOPPED")
    /\ UNCHANGED pc

-----------------------------------------------------------------------------
(* The end of blackboxUpdate: the device is full, or the test modes.        *)

AfterHeader ==
    IF blackboxState = "SEND_HEADER" /\ headerIndex >= HeaderLen
    THEN "SEND_FIELDS" ELSE blackboxState

StartInTestMode ==
    IF startedLoggingInTestMode
    THEN UNCHANGED <<blackboxState, startedLoggingInTestMode>>
    ELSE blackboxState' = Started /\ startedLoggingInTestMode' = TRUE

UpdateEnds ==
    /\ pc = "END" /\ toWrite = 0
    /\ pc' = "IDLE"
    /\ headerIndex' = IF AfterHeader = blackboxState THEN headerIndex ELSE 0
    /\ IF flashfsIsEOF /\ blackboxState \notin EraseStates
       THEN /\ blackboxState' = "STOPPED"
            /\ startedLoggingInTestMode' = FALSE
            /\ UNCHANGED <<delayOver, toWrite>>
       ELSE \/ /\ LogMode # "NORMAL" /\ blackboxState = "STOPPED"
               /\ StartInTestMode
               /\ UNCHANGED <<delayOver, toWrite>>
            \/ /\ LogMode = "MOTOR_TEST" /\ blackboxState # "STOPPED"
               /\ startedLoggingInTestMode
               /\ startedLoggingInTestMode' = FALSE
               /\ blackboxFinish
               /\ toWrite' = LastEvent
            \/ /\ LogMode = "ALWAYS_ON" => blackboxState # "STOPPED"
               /\ blackboxState' = AfterHeader
               /\ UNCHANGED <<startedLoggingInTestMode, delayOver, toWrite>>
    /\ UNCHANGED <<chipVars, ringVars, dataWritten, tailAddress, eraseVars,
                   scanVars, traceVars, cacheFlushNextState,
                   blackboxHeaderBudget, recording>>

-----------------------------------------------------------------------------
(* The rest of the firmware. *)

(* 100 ms or 200 ms are up: longer than any transfer takes. *)
DelayOver ==
    /\ blackboxState \in {"SEND_HEADER", "SHUTTING_DOWN"} /\ ~delayOver
    /\ Idle /\ ~InFlight
    /\ delayOver' = TRUE
    /\ UNCHANGED <<chipVars, ringVars, dataWritten, tailAddress, eraseVars,
                   scanVars, pc, blackboxState, cacheFlushNextState,
                   blackboxHeaderBudget, headerIndex,
                   startedLoggingInTestMode, recording, toWrite, traceVars>>

(* The craft arms, or waits for its throw. *)
StartsRecording ==
    /\ Idle /\ ~recording
    /\ recording' = TRUE
    /\ NothingWritten
    /\ UNCHANGED <<logVars, pc>>

(* disarm(): an event, and the end of the log unless it is to go on. *)
Disarm ==
    /\ Idle /\ recording
    /\ sent + 2 * LastEvent <= MaxSent
    /\ recording' = FALSE
    /\ \E throwBox \in BOOLEAN :
          IF LogMode # "ALWAYS_ON" /\ ~throwBox
          THEN blackboxFinish /\ StartWriting(2 * LastEvent)
          ELSE StartWriting(LastEvent) /\ UNCHANGED <<blackboxState, delayOver>>
    /\ UNCHANGED <<cacheFlushNextState, blackboxHeaderBudget, headerIndex,
                   startedLoggingInTestMode, traceVars, pc>>

(* The power fails and comes back: blackboxInit and flashfsInit. *)
PowerCycle ==
    /\ flashfsInit
    /\ blackboxState' = "STOPPED"
    /\ cacheFlushNextState' = "SEND_SYSINFO"
    /\ blackboxHeaderBudget' = 0
    /\ headerIndex' = 0
    /\ startedLoggingInTestMode' = FALSE
    /\ delayOver' = FALSE
    /\ recording' = FALSE
    /\ toWrite' = 0
    /\ sent' = 0
    /\ first' = 1
    /\ tracked' = TRUE
=============================================================================
