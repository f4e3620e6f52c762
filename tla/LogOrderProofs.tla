--------------------------- MODULE LogOrderProofs ---------------------------
(***************************************************************************)
(* On a chip that is erased as a whole, a log that does not overflow the   *)
(* ring gets into the flash byte for byte in its order, nothing is         *)
(* programmed twice, a restart finds where the free space begins, and      *)
(* frames are logged only behind a whole header: for every size of ring,   *)
(* page, block, chip and header.  The order and the header need that the   *)
(* configurator does not read while a transfer runs.                       *)
(***************************************************************************)
EXTENDS LogProofs

(* A read while a transfer runs programs the same bytes a second time. *)
NoReadMidTransfer == MidTransfer => "READ" \notin Requests

(* The log is followed up, or is about to be: SEND_HEADER waits no more.    *)
Followed == tracked \/ (blackboxState = "SEND_HEADER" /\ delayOver)

(* flashfsFlushSync waits with the region it will write still the dirty one. *)
RegionOK ==
    pc = "FLUSH_SYNC" => /\ dma.len = 0
                         /\ dirty.from = bufferTail
                         /\ dirty.total = Buffered

(* No transfer takes more than the ring holds. *)
FitsOK == Followed => dma.len <= Buffered

Done == dma.len - dma.left            \* bytes of the transfer that are over
Limit == tailAddress + Done           \* what is programmed ends here

(* It reads the ring from the tail on. *)
ReadsOK == dma.left > 0 => dma.from = Wrap(bufferTail + Done)

TransferInv == RegionOK /\ FitsOK /\ ReadsOK

-----------------------------------------------------------------------------
(* Every step is one of seven kinds, told by what it does to the ring, the  *)
(* chip and the history.  A read in the middle of a transfer is calm, but   *)
(* not steady: the page program it begins need not take the bytes that wait.*)

Calm ==
    /\ \E slot \in Slots, total \in 0..Usable : MayBeginAt(slot, total)
    /\ UNCHANGED <<flash, ringVars, tailAddress, flashfsState, search>>
    /\ pc' = "SEARCH" <=> pc = "SEARCH"

Steady ==
    /\ MayBegin(Buffered)
    /\ UNCHANGED <<flash, ringVars, tailAddress, flashfsState, search>>
    /\ pc' = "SEARCH" <=> pc = "SEARCH"
    /\ UNCHANGED traceVars \/ (sent' = sent /\ first' = sent + 1)
    /\ Followed' => Followed \/ dma'.len = 0

ByteStep == DmaByte /\ UNCHANGED Frame

CallbackStep ==
    /\ WriteCallback /\ pc' # "SEARCH"
    /\ UNCHANGED traceVars
    /\ Followed' => Followed

Fresh ==
    /\ flash' = [a \in Addresses |-> Erased]
    /\ dma' = NoTransfer
    /\ bufferHead' = 0 /\ bufferTail' = 0 /\ tailAddress' = 0
    /\ UNCHANGED <<flashWriteBuffer, flashfsState>>
    /\ pc # "SEARCH" /\ pc' # "SEARCH"
    /\ sent' = 0 /\ first' = 1

LEMMA FinishKeepsFollowed ==
    blackboxFinish /\ UNCHANGED tracked => (Followed' => Followed)
  BY DEF blackboxFinish, Followed

LEMMA KeptIsSteady ==
    ASSUME Kept, UNCHANGED traceVars, pc # "SEARCH", pc' # "SEARCH",
           Followed' => Followed \/ dma'.len = 0
    PROVE  Steady
  BY DEF Kept, Steady, eraseVars, scanVars

LEMMA InterruptSteps ==
    ASSUME TypeInv, Interrupt PROVE ByteStep \/ CallbackStep \/ Steady
  <1>1. UNCHANGED Frame
    BY DEF Interrupt, Frame
  <1>2. UNCHANGED traceVars /\ (Followed' => Followed)
    BY <1>1 DEF Frame, logVars, traceVars, Followed
  <1>3. CASE DmaByte
    BY <1>1, <1>3 DEF ByteStep
  <1>4. CASE TransferDone
    <2>1. pc # "SEARCH"
      BY <1>4, Halves, Sizes DEF TransferDone, WriteCallback, InFlight, PlaceOK
    <2> QED
      BY <1>2, <1>4, <2>1 DEF TransferDone, CallbackStep
  <1>5. CASE ChipReady
    BY <1>2, <1>5 DEF ChipReady, Steady, MayBegin, MayBeginAt, eraseVars, scanVars
  <1> QED
    BY <1>3, <1>4, <1>5 DEF Interrupt

LEMMA ReadSteps ==
    ASSUME TypeInv, TransferInv, MspRead \/ SyncWait PROVE Steady
  <1>1. UNCHANGED Frame
    BY DEF MspRead, SyncWait, Frame
  <1>2. UNCHANGED traceVars /\ (Followed' => Followed)
    BY <1>1 DEF Frame, logVars, traceVars, Followed
  <1>3. CASE MspRead
    BY <1>2, <1>3 DEF MspRead, Asked, Idle, ReadAbs, Steady, MayBegin, MayBeginAt,
       chipVars, eraseVars
  <1>4. CASE SyncWait
    <2>1. CASE FlushSyncWrite
      <3>1. WriteBuffers(bufferTail, Buffered)
        BY <2>1 DEF FlushSyncWrite, TransferInv, RegionOK
      <3>2. MayBegin(Buffered)
        BY <3>1, RoomRange, WriteMayBegin DEF MayBegin
      <3> QED
        BY <1>2, <2>1, <3>2 DEF FlushSyncWrite, Steady, eraseVars, scanVars
    <2>2. CASE FlushSyncReturns
      BY <1>2, <2>2 DEF FlushSyncReturns, Steady, MayBegin, MayBeginAt, chipVars,
         eraseVars
    <2> QED
      BY <1>4, <2>1, <2>2 DEF SyncWait
  <1> QED
    BY <1>3, <1>4

LEMMA SteadyIsCalm ==
    ASSUME TypeInv, Steady PROVE Calm
  <1>1. bufferTail \in Slots /\ Buffered \in 0..Usable
    BY RingTyped, RoomRange
  <1> QED
    BY <1>1 DEF Steady, Calm, MayBegin

LEMMA ReadIsCalm ==
    ASSUME TypeInv, MspRead \/ SyncWait PROVE Calm
  <1>1. dirty.from \in Slots /\ dirty.total \in 0..Usable
    BY DEF TypeInv, BlackboxTypeOK, FlashFsTypeOK
  <1>2. ASSUME dma' = dma
        PROVE  \E slot \in Slots, total \in 0..Usable : MayBeginAt(slot, total)
    BY <1>1, <1>2 DEF MayBeginAt
  <1>3. CASE MspRead
    BY <1>2, <1>3 DEF MspRead, Asked, Idle, ReadAbs, Calm, chipVars, eraseVars
  <1>4. CASE FlushSyncWrite
    <2>1. MayBeginAt(dirty.from, dirty.total)
      BY <1>1, <1>4, WriteMayBegin DEF FlushSyncWrite
    <2> QED
      BY <1>1, <1>4, <2>1 DEF FlushSyncWrite, Calm, eraseVars, scanVars
  <1>5. CASE FlushSyncReturns
    BY <1>2, <1>5 DEF FlushSyncReturns, Calm, chipVars, eraseVars
  <1> QED
    BY <1>3, <1>4, <1>5 DEF SyncWait

LEMMA UpdateSteps ==
    ASSUME TypeInv, blackboxUpdate PROVE Steady
  <1>1. Kept /\ UNCHANGED traceVars /\ pc' # "SEARCH" /\ OutsideHeader
    BY UpdateMoves
  <1>2. pc # "SEARCH"
    BY DEF blackboxUpdate, Idle
  <1>3. Followed' => Followed
    BY <1>1 DEF Followed, OutsideHeader, HeaderStates, traceVars
  <1> QED
    BY <1>1, <1>2, <1>3, KeptIsSteady

LEMMA ReplenishSteps ==
    ASSUME ReplenishHeaderBudget \/ ReplenishTorn PROVE Steady \/ CallbackStep
  <1>1. PICK free : Replenish(free)
    BY DEF ReplenishHeaderBudget, ReplenishTorn
  <1>2. /\ UNCHANGED <<blackboxState, delayOver>> /\ UNCHANGED traceVars
        /\ pc = "IDLE" /\ pc' = "HEADER"
    BY <1>1 DEF Replenish, Idle
  <1>3. Followed' => Followed
    BY <1>2 DEF Followed, traceVars
  <1>4. CASE ReplenishHeaderBudget
    BY <1>2, <1>3, <1>4 DEF ReplenishHeaderBudget, Steady, MayBegin, MayBeginAt, chipVars,
        eraseVars, scanVars
  <1>5. CASE ReplenishTorn
    BY <1>2, <1>3, <1>5 DEF ReplenishTorn, CallbackStep
  <1> QED
    BY <1>4, <1>5

LEMMA HeaderSteps ==
    ASSUME TypeInv, HeaderStep PROVE Steady
  <1>1. Kept
    <2>1. \/ \E bytes : StartWriting(bytes)
          \/ \E bytes : ReserveFails(bytes)
          \/ NothingWritten
      BY DEF HeaderStep, SendHeader, SendFields, SendSysinfo
    <2> QED
      BY <2>1, StartIsQuiet, QuietIsKept, ReserveIsKept, WrittenIsKept
  <1>2. pc = "HEADER" /\ pc' \in {"HEADER", "END"} /\ delayOver' = delayOver
    BY DEF HeaderStep, SendHeader, SendFields, SendSysinfo
  <1>3. blackboxState' = "SEND_HEADER" => blackboxState = "SEND_HEADER"
    BY DEF HeaderStep, SendHeader, SendFields, SendSysinfo
  <1>4. \/ UNCHANGED traceVars
        \/ /\ blackboxState = "SEND_HEADER" /\ delayOver
           /\ sent' = sent /\ first' = sent + 1
    <2>1. CASE SendHeader
      <3>1. \/ UNCHANGED traceVars
            \/ \E bytes : ReserveFails(bytes)
            \/ NothingWritten
            \/ /\ blackboxState = "SEND_HEADER" /\ delayOver
               /\ sent' = sent /\ first' = sent + 1
        BY <2>1 DEF SendHeader
      <3> QED
        BY <3>1, ReserveIsKept, WrittenIsKept
    <2>2. CASE SendFields \/ SendSysinfo
      <3>1. \/ UNCHANGED traceVars
            \/ \E bytes : ReserveFails(bytes)
            \/ NothingWritten
        BY <2>2 DEF SendFields, SendSysinfo
      <3> QED
        BY <3>1, ReserveIsKept, WrittenIsKept
    <2> QED
      BY <2>1, <2>2 DEF HeaderStep
  <1>5. Followed' => Followed
    BY <1>2, <1>3, <1>4 DEF Followed, traceVars
  <1> QED
    BY <1>1, <1>2, <1>4, <1>5 DEF Kept, Steady, eraseVars, scanVars

LEMMA OtherSteps ==
    ASSUME TypeInv, DeviceFlush \/ UpdateEnds \/ DelayOver \/ StartsRecording \/ Disarm
    PROVE  Steady
  <1>1. CASE DeviceFlush
    <2>1. Kept /\ UNCHANGED traceVars
      BY <1>1, FlushIsKept DEF DeviceFlush
    <2>2. pc = "FLUSH" /\ pc' = "END" /\ UNCHANGED <<blackboxState, delayOver>>
      BY <1>1 DEF DeviceFlush, logVars
    <2> QED
      BY <2>1, <2>2, KeptIsSteady DEF Followed, traceVars
  <1>2. CASE UpdateEnds
    <2>1. Kept /\ UNCHANGED traceVars /\ pc = "END" /\ pc' = "IDLE"
      BY <1>2, QuietIsKept DEF UpdateEnds, Device
    <2>2. \/ blackboxState' # "SEND_HEADER"
          \/ blackboxFinish
          \/ blackboxState' = AfterHeader /\ UNCHANGED delayOver
      BY <1>2 DEF UpdateEnds, StartInTestMode, Started
    <2>3. Followed' => Followed
      BY <2>1, <2>2, FinishKeepsFollowed DEF Followed, AfterHeader, traceVars
    <2> QED
      BY <2>1, <2>3, KeptIsSteady
  <1>3. CASE DelayOver
    <2>1. Kept /\ UNCHANGED traceVars /\ pc = "IDLE" /\ pc' = "IDLE"
      BY <1>3, QuietIsKept DEF DelayOver, Device, Idle
    <2>2. dma'.len = 0
      BY <1>3, RingTyped, Sizes DEF DelayOver, InFlight, chipVars
    <2> QED
      BY <2>1, <2>2, KeptIsSteady
  <1>4. CASE StartsRecording
    <2>1. Kept /\ UNCHANGED traceVars /\ pc = "IDLE" /\ pc' = "IDLE"
              /\ UNCHANGED <<blackboxState, delayOver>>
      BY <1>4, WrittenIsKept DEF StartsRecording, Idle, logVars
    <2> QED
      BY <2>1, KeptIsSteady DEF Followed, traceVars
  <1>5. CASE Disarm
    <2>1. UNCHANGED traceVars /\ pc = "IDLE" /\ pc' = "IDLE"
      BY <1>5 DEF Disarm, Idle
    <2>2. Kept
      BY <1>5, StartIsQuiet, QuietIsKept DEF Disarm
    <2>3. blackboxFinish \/ UNCHANGED <<blackboxState, delayOver>>
      BY <1>5 DEF Disarm
    <2>4. Followed' => Followed
      BY <2>1, <2>3, FinishKeepsFollowed DEF Followed, traceVars
    <2> QED
      BY <2>1, <2>2, <2>4, KeptIsSteady
  <1> QED
    BY <1>1, <1>2, <1>3, <1>4, <1>5

LEMMA EraseSteps ==
    ASSUME WholeChip, StartErase \/ (Asked("ERASE") /\ MspErase) PROVE Fresh
  <1>1. PICK stateAfter : EraseAll(stateAfter)
    BY DEF StartErase, MspErase
  <1>2. pc # "SEARCH" /\ pc' # "SEARCH"
    BY DEF StartErase, MspErase, Asked, Idle
  <1> QED
    BY <1>1, <1>2 DEF EraseAll, flashfsEraseCompletely, eraseVars, Fresh

LEMMA StutterIsSteady == UNCHANGED logSystemVars => Steady
  BY DEF logSystemVars, Steady, MayBegin, MayBeginAt, chipVars, eraseVars, scanVars, logVars,
      traceVars, Followed

LEMMA Kinds ==
    ASSUME WholeChip, TypeInv, flashfsState = "IDLE", [LogNext]_logSystemVars
    PROVE  \/ Steady \/ ByteStep \/ CallbackStep \/ WriteByte
           \/ Fresh \/ (StartUp /\ UNCHANGED Frame) \/ PowerCycle
           \/ MspRead \/ SyncWait
  <1>1. \/ Interrupt
        \/ TaskMain
        \/ MspRead \/ SyncWait
        \/ StartUp
        \/ blackboxUpdate
        \/ ReplenishHeaderBudget \/ ReplenishTorn
        \/ HeaderStep
        \/ WriteByte
        \/ StartErase \/ (Asked("ERASE") /\ MspErase)
        \/ DeviceFlush \/ UpdateEnds \/ DelayOver \/ StartsRecording \/ Disarm
        \/ PowerCycle
        \/ UNCHANGED logSystemVars
    BY DEF LogNext, UpdatePass
  <1>2. ~TaskMain
    BY DEF TaskMain, flashfsEraseAsync
  <1>3. StartUp => UNCHANGED Frame
    BY DEF StartUp, Frame
  <1> QED
    BY <1>1, <1>2, <1>3, InterruptSteps, UpdateSteps, ReplenishSteps,
       HeaderSteps, EraseSteps, OtherSteps, StutterIsSteady

LEMMA Steps ==
    ASSUME WholeChip, TypeInv, TransferInv, flashfsState = "IDLE",
           [LogNext]_logSystemVars
    PROVE  \/ Steady \/ ByteStep \/ CallbackStep \/ WriteByte
           \/ Fresh \/ (StartUp /\ UNCHANGED Frame) \/ PowerCycle
  BY Kinds, ReadSteps

LEMMA ChipSteps ==
    ASSUME WholeChip, TypeInv, flashfsState = "IDLE", [LogNext]_logSystemVars
    PROVE  \/ Calm \/ ByteStep \/ CallbackStep \/ WriteByte
           \/ Fresh \/ (StartUp /\ UNCHANGED Frame) \/ PowerCycle
  BY Kinds, SteadyIsCalm, ReadIsCalm

-----------------------------------------------------------------------------
(* The shape of the flash: blocks that begin with a programmed byte, and    *)
(* erased bytes behind them.                                                *)

ErasedFrom(f, l) == \A a \in Addresses : a >= l => f[a] = Erased

WrittenBelow(f, l) ==
    \A b \in 0..Blocks - 1 :
        b * FreeBlockSize < l => f[b * FreeBlockSize] # Erased

Prefix(f) ==
    \A b \in 0..Blocks - 1 :
        f[b * FreeBlockSize] = Erased => ErasedFrom(f, b * FreeBlockSize)

(* While the free space is searched it begins between left and right. *)
SearchOK ==
    /\ search.result = search.right /\ search.left <= search.right
    /\ ErasedFrom(flash, search.right * FreeBlockSize)
    /\ \A b \in 0..search.left - 1 : flash[b * FreeBlockSize] # Erased
    /\ Prefix(flash)

ShapeOK ==
    /\ pc # "SEARCH" => ErasedFrom(flash, Limit) /\ WrittenBelow(flash, Limit)
    /\ pc = "SEARCH" => SearchOK

(* The transfer programs where it should. *)
Placed ==
    dma.left > 0 => /\ dma.at = Limit
                    /\ tailAddress + dma.len <= PageEnd(tailAddress)

(* No byte of the ring looks erased. *)
Filled == \A s \in Slots : flashWriteBuffer[s] \notin {Erased, Garbled}

FlashInv ==
    /\ flashfsState = "IDLE"
    /\ ShapeOK
    /\ NothingGarbled
    /\ Placed
    /\ Filled

-----------------------------------------------------------------------------
(* Addresses of blocks. *)

LEMMA BlockStart ==
    ASSUME NEW b \in 0..Blocks - 1, NEW i \in 0..FreeBlockSize - 1
    PROVE  b * FreeBlockSize + i \in Addresses /\ b * FreeBlockSize \in Addresses
  <1>1. FreeBlockSize \in Nat \ {0}
    BY FlashAssumption
  <1>2. FreeBlockSize * b + FreeBlockSize <= FreeBlockSize * Blocks
    BY <1>1, BlocksFill, Multiples
  <1>3. b * FreeBlockSize \in Nat /\ b * FreeBlockSize + FreeBlockSize <= FlashSize
    BY <1>1, <1>2, BlocksFill
  <1> QED
    BY <1>1, <1>3, Sizes DEF Addresses

LEMMA BlockOrder ==
    ASSUME NEW b \in Nat, NEW c \in Nat
    PROVE  /\ b <= c => b * FreeBlockSize <= c * FreeBlockSize
           /\ b < c => b * FreeBlockSize + FreeBlockSize <= c * FreeBlockSize
  <1>1. FreeBlockSize \in Nat \ {0}
    BY FlashAssumption
  <1>2. b < c => FreeBlockSize * b + FreeBlockSize <= FreeBlockSize * c
    BY <1>1, Multiples
  <1> QED
    BY <1>1, <1>2

(* A flash programmed up to a place has the shape the search relies on. *)
LEMMA ShapeIsPrefix ==
    ASSUME NEW f, NEW l \in Nat, ErasedFrom(f, l), WrittenBelow(f, l)
    PROVE  Prefix(f)
  <1> SUFFICES ASSUME NEW b \in 0..Blocks - 1, f[b * FreeBlockSize] = Erased
               PROVE  ErasedFrom(f, b * FreeBlockSize)
    BY DEF Prefix
  <1>1. b * FreeBlockSize \in Nat
    BY FlashAssumption
  <1>2. ~(b * FreeBlockSize < l)
    BY DEF WrittenBelow
  <1>3. \A a \in Addresses : a >= b * FreeBlockSize => a >= l
    BY <1>1, <1>2 DEF Addresses
  <1> QED
    BY <1>3 DEF ErasedFrom

LEMMA NothingWrittenBelow ==
    ASSUME NEW f PROVE WrittenBelow(f, 0)
  <1>1. \A b \in 0..Blocks - 1 : ~(b * FreeBlockSize < 0)
    BY FlashAssumption, BlocksFill
  <1> QED
    BY <1>1 DEF WrittenBelow

(* One more byte is programmed. *)
LEMMA ShapeGrows ==
    ASSUME NEW f, NEW g, NEW l \in Addresses,
           ErasedFrom(f, l), WrittenBelow(f, l), g[l] # Erased,
           \A a \in Addresses : a # l => g[a] = f[a]
    PROVE  ErasedFrom(g, l + 1) /\ WrittenBelow(g, l + 1)
  <1>1. l \in Nat
    BY DEF Addresses
  <1>2. ErasedFrom(g, l + 1)
    <2> SUFFICES ASSUME NEW a \in Addresses, a >= l + 1 PROVE g[a] = Erased
      BY DEF ErasedFrom
    <2>1. a # l /\ a >= l
      BY <1>1 DEF Addresses
    <2> QED
      BY <2>1 DEF ErasedFrom
  <1>3. WrittenBelow(g, l + 1)
    <2> SUFFICES ASSUME NEW b \in 0..Blocks - 1, b * FreeBlockSize < l + 1
                 PROVE  g[b * FreeBlockSize] # Erased
      BY DEF WrittenBelow
    <2> DEFINE a == b * FreeBlockSize
    <2>1. a \in Addresses /\ a \in Nat
      <3>1. 0 \in 0..FreeBlockSize - 1
        BY FlashAssumption
      <3> QED
        BY <3>1, BlockStart DEF Addresses
    <2>2. CASE a = l
      BY <2>2
    <2>3. CASE a # l
      <3>1. a < l /\ g[a] = f[a]
        BY <1>1, <2>1, <2>3
      <3> QED
        BY <3>1 DEF WrittenBelow
    <2> QED
      BY <2>2, <2>3
  <1> QED
    BY <1>2, <1>3

-----------------------------------------------------------------------------
(* Places within a page and within the ring. *)

LEMMA DoneRange ==
    ASSUME TypeInv
    PROVE  /\ Done \in 0..Usable /\ Done <= dma.len /\ Done = dma.len - dma.left
           /\ Limit = tailAddress + Done /\ Limit \in 0..FlashSize
           /\ dma.left > 0 => Done < dma.len /\ Limit \in Addresses
           /\ dma.len = 0 => Done = 0
  <1>1. /\ dma.len \in 0..Usable /\ dma.left \in 0..Usable /\ dma.left <= dma.len
        /\ tailAddress \in 0..FlashSize /\ tailAddress + dma.len <= FlashSize
    BY RingTyped
  <1>2. Done \in 0..Usable /\ Done <= dma.len
    BY <1>1, Sizes DEF Done
  <1>3. Limit \in 0..FlashSize
    BY <1>1, <1>2, Sizes DEF Limit
  <1>4. dma.left > 0 => Done < dma.len
    BY <1>1, Sizes DEF Done
  <1>5. dma.left > 0 => Limit \in Addresses
    BY <1>1, <1>2, <1>4, Sizes DEF Limit, Addresses
  <1> QED
    BY <1>1, <1>2, <1>3, <1>4, <1>5 DEF Done, Limit

(* Within a page the next address is the next byte. *)
LEMMA NextIsNext ==
    ASSUME NEW t \in Nat, NEW a \in Nat, t <= a, a + 1 < PageEnd(t), t < FlashSize
    PROVE  NextInPage(a) = a + 1
  <1> DEFINE q == t \div PageSize
             k == (a + 1) \div PageSize
  <1>1. PageEnd(t) = PageSize * q + PageSize
    BY PageWithin
  <1>2. /\ q \in Nat /\ (t % PageSize) \in 0..PageSize - 1
        /\ t = PageSize * q + (t % PageSize)
    BY Sizes, Division
  <1>3. /\ k \in Nat /\ a + 1 = PageSize * k + ((a + 1) % PageSize)
    <2>1. a + 1 \in Nat
      OBVIOUS
    <2> QED
      BY <2>1, Sizes, Division
  <1>4. (a + 1) % PageSize # 0
    <2> SUFFICES ASSUME (a + 1) % PageSize = 0 PROVE FALSE
      OBVIOUS
    <2> HIDE DEF q, k
    <2>1. PageSize \in Nat \ {0} /\ PageSize * q \in Nat /\ PageSize * k \in Nat
      BY <1>2, <1>3, Sizes
    <2>2. a + 1 = PageSize * k
      BY <1>3, <2>1
    <2>3. PageSize * q < PageSize * k /\ PageSize * k < PageSize * q + PageSize
      BY <1>1, <1>2, <2>1, <2>2
    <2>4. ~(k <= q)
      <3>1. k < q => PageSize * k + PageSize <= PageSize * q
        BY <1>2, <1>3, <2>1, Multiples
      <3> QED
        BY <1>2, <1>3, <2>1, <2>3, <3>1
    <2>5. PageSize * q + PageSize <= PageSize * k
      BY <1>2, <1>3, <2>1, <2>4, Multiples
    <2> QED
      BY <2>1, <2>3, <2>5
  <1> QED
    BY <1>4 DEF NextInPage

LEMMA WrapAgain ==
    ASSUME NEW i \in Slots, NEW n \in 0..Usable, NEW m \in 0..Usable, n + m <= Usable
    PROVE  Wrap(Wrap(i + n) + m) = Wrap(i + (n + m))
  BY Sizes DEF Slots, Wrap

LEMMA WrapNone ==
    ASSUME NEW i \in Slots PROVE Wrap(i) = i /\ Wrap(i + 0) = i
  BY Sizes DEF Slots, Wrap

(* A transfer that begins has programmed nothing yet. *)
LEMMA BeginPlaced ==
    ASSUME TypeInv, Placed, NEW slot \in Slots, NEW total \in 0..Usable,
           MayBeginAt(slot, total), UNCHANGED tailAddress
    PROVE  /\ Placed' /\ Limit' = Limit /\ Done' = Done
           /\ dma' = dma \/ Done = 0
  <1>1. CASE dma' = dma
    <2>1. Done' = Done /\ Limit' = Limit
      BY <1>1 DEF Done, Limit
    <2> QED
      BY <1>1, <2>1 DEF Placed, PageEnd
  <1>2. CASE dma.len = 0 /\ dma' # dma
    <2>1. PICK n \in 0..total :
             /\ tailAddress + n <= PageEnd(tailAddress)
             /\ dma' = [at |-> tailAddress, from |-> slot, left |-> n, len |-> n]
      BY <1>2 DEF MayBeginAt
    <2>2. Done = 0 /\ tailAddress \in Nat /\ n \in Int
      BY <1>2, <2>1, RingTyped, DoneRange, Sizes
    <2>3. Done' = 0
      <3>1. Done' = n - n
        BY <2>1 DEF Done
      <3> QED
        BY <2>2, <3>1
    <2>4. Limit' = tailAddress /\ Limit = tailAddress
      <3>1. Limit' = tailAddress + 0 /\ Limit = tailAddress + 0
        BY <2>2, <2>3 DEF Limit
      <3> QED
        BY <2>2, <3>1
    <2>5. /\ dma'.at = Limit'
          /\ tailAddress' + dma'.len <= PageEnd(tailAddress')
      BY <2>1, <2>4
    <2> QED
      BY <2>2, <2>3, <2>4, <2>5 DEF Placed
  <1> QED
    BY <1>1, <1>2 DEF MayBeginAt

LEMMA CalmFlash ==
    ASSUME TypeInv, FlashInv, Calm PROVE FlashInv'
  <1>1. PICK slot \in Slots, total \in 0..Usable : MayBeginAt(slot, total)
    BY DEF Calm
  <1>2. UNCHANGED <<flash, flashWriteBuffer, tailAddress, flashfsState, search>>
            /\ (pc' = "SEARCH" <=> pc = "SEARCH")
    BY DEF Calm, ringVars
  <1>3. Placed' /\ Limit' = Limit
    BY <1>1, <1>2, BeginPlaced DEF FlashInv
  <1>4. ShapeOK'
    BY <1>2, <1>3 DEF FlashInv, ShapeOK, SearchOK, ErasedFrom, WrittenBelow, Prefix
  <1>5. NothingGarbled'
    BY <1>2 DEF FlashInv, NothingGarbled
  <1> QED
    BY <1>2, <1>3, <1>4, <1>5 DEF FlashInv, Filled

(* What the DMA transfer programs next is not yet programmed, and the byte  *)
(* that it takes does not look erased.                                      *)
LEMMA NextByte ==
    ASSUME TypeInv, FlashInv, DmaByte
    PROVE  /\ dma.at = Limit /\ Limit \in Addresses /\ flash[Limit] = Erased
           /\ dma.from \in Slots
           /\ flashWriteBuffer[dma.from] \notin {Erased, Garbled}
           /\ flash' = [flash EXCEPT ![Limit] = flashWriteBuffer[dma.from]]
           /\ pc # "SEARCH"
  <1>1. dma.left > 0 /\ dma.at = Limit /\ Limit \in Addresses
    BY DoneRange DEF DmaByte, FlashInv, Placed
  <1>2. dma.from \in Slots /\ dma.left \in 0..Usable
    BY RingTyped
  <1>3. pc # "SEARCH"
    BY <1>1, <1>2, RingTyped, Halves, Sizes DEF PlaceOK
  <1>4. flash[Limit] = Erased
    <2>1. Limit >= Limit
      BY <1>1 DEF Addresses
    <2> QED
      BY <1>1, <1>3, <2>1 DEF FlashInv, ShapeOK, ErasedFrom
  <1>5. flashWriteBuffer[dma.from] \notin {Erased, Garbled}
    BY <1>2 DEF FlashInv, Filled
  <1>6. flash' = [flash EXCEPT ![Limit] = flashWriteBuffer[dma.from]]
    BY <1>1, <1>4 DEF DmaByte
  <1> QED
    BY <1>1, <1>2, <1>3, <1>4, <1>5, <1>6

LEMMA ByteMoves ==
    ASSUME TypeInv, DmaByte
    PROVE  /\ Done' = Done + 1 /\ Limit' = Limit + 1
           /\ dma'.len = dma.len /\ dma'.left = dma.left - 1
           /\ dma'.at = NextInPage(dma.at) /\ dma'.from = Wrap(dma.from + 1)
           /\ UNCHANGED <<ringVars, tailAddress, eraseVars, scanVars, pc>>
  <1>1. /\ dma'.len = dma.len /\ dma'.left = dma.left - 1
        /\ dma'.at = NextInPage(dma.at) /\ dma'.from = Wrap(dma.from + 1)
    BY RingTyped DEF DmaByte, Transfers
  <1>2. dma.len \in Int /\ dma.left \in Int /\ tailAddress \in Int /\ Done \in Int
    BY RingTyped, DoneRange, Sizes
  <1>3. UNCHANGED <<ringVars, tailAddress, eraseVars, scanVars, pc>>
    BY DEF DmaByte
  <1>4. Done' = Done + 1
    <2>1. Done' = dma.len - (dma.left - 1)
      BY <1>1 DEF Done
    <2> QED
      BY <1>2, <2>1 DEF Done
  <1>5. Limit' = Limit + 1
    <2>1. Limit' = tailAddress + (Done + 1)
      BY <1>3, <1>4 DEF Limit
    <2> QED
      BY <1>2, <2>1 DEF Limit
  <1> QED
    BY <1>1, <1>3, <1>4, <1>5

LEMMA ByteFlash ==
    ASSUME TypeInv, FlashInv, DmaByte PROVE FlashInv'
  <1>1. /\ dma.at = Limit /\ Limit \in Addresses /\ flash[Limit] = Erased
        /\ flashWriteBuffer[dma.from] \notin {Erased, Garbled}
        /\ flash' = [flash EXCEPT ![Limit] = flashWriteBuffer[dma.from]]
        /\ pc # "SEARCH"
    BY NextByte
  <1>2. /\ Done' = Done + 1 /\ Limit' = Limit + 1
        /\ dma'.len = dma.len /\ dma'.left = dma.left - 1
        /\ dma'.at = NextInPage(dma.at)
        /\ UNCHANGED <<flashWriteBuffer, tailAddress, flashfsState, pc>>
    BY ByteMoves DEF ringVars, eraseVars
  <1>3. flash \in [Addresses -> Int]
    BY RingTyped
  <1>4. /\ flash'[Limit] = flashWriteBuffer[dma.from]
        /\ \A a \in Addresses : a # Limit => flash'[a] = flash[a]
    BY <1>1, <1>3
  <1>5. flash'[Limit] \notin {Erased, Garbled}
    BY <1>1, <1>4
  <1>6. ShapeOK'
    <2>1. ErasedFrom(flash, Limit) /\ WrittenBelow(flash, Limit)
      BY <1>1 DEF FlashInv, ShapeOK
    <2>2. ErasedFrom(flash', Limit + 1) /\ WrittenBelow(flash', Limit + 1)
      BY <1>1, <1>4, <1>5, <2>1, ShapeGrows
    <2> QED
      BY <1>1, <1>2, <2>2 DEF ShapeOK, ErasedFrom, WrittenBelow
  <1>7. NothingGarbled'
    BY <1>4, <1>5 DEF FlashInv, NothingGarbled
  <1>8. Placed'
    <2> SUFFICES ASSUME dma'.left > 0
                 PROVE  /\ dma'.at = Limit'
                        /\ tailAddress' + dma'.len <= PageEnd(tailAddress')
      BY DEF Placed
    <2>1. /\ dma.left > 0 /\ dma.left - 1 > 0 /\ dma.len \in 0..Usable
          /\ dma.left \in 0..Usable
          /\ tailAddress \in 0..FlashSize /\ tailAddress + dma.len <= FlashSize
      BY <1>2, RingTyped DEF DmaByte
    <2>2. tailAddress + dma.len <= PageEnd(tailAddress)
      BY <2>1 DEF FlashInv, Placed
    <2>3. /\ Done \in 0..Usable /\ Done + 1 < dma.len
          /\ Limit = tailAddress + Done
      BY <2>1, DoneRange, Sizes DEF Done
    <2>4. tailAddress \in Nat /\ tailAddress < FlashSize
      BY <2>1, <2>3, Sizes
    <2>5. PageEnd(tailAddress) \in Nat
      BY <2>4, PageWithin
    <2>6. Limit \in Nat /\ tailAddress <= Limit /\ Limit + 1 < PageEnd(tailAddress)
      BY <2>1, <2>2, <2>3, <2>4, <2>5, Sizes
    <2>7. NextInPage(Limit) = Limit + 1
      BY <2>4, <2>6, NextIsNext
    <2>8. PageEnd(tailAddress') = PageEnd(tailAddress)
      BY <1>2
    <2> QED
      BY <1>1, <1>2, <2>2, <2>7, <2>8
  <1>9. Filled'
    BY <1>2 DEF FlashInv, Filled
  <1> QED
    BY <1>2, <1>6, <1>7, <1>8, <1>9 DEF FlashInv

LEMMA IdleTransfer == NoTransfer.len - NoTransfer.left = 0
  BY DEF NoTransfer

LEMMA CallbackMoves ==
    ASSUME TypeInv, WriteCallback
    PROVE  /\ Done = dma.len /\ Done' = 0 /\ Limit' = Limit /\ dma'.len = 0
           /\ dma'.left = 0 /\ pc # "SEARCH" /\ dma.len \in 0..Usable
           /\ Limit = tailAddress + dma.len
           /\ tailAddress' = tailAddress + dma.len
           /\ bufferTail' = Wrap(bufferTail + dma.len)
           /\ UNCHANGED <<flash, bufferHead, flashWriteBuffer, eraseVars, scanVars>>
  <1>1. /\ InFlight /\ dma.left = 0 /\ dma' = NoTransfer
        /\ tailAddress' = tailAddress + dma.len
        /\ bufferTail' = Wrap(bufferTail + dma.len)
        /\ UNCHANGED <<flash, bufferHead, flashWriteBuffer, eraseVars, scanVars>>
    BY DEF WriteCallback
  <1>2. dma.len \in 0..Usable /\ tailAddress \in 0..FlashSize
    BY RingTyped
  <1>3. Done = dma.len /\ Limit = tailAddress + dma.len
    BY <1>1, <1>2, Sizes DEF Done, Limit
  <1>4. Done' = 0
    BY <1>1, IdleTransfer DEF Done
  <1>5. Limit' = (tailAddress + dma.len) + 0
    BY <1>1, <1>4 DEF Limit
  <1>6. Limit' = Limit
    BY <1>2, <1>3, <1>5, Sizes
  <1>7. pc # "SEARCH"
    BY <1>1, Halves, Sizes DEF InFlight, PlaceOK
  <1> QED
    BY <1>1, <1>2, <1>3, <1>4, <1>6, <1>7, NoTransferTyped

LEMMA CallbackFlash ==
    ASSUME TypeInv, FlashInv, WriteCallback, pc' # "SEARCH" PROVE FlashInv'
  <1>1. /\ Limit' = Limit /\ dma'.left = 0 /\ pc # "SEARCH"
        /\ UNCHANGED <<flash, flashWriteBuffer, flashfsState>>
    BY CallbackMoves DEF eraseVars
  <1>2. ShapeOK'
    BY <1>1 DEF FlashInv, ShapeOK, ErasedFrom, WrittenBelow
  <1>3. Placed' /\ Filled'
    BY <1>1 DEF FlashInv, Placed, Filled
  <1> QED
    BY <1>1, <1>2, <1>3 DEF FlashInv, NothingGarbled

(* What a byte that is written does to the ring. *)
LEMMA WriteMoves ==
    ASSUME TypeInv, WriteByte
    PROVE  /\ bufferHead' = Wrap(bufferHead + 1) /\ bufferHead' \in Slots
           /\ bufferHead \in Slots /\ bufferTail \in Slots
           /\ flashWriteBuffer' = [flashWriteBuffer EXCEPT ![bufferHead] = sent + 1]
           /\ MayBegin(Buffered') /\ Buffered' \in 0..Usable
           /\ sent' = sent + 1 /\ sent \in Nat
           /\ UNCHANGED <<flash, bufferTail, tailAddress, flashfsState, search, pc>>
  <1>1. PICK endsString \in BOOLEAN : flashfsWriteByte(sent + 1, endsString)
    BY DEF WriteByte
  <1>2. /\ bufferHead' = Wrap(bufferHead + 1) /\ bufferHead' \in Slots
        /\ MayBegin(Used(bufferHead', bufferTail))
    BY <1>1, ByteMayBegin
  <1>3. UNCHANGED <<flash, bufferTail, tailAddress, flashfsState, search, pc>>
    BY DEF WriteByte, eraseVars, scanVars
  <1>4. bufferHead \in Slots /\ bufferTail \in Slots
    BY RingTyped
  <1>5. Used(bufferHead', bufferTail) = Buffered'
    BY <1>3 DEF Buffered, Used
  <1>6. Buffered' \in 0..Usable
    BY <1>2, <1>4, <1>5, UsedRange
  <1>7. MayBegin(Buffered')
    BY <1>2, <1>5
  <1> QED
    BY <1>1, <1>2, <1>3, <1>4, <1>6, <1>7, Halves DEF WriteByte, flashfsWriteByte, LogOK

LEMMA WriteFlash ==
    ASSUME TypeInv, FlashInv, WriteByte PROVE FlashInv'
  <1>1. /\ bufferHead \in Slots /\ bufferTail \in Slots
        /\ flashWriteBuffer' = [flashWriteBuffer EXCEPT ![bufferHead] = sent + 1]
        /\ MayBegin(Buffered') /\ Buffered' \in 0..Usable
        /\ sent \in Nat
        /\ UNCHANGED <<flash, tailAddress, flashfsState, search, pc>>
    BY WriteMoves
  <1>2. Placed' /\ Limit' = Limit
    BY <1>1, BeginPlaced DEF FlashInv, MayBegin
  <1>3. ShapeOK'
    BY <1>1, <1>2 DEF FlashInv, ShapeOK, SearchOK, ErasedFrom, WrittenBelow, Prefix
  <1>4. sent + 1 \notin {Erased, Garbled}
    BY <1>1 DEF Erased, Garbled
  <1>5. Filled'
    BY <1>1, <1>4, RingTyped DEF FlashInv, Filled
  <1> QED
    BY <1>1, <1>2, <1>3, <1>5 DEF FlashInv, NothingGarbled

LEMMA FreshFlash ==
    ASSUME FlashInv, Fresh PROVE FlashInv'
  <1>1. Done' = 0 /\ dma'.left = 0
    BY IdleTransfer, NoTransferTyped DEF Fresh, Done
  <1>2. Limit' = 0
    BY <1>1 DEF Fresh, Limit
  <1>3. ErasedFrom(flash', 0) /\ WrittenBelow(flash', 0)
    BY NothingWrittenBelow DEF Fresh, ErasedFrom
  <1>4. ShapeOK'
    BY <1>2, <1>3 DEF Fresh, ShapeOK, ErasedFrom, WrittenBelow
  <1>5. NothingGarbled'
    BY DEF Fresh, NothingGarbled, Erased, Garbled
  <1>6. Placed' /\ Filled'
    BY <1>1 DEF Fresh, FlashInv, Placed, Filled
  <1> QED
    BY <1>4, <1>5, <1>6 DEF Fresh, FlashInv

-----------------------------------------------------------------------------
(* The search. *)

LEMMA SearchTyped ==
    ASSUME TypeInv
    PROVE  /\ search \in [left : 0..Blocks, right : 0..Blocks, result : 0..Blocks]
           /\ search.left \in 0..Blocks /\ search.right \in 0..Blocks
           /\ search.result \in 0..Blocks /\ Blocks \in Nat
  BY Halves, BlocksFill DEF DeviceOK, FlashFsTypeOK

(* A block is found erased exactly where everything behind it is. *)
LEMMA BlockFound ==
    ASSUME NEW b \in 0..Blocks - 1, Prefix(flash)
    PROVE  /\ BlockErased(b) => ErasedFrom(flash, b * FreeBlockSize)
           /\ ~BlockErased(b) => flash[b * FreeBlockSize] # Erased
  <1>1. b * FreeBlockSize \in Nat /\ 0 \in 0..FreeBlockTestSize - 1
    BY FlashAssumption
  <1>2. ASSUME BlockErased(b) PROVE ErasedFrom(flash, b * FreeBlockSize)
    <2>1. flash[b * FreeBlockSize + 0] = Erased
      BY <1>1, <1>2 DEF BlockErased
    <2>2. b * FreeBlockSize + 0 = b * FreeBlockSize
      BY <1>1
    <2> QED
      BY <2>1, <2>2 DEF Prefix
  <1>3. ASSUME flash[b * FreeBlockSize] = Erased PROVE BlockErased(b)
    <2> SUFFICES ASSUME NEW i \in 0..FreeBlockTestSize - 1
                 PROVE  flash[b * FreeBlockSize + i] = Erased
      BY DEF BlockErased
    <2>1. i \in 0..FreeBlockSize - 1
      BY FlashAssumption
    <2>2. b * FreeBlockSize + i \in Addresses
      BY <2>1, BlockStart
    <2>3. b * FreeBlockSize + i >= b * FreeBlockSize
      BY <1>1, <2>1
    <2>4. ErasedFrom(flash, b * FreeBlockSize)
      BY <1>3 DEF Prefix
    <2> QED
      BY <2>2, <2>3, <2>4 DEF ErasedFrom
  <1> QED
    BY <1>2, <1>3

LEMMA SearchStep ==
    ASSUME TypeInv, FlashInv, SearchBlock
    PROVE  ShapeOK' /\ UNCHANGED <<chipVars, ringVars, tailAddress, eraseVars>>
  <1>1. /\ pc = "SEARCH" /\ pc' = "SEARCH" /\ search.left < search.right
        /\ UNCHANGED <<chipVars, ringVars, tailAddress, eraseVars>>
    BY DEF SearchBlock
  <1>2. SearchOK
    BY <1>1 DEF FlashInv, ShapeOK
  <1>3. /\ search \in [left : 0..Blocks, right : 0..Blocks, result : 0..Blocks]
        /\ search.left \in 0..Blocks /\ search.right \in 0..Blocks
        /\ search.result \in 0..Blocks /\ Blocks \in Nat
    BY SearchTyped
  <1> DEFINE mid == (search.left + search.right) \div 2
  <1>4. /\ mid \in 0..Blocks - 1 /\ search.left <= mid /\ mid + 1 <= search.right
    BY <1>1, <1>3
  <1>5. search' = IF BlockErased(mid)
                  THEN [search EXCEPT !.right = mid, !.result = mid]
                  ELSE [search EXCEPT !.left = mid + 1]
    BY DEF SearchBlock
  <1> HIDE DEF mid
  <1>6. flash' = flash /\ Prefix(flash)
    BY <1>1, <1>2 DEF chipVars, SearchOK
  <1>7. CASE BlockErased(mid)
    <2>1. search'.left = search.left /\ search'.right = mid /\ search'.result = mid
      BY <1>3, <1>5, <1>7
    <2>2. ErasedFrom(flash, mid * FreeBlockSize)
      BY <1>4, <1>6, <1>7, BlockFound
    <2>3. SearchOK'
      BY <1>2, <1>4, <1>6, <2>1, <2>2 DEF SearchOK, ErasedFrom, Prefix
    <2> QED
      BY <1>1, <2>3 DEF ShapeOK
  <1>8. CASE ~BlockErased(mid)
    <2>1. search'.left = mid + 1 /\ search'.right = search.right
              /\ search'.result = search.result
      BY <1>3, <1>5, <1>8
    <2>2. flash[mid * FreeBlockSize] # Erased
      BY <1>4, <1>6, <1>8, BlockFound
    <2>3. \A b \in 0..mid : flash[b * FreeBlockSize] # Erased
      <3> SUFFICES ASSUME NEW b \in 0..mid, flash[b * FreeBlockSize] = Erased
                   PROVE  FALSE
        OBVIOUS
      <3>1. b \in 0..Blocks - 1 /\ b * FreeBlockSize \in Nat /\ mid * FreeBlockSize \in Nat
        BY <1>4, <1>3, FlashAssumption
      <3>2. ErasedFrom(flash, b * FreeBlockSize)
        BY <1>6, <3>1 DEF Prefix
      <3>3. b * FreeBlockSize <= mid * FreeBlockSize
        BY <1>4, BlockOrder
      <3>4. mid * FreeBlockSize \in Addresses
        <4>1. 0 \in 0..FreeBlockSize - 1
          BY FlashAssumption
        <4> QED
          BY <1>4, <4>1, BlockStart
      <3> QED
        BY <2>2, <3>1, <3>2, <3>3, <3>4 DEF ErasedFrom
    <2>4. 0..(mid + 1) - 1 = 0..mid
      BY <1>3, <1>4
    <2>5. /\ search'.result = search'.right /\ search'.left <= search'.right
      BY <1>2, <1>4, <2>1 DEF SearchOK
    <2>6. ErasedFrom(flash', search'.right * FreeBlockSize) /\ Prefix(flash')
      BY <1>2, <1>6, <2>1 DEF SearchOK
    <2>7. \A b \in 0..search'.left - 1 : flash'[b * FreeBlockSize] # Erased
      BY <1>6, <2>1, <2>3, <2>4
    <2>8. SearchOK'
      BY <2>5, <2>6, <2>7 DEF SearchOK, ErasedFrom, Prefix
    <2> QED
      BY <1>1, <2>8 DEF ShapeOK
  <1> QED
    BY <1>1, <1>7, <1>8

(* The search ends where the erased blocks begin. *)
LEMMA SearchDone ==
    ASSUME TypeInv, FlashInv, SearchEnds
    PROVE  /\ ErasedFrom(flash, tailAddress') /\ WrittenBelow(flash, tailAddress')
           /\ tailAddress' = search.left * FreeBlockSize
           /\ \A b \in 0..search.left - 1 : flash[b * FreeBlockSize] # Erased
           /\ search.left \in 0..Blocks
  <1>1. pc = "SEARCH" /\ search.left >= search.right
            /\ tailAddress' = search.result * FreeBlockSize
    BY DEF SearchEnds
  <1>2. SearchOK
    BY <1>1 DEF FlashInv, ShapeOK
  <1>3. /\ search.left \in 0..Blocks /\ search.right \in 0..Blocks /\ Blocks \in Nat
    BY SearchTyped
  <1>4. search.left = search.right /\ search.result = search.left
    BY <1>1, <1>2, <1>3 DEF SearchOK
  <1>5. tailAddress' = search.left * FreeBlockSize
    BY <1>1, <1>4
  <1>6. ErasedFrom(flash, tailAddress')
    BY <1>2, <1>4, <1>5 DEF SearchOK
  <1>7. \A b \in 0..search.left - 1 : flash[b * FreeBlockSize] # Erased
    BY <1>2 DEF SearchOK
  <1>8. WrittenBelow(flash, search.left * FreeBlockSize)
    <2> SUFFICES ASSUME NEW b \in 0..Blocks - 1,
                        b * FreeBlockSize < search.left * FreeBlockSize
                 PROVE  flash[b * FreeBlockSize] # Erased
      BY DEF WrittenBelow
    <2>1. b * FreeBlockSize \in Nat /\ search.left * FreeBlockSize \in Nat
      BY <1>3, FlashAssumption
    <2>2. search.left <= b => search.left * FreeBlockSize <= b * FreeBlockSize
      BY <1>3, BlockOrder
    <2>3. b < search.left
      BY <1>3, <2>1, <2>2
    <2> QED
      BY <1>3, <1>7, <2>3
  <1> QED
    BY <1>3, <1>5, <1>6, <1>7, <1>8

LEMMA StartUpFlash ==
    ASSUME TypeInv, FlashInv, StartUp PROVE FlashInv'
  <1>1. CASE SearchBlock
    <2>1. ShapeOK' /\ UNCHANGED <<chipVars, ringVars, tailAddress, eraseVars>>
      BY <1>1, SearchStep
    <2> QED
      BY <2>1 DEF FlashInv, NothingGarbled, Placed, Filled, Limit, Done, chipVars,
          ringVars, eraseVars, PageEnd
  <1>2. CASE SearchEnds
    <2>1. pc = "SEARCH" /\ pc' = "IDLE"
              /\ UNCHANGED <<flash, dma, bufferHead, bufferTail, flashWriteBuffer,
                             flashfsState>>
      BY <1>2 DEF SearchEnds, chipVars, ringVars, eraseVars
    <2>2. dma.len = 0 /\ dma.left = 0 /\ Done = 0
      <3>1. dma.len = 0 /\ dma.left \in 0..Usable /\ dma.left <= dma.len
        BY <2>1, Halves, RingTyped DEF PlaceOK
      <3> QED
        BY <3>1, DoneRange, Sizes
    <2>3. Done' = 0
      BY <2>1, <2>2 DEF Done
    <2>4. Limit' = tailAddress'
      <3>1. tailAddress' \in Nat
        BY <1>2, SearchTyped, FlashAssumption DEF SearchEnds
      <3>2. Limit' = tailAddress' + 0
        BY <2>3 DEF Limit
      <3>3. \A t \in Nat : t + 0 = t
        OBVIOUS
      <3> QED
        BY <3>1, <3>2, <3>3
    <2>5. ShapeOK'
      <3>1. ErasedFrom(flash, tailAddress') /\ WrittenBelow(flash, tailAddress')
        BY <1>2, SearchDone
      <3> QED
        BY <2>1, <2>4, <3>1 DEF ShapeOK, ErasedFrom, WrittenBelow
    <2>6. Placed'
      BY <2>1, <2>2 DEF Placed
    <2>7. Filled'
      BY <2>1 DEF FlashInv, Filled
    <2> QED
      BY <2>1, <2>5, <2>6, <2>7 DEF FlashInv, NothingGarbled
  <1> QED
    BY <1>1, <1>2 DEF StartUp

(* A power cycle loses the tail, but not the shape. *)
LEMMA WholeIsOpen ==
    ASSUME NEW f
    PROVE  ErasedFrom(f, Blocks * FreeBlockSize)
  BY BlocksFill, Sizes DEF ErasedFrom, Addresses

LEMMA PowerFlash ==
    ASSUME TypeInv, FlashInv, PowerCycle PROVE FlashInv'
  <1>1. Placed' /\ Filled'
    BY NoTransferTyped
       DEF PowerCycle, flashfsInit, Placed, Filled, Old, Erased, Garbled
  <1>2. /\ pc' = "SEARCH" /\ flashfsState' = "IDLE" /\ search' = WholeVolume
        /\ flash' = [a \in Addresses |->
                        IF flash[a] \in {Erased, Garbled} THEN flash[a] ELSE Old]
    BY DEF PowerCycle, flashfsInit
  <1>3. \A a \in Addresses : /\ flash'[a] = Erased <=> flash[a] = Erased
                             /\ flash[a] # Garbled => flash'[a] # Garbled
    BY <1>2 DEF Erased, Garbled, Old
  <1>4. Prefix(flash)
    <2>1. CASE pc = "SEARCH"
      BY <2>1 DEF FlashInv, ShapeOK, SearchOK
    <2>2. CASE pc # "SEARCH"
      <3>1. Limit \in Nat
        BY DoneRange, Sizes
      <3> QED
        BY <2>2, <3>1, ShapeIsPrefix DEF FlashInv, ShapeOK
    <2> QED
      BY <2>1, <2>2
  <1>5. Prefix(flash')
    <2>1. \A b \in 0..Blocks - 1 : b * FreeBlockSize \in Addresses
      <3>1. 0 \in 0..FreeBlockSize - 1
        BY FlashAssumption
      <3> QED
        BY <3>1, BlockStart
    <2> QED
      BY <1>3, <1>4, <2>1 DEF Prefix, ErasedFrom
  <1>6. SearchOK'
    <2>1. search'.left = 0 /\ search'.right = Blocks /\ search'.result = Blocks
      BY <1>2 DEF WholeVolume
    <2>2. ErasedFrom(flash', Blocks * FreeBlockSize)
      BY WholeIsOpen
    <2>3. 0..0 - 1 = {} /\ 0 <= Blocks
      BY BlocksFill
    <2> QED
      BY <1>5, <2>1, <2>2, <2>3 DEF SearchOK, ErasedFrom, Prefix, Blocks
  <1>7. NothingGarbled'
    BY <1>3 DEF FlashInv, NothingGarbled
  <1> QED
    BY <1>1, <1>2, <1>6, <1>7 DEF FlashInv, ShapeOK

LEMMA InitFlash == LogInit => FlashInv
  <1> SUFFICES ASSUME LogInit PROVE FlashInv
    OBVIOUS
  <1>1. Placed /\ Filled
    BY NoTransferTyped
       DEF LogInit, FlashFsInit, Placed, Filled, Old, Erased, Garbled
  <1>2. /\ pc = "SEARCH" /\ flashfsState = "IDLE" /\ search = WholeVolume
        /\ flash = [a \in Addresses |-> Erased]
    BY DEF LogInit, FlashFsInit
  <1>3. Prefix(flash) /\ NothingGarbled
    BY <1>2 DEF Prefix, ErasedFrom, NothingGarbled, Erased, Garbled
  <1>4. SearchOK
    <2>1. search.left = 0 /\ search.right = Blocks /\ search.result = Blocks
      BY <1>2 DEF WholeVolume
    <2>2. ErasedFrom(flash, Blocks * FreeBlockSize)
      BY WholeIsOpen
    <2>3. 0..0 - 1 = {} /\ 0 <= Blocks
      BY BlocksFill
    <2> QED
      BY <1>3, <2>1, <2>2, <2>3 DEF SearchOK
  <1> QED
    BY <1>1, <1>2, <1>3, <1>4 DEF FlashInv, ShapeOK

LEMMA FlashKept ==
    ASSUME WholeChip, TypeInv, FlashInv, [LogNext]_logSystemVars
    PROVE  FlashInv'
  <1>1. \/ Calm \/ ByteStep \/ CallbackStep \/ WriteByte
        \/ Fresh \/ (StartUp /\ UNCHANGED Frame) \/ PowerCycle
    BY ChipSteps DEF FlashInv
  <1> QED
    BY <1>1, CalmFlash, ByteFlash, CallbackFlash, WriteFlash, FreshFlash,
       StartUpFlash, PowerFlash DEF ByteStep, CallbackStep

-----------------------------------------------------------------------------
(* The order of the log. *)

(* What the transfer has programmed is what the ring still holds. *)
Programmed ==
    Followed => \A i \in 0..Done - 1 :
        flash[tailAddress + i] = flashWriteBuffer[Wrap(bufferTail + i)]

OrderInv ==
    /\ Programmed
    /\ LogInOrder
    /\ pc = "SEARCH" => first > sent

(* InPlace, with the state it depends on as its parameters: byte "reached"  *)
(* of the stream is the last one before the tail.                           *)
PlaceIn(f, ring, tail, slot, reached, n) ==
    IF reached - n < 0 THEN ring[Wrap(slot - (reached - n) - 1)] = n
    ELSE tail - 1 - (reached - n) \in Addresses /\ f[tail - 1 - (reached - n)] = n

LEMMA PlaceIs ==
    ASSUME NEW n
    PROVE  /\ InPlace(n) <=> PlaceIn(flash, flashWriteBuffer, tailAddress,
                                     bufferTail, sent - Buffered, n)
           /\ InPlace(n)' <=> PlaceIn(flash', flashWriteBuffer', tailAddress',
                                      bufferTail', sent' - Buffered', n)
  BY DEF InPlace, PlaceIn, Addresses, Wrap, Buffered, Used

(* The slot of the head is the first one that holds nothing. *)
LEMMA HeadSlot ==
    ASSUME NEW i \in Slots, NEW j \in Slots
    PROVE  /\ Wrap(j + Used(i, j)) = i
           /\ \A k \in 0..Used(i, j) - 1 : Wrap(j + k) # i
  BY Sizes DEF Slots, Used, Wrap

(* A transfer that is over moves the tail, and nothing is lost or doubled.  *)
LEMMA PlaceMoves ==
    ASSUME NEW f, NEW ring, NEW tail \in Nat, NEW slot \in Slots, NEW reached \in Int,
           NEW m \in 0..Usable, NEW k \in 0..m, NEW n \in Int, n <= reached + m,
           tail + k <= FlashSize,
           \A i \in 0..k - 1 : f[tail + i] = ring[Wrap(slot + i)],
           PlaceIn(f, ring, tail, slot, reached, n)
    PROVE  PlaceIn(f, ring, tail + k, Wrap(slot + k), reached + k, n)
  <1>0. k \in Int /\ m \in Int /\ slot \in Int
    BY Sizes DEF Slots
  <1>1. CASE reached - n >= 0
    <2>1. ~(reached - n < 0) /\ ~((reached + k) - n < 0)
      BY <1>0, <1>1
    <2>2. (tail + k) - 1 - ((reached + k) - n) = tail - 1 - (reached - n)
      BY <1>0
    <2> QED
      BY <2>1, <2>2 DEF PlaceIn
  <1>2. CASE reached - n < 0 /\ (reached + k) - n >= 0
    <2> DEFINE i == n - reached - 1
    <2>1. i \in 0..k - 1 /\ i \in Int
      BY <1>0, <1>2
    <2>2. slot - (reached - n) - 1 = slot + i
      BY <1>0
    <2>3. (tail + k) - 1 - ((reached + k) - n) = tail + i
      BY <1>0
    <2>4. tail + i \in Addresses
      BY <1>0, <2>1, Sizes DEF Addresses
    <2> HIDE DEF i
    <2>5. ring[Wrap(slot + i)] = n
      BY <1>2, <2>2 DEF PlaceIn
    <2>6. f[tail + i] = n
      BY <2>1, <2>5
    <2>7. ~((reached + k) - n < 0)
      BY <1>0, <1>2
    <2> QED
      BY <2>3, <2>4, <2>6, <2>7 DEF PlaceIn
  <1>3. CASE (reached + k) - n < 0
    <2> DEFINE j == n - (reached + k) - 1
    <2>1. j \in 0..Usable /\ k \in 0..Usable /\ k + j <= Usable
      BY <1>0, <1>3, Sizes
    <2>2. slot - (reached - n) - 1 = slot + (k + j)
      BY <1>0
    <2>3. Wrap(slot + k) \in Slots
      BY <2>1, Sizes, WrapSlot
    <2>4. Wrap(slot + k) - ((reached + k) - n) - 1 = Wrap(slot + k) + j
      <3>1. Wrap(slot + k) \in Int
        BY <2>3 DEF Slots
      <3> QED
        BY <1>0, <3>1
    <2> HIDE DEF j
    <2>5. Wrap(Wrap(slot + k) + j) = Wrap(slot + (k + j))
      BY <2>1, WrapAgain
    <2>6. reached - n < 0
      BY <1>0, <1>3
    <2>7. ring[Wrap(slot + (k + j))] = n
      BY <2>2, <2>6 DEF PlaceIn
    <2> QED
      BY <1>3, <2>4, <2>5, <2>7 DEF PlaceIn
  <1> QED
    BY <1>0, <1>1, <1>2, <1>3

(* The byte behind the others takes the slot of the head. *)
LEMMA PlaceAdded ==
    ASSUME NEW f, NEW ring, NEW ring2, NEW tail, NEW slot \in Slots, NEW head \in Slots,
           NEW last \in Int, NEW n \in Int, Used(head, slot) < Usable,
           n <= last + 1,
           ring2[head] = last + 1,
           \A s \in Slots : s # head => ring2[s] = ring[s],
           n <= last => PlaceIn(f, ring, tail, slot, last - Used(head, slot), n)
    PROVE  PlaceIn(f, ring2, tail, slot, last - Used(head, slot), n)
  <1> DEFINE u == Used(head, slot)
             r == last - u
  <1>1. u \in 0..Usable /\ slot \in Int /\ u \in Int /\ r \in Int
    BY UsedRange, Sizes DEF Slots
  <1>2. CASE n = last + 1
    <2>1. r - n < 0 /\ slot - (r - n) - 1 = slot + u
      BY <1>1, <1>2
    <2>2. Wrap(slot + u) = head
      BY HeadSlot
    <2> HIDE DEF u, r
    <2> QED
      BY <1>2, <2>1, <2>2 DEF PlaceIn, r, u
  <1>3. CASE n <= last /\ r - n < 0
    <2> DEFINE i == n - r - 1
    <2>1. i \in 0..u - 1 /\ i \in 0..Usable
      BY <1>1, <1>3, Sizes
    <2>2. slot - (r - n) - 1 = slot + i
      BY <1>1
    <2>3. Wrap(slot + i) # head /\ Wrap(slot + i) \in Slots
      BY <2>1, HeadSlot, WrapSlot, Sizes
    <2> HIDE DEF i, u, r
    <2>4. PlaceIn(f, ring, tail, slot, r, n)
      BY <1>3 DEF r, u
    <2>5. ring[Wrap(slot + i)] = n
      BY <1>3, <2>2, <2>4 DEF PlaceIn
    <2>6. ring2[Wrap(slot + i)] = n
      BY <2>3, <2>5
    <2>7. PlaceIn(f, ring2, tail, slot, r, n)
      BY <1>3, <2>2, <2>6 DEF PlaceIn
    <2> QED
      BY <2>7 DEF r, u
  <1>4. CASE n <= last /\ ~(r - n < 0)
    <2> HIDE DEF u, r
    <2>1. PlaceIn(f, ring, tail, slot, r, n)
      BY <1>4 DEF r, u
    <2>2. PlaceIn(f, ring2, tail, slot, r, n)
      BY <1>4, <2>1 DEF PlaceIn
    <2> QED
      BY <2>2 DEF r, u
  <1> QED
    BY <1>2, <1>3, <1>4

-----------------------------------------------------------------------------
(* Every kind of step keeps the order. *)

LEMMA TraceTyped ==
    ASSUME TypeInv
    PROVE  sent \in Nat /\ first \in Nat /\ tailAddress \in Nat
               /\ bufferTail \in Slots /\ Buffered \in 0..Usable
               /\ sent - Buffered \in Int
  <1>1. sent \in Nat /\ first \in Nat
    BY Halves DEF LogOK
  <1>2. tailAddress \in Nat /\ bufferTail \in Slots /\ Buffered \in 0..Usable
    BY RingTyped, RoomRange, Sizes
  <1> QED
    BY <1>1, <1>2, Sizes

LEMMA EmptyTrace ==
    ASSUME NEW a \in Int, NEW b \in Int, a > b PROVE a..b = {}
  OBVIOUS

LEMMA SteadyOrder ==
    ASSUME TypeInv, FlashInv, OrderInv, Steady PROVE OrderInv'
  <1>1. /\ MayBegin(Buffered) /\ Buffered \in 0..Usable /\ Buffered' = Buffered
        /\ UNCHANGED <<flash, bufferHead, bufferTail, flashWriteBuffer, tailAddress>>
        /\ (pc' = "SEARCH" <=> pc = "SEARCH")
        /\ sent' = sent /\ (UNCHANGED <<first, tracked>> \/ first' = sent + 1)
        /\ (Followed' => Followed \/ dma'.len = 0)
    BY RoomRange, SameRing DEF Steady, ringVars, traceVars
  <1>2. Done' = Done /\ (dma' = dma \/ Done = 0)
    BY <1>1, RingTyped, BeginPlaced DEF FlashInv, MayBegin
  <1>3. Programmed'
    <2>1. CASE Done = 0
      <3>1. Done' = 0 /\ 0..0 - 1 = {}
        BY <1>2, <2>1
      <3> QED
        BY <3>1 DEF Programmed
    <2>2. CASE Done # 0
      <3>1. dma' = dma /\ dma.len # 0
        BY <1>2, <2>2, DoneRange
      <3>2. Followed' => Followed
        BY <1>1, <3>1
      <3>3. \A i : Wrap(bufferTail' + i) = Wrap(bufferTail + i)
        BY <1>1
      <3> QED
        BY <1>1, <1>2, <3>2, <3>3 DEF OrderInv, Programmed
    <2> QED
      BY <2>1, <2>2
  <1>4. CASE UNCHANGED <<first, tracked>>
    <2>1. LogInOrder'
      <3> SUFFICES ASSUME tracked', NEW n \in first'..sent' PROVE InPlace(n)'
        BY DEF LogInOrder
      <3>1. InPlace(n)
        BY <1>1, <1>4 DEF OrderInv, LogInOrder
      <3>2. sent' - Buffered' = sent - Buffered
        BY <1>1
      <3> QED
        BY <1>1, <3>1, <3>2, PlaceIs
    <2>2. pc' = "SEARCH" => first' > sent'
      BY <1>1, <1>4 DEF OrderInv
    <2> QED
      BY <1>3, <2>1, <2>2 DEF OrderInv
  <1>5. CASE first' = sent + 1
    <2>1. sent \in Int /\ sent + 1 > sent /\ sent + 1 \in Int
      BY TraceTyped
    <2>2. first'..sent' = {}
      <3>1. (sent + 1)..sent = {}
        BY <2>1, EmptyTrace
      <3> QED
        BY <1>1, <1>5, <3>1
    <2>3. LogInOrder'
      BY <2>2 DEF LogInOrder
    <2>4. first' > sent'
      BY <1>1, <1>5, <2>1
    <2> QED
      BY <1>3, <2>3, <2>4 DEF OrderInv
  <1> QED
    BY <1>1, <1>4, <1>5

LEMMA ByteOrder ==
    ASSUME TypeInv, TransferInv, FlashInv, OrderInv, ByteStep PROVE OrderInv'
  <1>1. /\ dma.at = Limit /\ Limit \in Addresses
        /\ dma.from = Wrap(bufferTail + Done)
        /\ flash' = [flash EXCEPT ![Limit] = flashWriteBuffer[dma.from]]
    BY NextByte DEF ByteStep, DmaByte, TransferInv, ReadsOK
  <1>2. /\ Done' = Done + 1
        /\ UNCHANGED <<bufferHead, bufferTail, flashWriteBuffer, tailAddress, pc>>
    BY ByteMoves DEF ByteStep, ringVars
  <1>3. /\ UNCHANGED <<sent, first, tracked, blackboxState, delayOver>>
        /\ (Followed' <=> Followed)
    BY DEF ByteStep, Frame, logVars, traceVars, Followed
  <1>4. Buffered' = Buffered
    BY <1>2 DEF Buffered, Used
  <1>5. /\ flash'[Limit] = flashWriteBuffer[Wrap(bufferTail + Done)]
        /\ \A a \in Addresses : a # Limit => flash'[a] = flash[a]
    BY <1>1, RingTyped
  <1>6. /\ tailAddress \in Nat /\ Done \in Nat /\ Limit = tailAddress + Done
        /\ Limit \in Nat /\ Limit < FlashSize
    BY <1>1, TraceTyped, DoneRange, Sizes DEF Addresses
  <1>7. Programmed'
    <2> SUFFICES ASSUME Followed, NEW i \in 0..Done
                 PROVE  flash'[tailAddress + i] = flashWriteBuffer[Wrap(bufferTail + i)]
      <3>1. 0..(Done + 1) - 1 = 0..Done
        BY <1>6
      <3>2. \A i : Wrap(bufferTail' + i) = Wrap(bufferTail + i)
        BY <1>2
      <3> QED
        BY <1>2, <1>3, <3>1, <3>2 DEF Programmed
    <2>1. CASE i = Done
      BY <1>5, <1>6, <2>1
    <2>2. CASE i # Done
      <3>1. i \in 0..Done - 1 /\ tailAddress + i # Limit /\ tailAddress + i \in Addresses
        BY <1>6, <2>2, Sizes DEF Addresses
      <3>2. flash[tailAddress + i] = flashWriteBuffer[Wrap(bufferTail + i)]
        BY <3>1 DEF OrderInv, Programmed
      <3> QED
        BY <1>5, <3>1, <3>2
    <2> QED
      BY <2>1, <2>2
  <1>8. LogInOrder'
    <2> SUFFICES ASSUME tracked', NEW n \in first'..sent' PROVE InPlace(n)'
      BY DEF LogInOrder
    <2>1. InPlace(n) /\ n \in Int
      BY <1>3, TraceTyped DEF OrderInv, LogInOrder
    <2> DEFINE r == sent - Buffered
    <2>2. sent' - Buffered' = r
      BY <1>3, <1>4
    <2>3. r \in Int
      BY TraceTyped
    <2>4. PlaceIn(flash, flashWriteBuffer, tailAddress, bufferTail, r, n)
      BY <2>1, PlaceIs
    <2> HIDE DEF r
    <2>5. PlaceIn(flash', flashWriteBuffer, tailAddress, bufferTail, r, n)
      <3>1. CASE r - n < 0
        BY <2>4, <3>1 DEF PlaceIn
      <3>2. CASE ~(r - n < 0)
        <4>1. tailAddress - 1 - (r - n) < tailAddress
          BY <1>6, <2>1, <2>3, <3>2
        <4>2. tailAddress - 1 - (r - n) # Limit
          BY <1>6, <2>1, <2>3, <4>1
        <4> QED
          BY <1>5, <2>4, <3>2, <4>2 DEF PlaceIn
      <3> QED
        BY <3>1, <3>2
    <2> QED
      BY <1>2, <2>2, <2>5, PlaceIs
  <1> QED
    BY <1>2, <1>3, <1>7, <1>8 DEF OrderInv

LEMMA CallbackOrder ==
    ASSUME TypeInv, TransferInv, FlashInv, OrderInv, CallbackStep PROVE OrderInv'
  <1>1. /\ Done = dma.len /\ Done' = 0 /\ dma.len \in 0..Usable
        /\ tailAddress' = tailAddress + dma.len
        /\ bufferTail' = Wrap(bufferTail + dma.len)
        /\ UNCHANGED <<flash, bufferHead, flashWriteBuffer>>
    BY CallbackMoves DEF CallbackStep
  <1>2. /\ UNCHANGED <<sent, first, tracked>> /\ pc' # "SEARCH"
    BY DEF CallbackStep, traceVars
  <1>3. Programmed'
    <2>1. 0..0 - 1 = {}
      OBVIOUS
    <2> QED
      BY <1>1, <2>1 DEF Programmed
  <1>4. LogInOrder'
    <2> SUFFICES ASSUME tracked, NEW n \in first..sent PROVE InPlace(n)'
      BY <1>2 DEF LogInOrder
    <2>1. /\ tailAddress \in Nat /\ bufferTail \in Slots /\ sent \in Nat
          /\ Buffered \in 0..Usable /\ sent - Buffered \in Int /\ n \in Int /\ n <= sent
      BY TraceTyped
    <2>2. dma.len <= Buffered
      BY DEF TransferInv, FitsOK, Followed
    <2>3. dma.len \in 0..Buffered /\ tailAddress + dma.len <= FlashSize
      BY <1>1, <2>1, <2>2, RingTyped, Sizes
    <2>4. \A i \in 0..dma.len - 1 :
             flash[tailAddress + i] = flashWriteBuffer[Wrap(bufferTail + i)]
      BY <1>1 DEF OrderInv, Programmed, Followed
    <2>5. PlaceIn(flash, flashWriteBuffer, tailAddress, bufferTail, sent - Buffered, n)
      BY PlaceIs DEF OrderInv, LogInOrder
    <2>6. n <= (sent - Buffered) + Buffered
      BY <2>1, Sizes
    <2>7. PlaceIn(flash, flashWriteBuffer, tailAddress + dma.len,
                  Wrap(bufferTail + dma.len), (sent - Buffered) + dma.len, n)
      BY <2>1, <2>3, <2>4, <2>5, <2>6, PlaceMoves
    <2>8. sent' - Buffered' = (sent - Buffered) + dma.len
      <3>1. Buffered' = Buffered - dma.len
        BY <2>2, CallbackRoom DEF CallbackStep
      <3>2. sent - (Buffered - dma.len) = (sent - Buffered) + dma.len
        BY <1>1, <2>1, Sizes
      <3> QED
        BY <1>2, <3>1, <3>2
    <2> QED
      BY <1>1, <2>7, <2>8, PlaceIs
  <1> QED
    BY <1>2, <1>3, <1>4 DEF OrderInv

LEMMA WriteFollowed ==
    ASSUME TypeInv, HeaderInv, WriteByte, Followed'
    PROVE  tracked /\ Buffered < Usable
  <1>1. toWrite \in Nat /\ toWrite > 0
            /\ UNCHANGED <<blackboxState, delayOver>>
            /\ tracked' = (tracked /\ Buffered < Usable)
    BY Halves DEF WriteByte, LogOK, logVars, Buffered
  <1>2. CASE blackboxState = "SEND_HEADER"
    <2>1. toWrite <= FreeSpace
      BY <1>2 DEF HeaderInv, RoomOK, HeaderStates
    <2>2. tracked
      <3>1. headerIndex \in Nat /\ headerIndex # 0
        BY <1>1, <1>2, Halves DEF HeaderInv, BegunOK, LogOK
      <3> QED
        BY <1>2, <3>1 DEF HeaderInv, BegunOK
    <2> QED
      BY <1>1, <2>1, <2>2, RoomRange, Sizes
  <1>3. CASE blackboxState # "SEND_HEADER"
    BY <1>1, <1>3 DEF Followed
  <1> QED
    BY <1>2, <1>3

LEMMA WriteOrder ==
    ASSUME TypeInv, HeaderInv, TransferInv, FlashInv, OrderInv, WriteByte
    PROVE  OrderInv'
  <1>1. /\ bufferHead' = Wrap(bufferHead + 1)
        /\ bufferHead \in Slots /\ bufferTail \in Slots
        /\ flashWriteBuffer' = [flashWriteBuffer EXCEPT ![bufferHead] = sent + 1]
        /\ MayBegin(Buffered') /\ Buffered' \in 0..Usable
        /\ sent' = sent + 1 /\ sent \in Nat
        /\ UNCHANGED <<flash, bufferTail, tailAddress, pc>>
    BY WriteMoves
  <1>2. Done' = Done /\ (dma' = dma \/ Done = 0)
    BY <1>1, BeginPlaced DEF FlashInv, MayBegin
  <1>3. /\ flashWriteBuffer'[bufferHead] = sent + 1
        /\ \A s \in Slots : s # bufferHead => flashWriteBuffer'[s] = flashWriteBuffer[s]
    BY <1>1, RingTyped
  <1>4. first' = first /\ (tracked' => Followed')
    BY DEF WriteByte, Followed
  <1>5. Programmed'
    <2> SUFFICES ASSUME Followed', NEW i \in 0..Done - 1
                 PROVE  flash[tailAddress + i] = flashWriteBuffer'[Wrap(bufferTail + i)]
      <3>1. \A i : Wrap(bufferTail' + i) = Wrap(bufferTail + i)
        BY <1>1
      <3> QED
        BY <1>1, <1>2, <3>1 DEF Programmed
    <2>1. Followed
      BY WriteFollowed DEF Followed
    <2>2. flash[tailAddress + i] = flashWriteBuffer[Wrap(bufferTail + i)]
      BY <2>1 DEF OrderInv, Programmed
    <2>3. dma.len <= Buffered
      BY <2>1 DEF TransferInv, FitsOK
    <2>4. i \in 0..Used(bufferHead, bufferTail) - 1 /\ i \in 0..BufferSize
      <3>1. /\ Done <= dma.len /\ Done \in 0..Usable /\ dma.len \in 0..Usable
            /\ Buffered \in 0..Usable
        BY RingTyped, DoneRange, RoomRange
      <3>2. i \in 0..Buffered - 1
        BY <2>3, <3>1, Sizes
      <3> QED
        BY <3>1, <3>2, Sizes DEF Buffered
    <2>5. Wrap(bufferTail + i) # bufferHead /\ Wrap(bufferTail + i) \in Slots
      BY <1>1, <2>4, HeadSlot, WrapSlot
    <2> QED
      BY <1>3, <2>2, <2>5
  <1>6. LogInOrder'
    <2> SUFFICES ASSUME tracked', NEW n \in first'..sent' PROVE InPlace(n)'
      BY DEF LogInOrder
    <2>1. tracked /\ Buffered < Usable
      BY <1>4, WriteFollowed
    <2>2. n \in Int /\ first <= n /\ n <= sent + 1
      BY <1>1, <1>4, TraceTyped
    <2>3. n <= sent => InPlace(n)
      BY <1>1, <2>1, <2>2, TraceTyped DEF OrderInv, LogInOrder
    <2> DEFINE u == Used(bufferHead, bufferTail)
    <2>4. Buffered = u /\ u < Usable
      BY <2>1 DEF Buffered
    <2>5. n <= sent =>
             PlaceIn(flash, flashWriteBuffer, tailAddress, bufferTail, sent - u, n)
      BY <2>3, <2>4, PlaceIs
    <2>6. PlaceIn(flash, flashWriteBuffer', tailAddress, bufferTail, sent - u, n)
      <3>1. sent \in Int
        BY <1>1
      <3> QED
        BY <1>1, <1>3, <2>2, <2>4, <2>5, <3>1, PlaceAdded
    <2>7. sent' - Buffered' = sent - u
      <3>1. Buffered' = u + 1
        <4>1. Used(Wrap(bufferHead + 1), bufferTail) = u + 1
          BY <1>1, <2>4, OneMoreUsed
        <4> QED
          BY <1>1, <4>1 DEF Buffered, Used
      <3>2. (sent + 1) - (u + 1) = sent - u
        BY <1>1, <2>4, RoomRange, Sizes
      <3> QED
        BY <1>1, <3>1, <3>2
    <2> QED
      BY <1>1, <2>6, <2>7, PlaceIs
  <1>7. pc' # "SEARCH"
    <2>1. toWrite > 0 /\ toWrite \in Nat
      BY Halves DEF WriteByte, LogOK
    <2> QED
      BY <1>1, <2>1, Halves DEF PlaceOK
  <1> QED
    BY <1>5, <1>6, <1>7 DEF OrderInv

(* A stream that begins anew has no byte yet. *)
LEMMA NewOrder ==
    ASSUME sent' = 0, first' = 1, Done' = 0 PROVE OrderInv'
  <1>1. 0..0 - 1 = {} /\ 1..0 = {} /\ 1 > 0
    OBVIOUS
  <1>2. Programmed' /\ LogInOrder'
    BY <1>1 DEF Programmed, LogInOrder
  <1> QED
    BY <1>1, <1>2 DEF OrderInv

LEMMA InitOrder == LogInit => OrderInv
  <1> SUFFICES ASSUME LogInit PROVE OrderInv
    OBVIOUS
  <1>1. sent = 0 /\ first = 1 /\ Done = 0
    BY IdleTransfer DEF LogInit, FlashFsInit, BlackboxInit, Done
  <1>2. 0..0 - 1 = {} /\ 1..0 = {} /\ 1 > 0
    OBVIOUS
  <1>3. Programmed /\ LogInOrder
    BY <1>1, <1>2 DEF Programmed, LogInOrder
  <1> QED
    BY <1>1, <1>2, <1>3 DEF OrderInv

LEMMA NewStreamOrder ==
    ASSUME Fresh \/ PowerCycle PROVE OrderInv'
  <1>1. Done' = 0
    BY IdleTransfer DEF Fresh, PowerCycle, flashfsInit, Done
  <1>2. sent' = 0 /\ first' = 1
    BY DEF Fresh, PowerCycle
  <1> QED
    BY <1>1, <1>2, NewOrder

LEMMA StartUpOrder ==
    ASSUME TypeInv, OrderInv, StartUp, UNCHANGED Frame PROVE OrderInv'
  <1>1. pc = "SEARCH" /\ dma' = dma
    BY DEF StartUp, SearchBlock, SearchEnds, chipVars
  <1>2. sent' = sent /\ first' = first /\ first > sent
    BY <1>1 DEF OrderInv, Frame, traceVars
  <1>3. first..sent = {}
    BY <1>2, TraceTyped, EmptyTrace
  <1>4. LogInOrder'
    BY <1>2, <1>3 DEF LogInOrder
  <1>5. Done' = 0
    <2>1. Done = 0
      BY <1>1, Halves, DoneRange DEF PlaceOK
    <2> QED
      BY <1>1, <2>1 DEF Done
  <1>6. Programmed'
    <2>1. 0..0 - 1 = {}
      OBVIOUS
    <2> QED
      BY <1>5, <2>1 DEF Programmed
  <1> QED
    BY <1>2, <1>4, <1>6 DEF OrderInv

LEMMA OrderKept ==
    ASSUME WholeChip, TypeInv, HeaderInv, TransferInv, FlashInv, OrderInv,
           [LogNext]_logSystemVars
    PROVE  OrderInv'
  <1>1. \/ Steady \/ ByteStep \/ CallbackStep \/ WriteByte
        \/ Fresh \/ (StartUp /\ UNCHANGED Frame) \/ PowerCycle
    BY Steps DEF FlashInv
  <1> QED
    BY <1>1, SteadyOrder, ByteOrder, CallbackOrder, WriteOrder, NewStreamOrder,
       StartUpOrder

-----------------------------------------------------------------------------
(* The transfers. *)

LEMMA InitTransfer == LogInit => TransferInv
  <1> SUFFICES ASSUME LogInit PROVE TransferInv
    OBVIOUS
  <1>1. Buffered \in 0..Usable
    BY InitTyped, RoomRange
  <1>2. dma.len = 0 /\ dma.left = 0 /\ pc = "SEARCH"
    BY NoTransferTyped DEF LogInit, FlashFsInit
  <1> QED
    BY <1>1, <1>2 DEF TransferInv, RegionOK, FitsOK, ReadsOK

(* Only the chip's being ready comes while the region waits. *)
LEMMA RegionKept ==
    ASSUME NoReadMidTransfer, TypeInv, HeaderInv, TransferInv,
           [LogNext]_logSystemVars, pc' = "FLUSH_SYNC"
    PROVE  RegionOK'
  <1>1. CASE pc = "FLUSH_SYNC"
    <2>1. dma.len = 0 /\ dirty.from = bufferTail /\ dirty.total = Buffered
      BY <1>1 DEF TransferInv, RegionOK
    <2>2. dma.left = 0 /\ ~InFlight /\ toWrite = 0
      BY <1>1, <2>1, Halves, RingTyped DEF InFlight, HeaderInv, SyncOK, Syncs, Transfers,
                                            PlaceOK
    <2>3. ChipReady \/ UNCHANGED logSystemVars
      <3>1. ~(DmaByte \/ TransferDone)
        BY <2>2 DEF DmaByte, TransferDone, WriteCallback
      <3>2. ~(TaskMain \/ MspRead \/ SyncWait \/ StartUp)
        BY <1>1 DEF TaskMain, MspRead, Asked, Idle, SyncWait, FlushSyncWrite,
           FlushSyncReturns, StartUp, SearchBlock, SearchEnds
      <3>3. ~UpdatePass
        BY <1>1, <2>2, Sizes DEF UpdatePass, blackboxUpdate, ReplenishHeaderBudget, ReplenishTorn,
           Replenish, HeaderStep, WriteByte, DeviceFlush, StartErase, UpdateEnds, Idle
      <3>4. ~(DelayOver \/ StartsRecording \/ Disarm \/ Asked("ERASE"))
        BY <1>1 DEF DelayOver, StartsRecording, Disarm, Asked, Idle
      <3>5. ~PowerCycle
        BY DEF PowerCycle, flashfsInit
      <3> QED
        BY <3>1, <3>2, <3>3, <3>4, <3>5 DEF LogNext, Interrupt
    <2>4. UNCHANGED <<dma, ringVars, dirty>>
      BY <2>3 DEF ChipReady, logSystemVars, chipVars, scanVars
    <2>5. Buffered' = Buffered /\ bufferTail' = bufferTail
      BY <2>4, SameRing DEF ringVars
    <2> QED
      BY <2>1, <2>4, <2>5 DEF RegionOK
  <1>2. CASE pc # "FLUSH_SYNC"
    <2>1. MspRead
      <3>1. ~(Interrupt \/ TaskMain \/ SyncWait \/ StartUp \/ UNCHANGED logSystemVars)
        BY <1>2 DEF Interrupt, DmaByte, TransferDone, ChipReady, TaskMain,
           flashfsEraseAsync, SyncWait, FlushSyncWrite, FlushSyncReturns, StartUp,
           SearchBlock, SearchEnds, logSystemVars
      <3>2. ~UpdatePass
        BY <1>2 DEF UpdatePass, blackboxUpdate, ReplenishHeaderBudget, ReplenishTorn,
           Replenish, HeaderStep, SendHeader, SendFields, SendSysinfo, WriteByte,
           DeviceFlush, StartErase, UpdateEnds
      <3>3. ~(DelayOver \/ StartsRecording \/ Disarm \/ MspErase \/ PowerCycle)
        BY <1>2 DEF DelayOver, StartsRecording, Disarm, MspErase, PowerCycle, flashfsInit
      <3> QED
        BY <3>1, <3>2, <3>3 DEF LogNext
    <2>2. ~InFlight
      BY <2>1 DEF MspRead, Asked, NoReadMidTransfer
    <2>3. dma.len = 0
      BY <2>2, RingTyped, Sizes DEF InFlight
    <2>4. /\ UNCHANGED <<dma, ringVars>>
          /\ dirty' = [from |-> bufferTail, total |-> Buffered]
      BY <2>1 DEF MspRead, ReadAbs, chipVars, Buffered
    <2>5. Buffered' = Buffered /\ bufferTail' = bufferTail
      BY <2>4, SameRing DEF ringVars
    <2> QED
      BY <2>3, <2>4, <2>5 DEF RegionOK
  <1> QED
    BY <1>1, <1>2

LEMMA FitsKept ==
    ASSUME WholeChip, TypeInv, TypeInv', HeaderInv, TransferInv,
           flashfsState = "IDLE", [LogNext]_logSystemVars
    PROVE  FitsOK'
  <1>1. Buffered' \in 0..Usable
    <2>1. bufferHead' \in Slots /\ bufferTail' \in Slots
      BY DEF TypeInv, BlackboxTypeOK, FlashFsTypeOK
    <2> QED
      BY <2>1, UsedRange DEF Buffered, Used
  <1>2. ASSUME dma'.len = 0 PROVE FitsOK'
    BY <1>1, <1>2 DEF FitsOK
  <1>3. ASSUME Steady PROVE FitsOK'
    <2>1. Buffered' = Buffered /\ Buffered \in 0..Usable
      BY <1>3, SameRing, RoomRange DEF Steady
    <2>2. dma'.len = dma.len \/ dma'.len <= Buffered
      BY <1>3, <2>1, BeginsWithin DEF Steady
    <2>3. Followed' => Followed \/ dma'.len = 0
      BY <1>3 DEF Steady
    <2> QED
      BY <1>2, <2>1, <2>2, <2>3 DEF TransferInv, FitsOK
  <1>4. ASSUME ByteStep PROVE FitsOK'
    <2>1. dma'.len = dma.len /\ UNCHANGED ringVars /\ UNCHANGED Frame
      BY <1>4, RingTyped DEF ByteStep, DmaByte, Transfers
    <2>2. Followed' = Followed /\ Buffered' = Buffered
      BY <2>1, SameRing DEF Followed, Frame, logVars, traceVars
    <2> QED
      BY <2>1, <2>2 DEF TransferInv, FitsOK
  <1>5. ASSUME WriteByte PROVE FitsOK'
    <2> SUFFICES ASSUME Followed' PROVE dma'.len <= Buffered'
      BY DEF FitsOK
    <2>1. tracked /\ Buffered < Usable
      BY <1>5, WriteFollowed
    <2>2. dma.len <= Buffered
      BY <2>1 DEF TransferInv, FitsOK, Followed
    <2>3. PICK byte, endsString : flashfsWriteByte(byte, endsString) /\ bufferTail' = bufferTail
      BY <1>5 DEF WriteByte
    <2>4. bufferHead' = Wrap(bufferHead + 1) /\ MayBegin(Used(bufferHead', bufferTail))
      BY <2>3, ByteMayBegin
    <2>5. Buffered' = Used(bufferHead', bufferTail) /\ MayBegin(Buffered')
      BY <2>3, <2>4 DEF Buffered, Used
    <2>6. Buffered' = Buffered + 1
      BY <2>1, <2>4, <2>5, RingTyped, OneMoreUsed DEF Buffered
    <2>7. dma'.len = dma.len \/ dma'.len <= Buffered'
      BY <1>1, <2>5, BeginsWithin
    <2> QED
      BY <2>2, <2>6, <2>7, RingTyped, RoomRange, Sizes
  <1>6. ASSUME CallbackStep \/ Fresh \/ PowerCycle PROVE FitsOK'
    <2>1. dma' = NoTransfer
      BY <1>6 DEF CallbackStep, WriteCallback, Fresh, PowerCycle, flashfsInit
    <2> QED
      BY <1>2, <2>1, NoTransferTyped
  <1>7. ASSUME StartUp, UNCHANGED Frame PROVE FitsOK'
    <2>1. UNCHANGED <<dma, ringVars>>
      BY <1>7 DEF StartUp, SearchBlock, SearchEnds, chipVars
    <2>2. Followed' = Followed /\ Buffered' = Buffered
      BY <1>7, <2>1, SameRing DEF Followed, Frame, logVars, traceVars
    <2> QED
      BY <2>1, <2>2 DEF TransferInv, FitsOK
  <1> QED
    BY <1>3, <1>4, <1>5, <1>6, <1>7, Steps

(* A transfer that begins reads from the tail on. *)
LEMMA BeginReads ==
    ASSUME TypeInv, ReadsOK, NEW total \in 0..Usable, MayBegin(total),
           bufferTail' = bufferTail
    PROVE  ReadsOK'
  <1>1. CASE dma' = dma
    BY <1>1 DEF ReadsOK, Done, Wrap
  <1>2. CASE \E n \in 0..total :
                dma' = [at |-> tailAddress, from |-> bufferTail,
                        left |-> n, len |-> n]
    <2>1. PICK n \in 0..total :
             dma' = [at |-> tailAddress, from |-> bufferTail, left |-> n, len |-> n]
      BY <1>2
    <2>2. Done' = 0
      <3>1. Done' = n - n /\ n \in Int
        BY <2>1 DEF Done
      <3> QED
        BY <3>1
    <2>3. dma'.from = Wrap(bufferTail + 0)
      BY <2>1, RingTyped, WrapNone
    <2> QED
      BY <2>2, <2>3 DEF ReadsOK
  <1> QED
    BY <1>1, <1>2 DEF MayBegin, MayBeginAt

LEMMA ReadsKept ==
    ASSUME WholeChip, TypeInv, TransferInv, flashfsState = "IDLE",
           [LogNext]_logSystemVars
    PROVE  ReadsOK'
  <1>1. ASSUME dma'.left = 0 PROVE ReadsOK'
    BY <1>1 DEF ReadsOK
  <1>2. ASSUME Steady PROVE ReadsOK'
    BY <1>2, RoomRange, BeginReads DEF Steady, ringVars, TransferInv
  <1>3. ASSUME WriteByte PROVE ReadsOK'
    BY <1>3, WriteMoves, BeginReads DEF TransferInv
  <1>4. ASSUME ByteStep PROVE ReadsOK'
    <2>1. /\ Done' = Done + 1 /\ dma'.from = Wrap(dma.from + 1)
          /\ bufferTail' = bufferTail /\ dma.left > 0
      BY <1>4, ByteMoves DEF ByteStep, DmaByte, ringVars
    <2>2. /\ dma.from = Wrap(bufferTail + Done)
          /\ bufferTail \in Slots /\ Done \in 0..Usable /\ Done + 1 <= Usable
      BY <2>1, RingTyped, DoneRange, Sizes DEF TransferInv, ReadsOK
    <2>3. 1 \in 0..Usable
      BY <2>2, Sizes
    <2>4. Wrap(Wrap(bufferTail + Done) + 1) = Wrap(bufferTail + (Done + 1))
      BY <2>2, <2>3, WrapAgain
    <2> QED
      BY <2>1, <2>2, <2>4 DEF ReadsOK
  <1>5. ASSUME CallbackStep \/ Fresh \/ PowerCycle PROVE ReadsOK'
    <2>1. dma' = NoTransfer
      BY <1>5 DEF CallbackStep, WriteCallback, Fresh, PowerCycle, flashfsInit
    <2> QED
      BY <1>1, <2>1, NoTransferTyped
  <1>6. ASSUME StartUp PROVE ReadsOK'
    <2>1. UNCHANGED <<dma, bufferTail>>
      BY <1>6 DEF StartUp, SearchBlock, SearchEnds, chipVars, ringVars
    <2> QED
      BY <2>1 DEF TransferInv, ReadsOK, Done, Wrap
  <1> QED
    BY <1>2, <1>3, <1>4, <1>5, <1>6, Steps

LEMMA TransferKept ==
    ASSUME NoReadMidTransfer, WholeChip, TypeInv, TypeInv', HeaderInv, TransferInv,
           flashfsState = "IDLE", [LogNext]_logSystemVars
    PROVE  TransferInv'
  <1>1. RegionOK'
    <2>1. CASE pc' = "FLUSH_SYNC"
      BY <2>1, RegionKept
    <2>2. CASE pc' # "FLUSH_SYNC"
      BY <2>2 DEF RegionOK
    <2> QED
      BY <2>1, <2>2
  <1> QED
    BY <1>1, FitsKept, ReadsKept DEF TransferInv

-----------------------------------------------------------------------------
(* The theorems. *)

LogInv == TypeInv /\ HeaderInv /\ TransferInv /\ FlashInv /\ OrderInv

LEMMA AlwaysLog ==
    ASSUME NoReadMidTransfer, WholeChip PROVE LogSpec => []LogInv
  <1>1. LogInit => LogInv
    BY InitTyped, InitHeader, InitTransfer, InitFlash, InitOrder DEF LogInv
  <1>2. LogInv /\ [LogNext]_logSystemVars => LogInv'
    <2> SUFFICES ASSUME LogInv, [LogNext]_logSystemVars PROVE LogInv'
      OBVIOUS
    <2>1. TypeInv' /\ HeaderInv'
      BY StepTyped, HeaderKept DEF LogInv
    <2>2. TransferInv'
      BY <2>1, TransferKept DEF LogInv, FlashInv
    <2>3. FlashInv' /\ OrderInv'
      BY FlashKept, OrderKept DEF LogInv
    <2> QED
      BY <2>1, <2>2, <2>3 DEF LogInv
  <1> QED
    BY <1>1, <1>2, PTL DEF LogSpec

(* A log whose ring does not overflow gets into the flash byte for byte in  *)
(* the order it was written, whenever the interrupt moves the tail.         *)
THEOREM LogStaysInOrder ==
    ASSUME NoReadMidTransfer, WholeChip PROVE LogSpec => []LogInOrder
  <1>1. LogInv => LogInOrder
    BY DEF LogInv, OrderInv
  <1> QED
    BY <1>1, AlwaysLog, PTL

-----------------------------------------------------------------------------
(* What holds of the chip needs less: neither the order of the bytes nor    *)
(* where in the ring a transfer reads them.                                 *)

ChipInv == TypeInv /\ FlashInv

LEMMA AlwaysChip ==
    ASSUME WholeChip PROVE LogSpec => []ChipInv
  <1>1. LogInit => ChipInv
    BY InitTyped, InitFlash DEF ChipInv
  <1>2. ChipInv /\ [LogNext]_logSystemVars => ChipInv'
    BY StepTyped, FlashKept DEF ChipInv
  <1> QED
    BY <1>1, <1>2, PTL DEF LogSpec

(* No byte of the flash is programmed twice between two erases, whatever    *)
(* overflows, is flushed synchronously, read or erased in the middle of a   *)
(* transfer, or is cut off by a power failure.                              *)
THEOREM NothingIsGarbled ==
    ASSUME WholeChip PROVE LogSpec => []NothingGarbled
  <1>1. ChipInv => NothingGarbled
    BY DEF ChipInv, FlashInv
  <1> QED
    BY <1>1, AlwaysChip, PTL

LEMMA FoundIsFree ==
    ASSUME WholeChip, ChipInv, [LogNext]_logSystemVars
    PROVE  FreeSpaceFound
  <1> SUFFICES ASSUME pc = "SEARCH", pc' = "IDLE"
               PROVE  /\ \A a \in Addresses : a >= tailAddress' => flash[a] = Erased
                      /\ tailAddress' > 0 =>
                            \E a \in Addresses :
                                a >= tailAddress' - FreeBlockSize /\ flash[a] # Erased
    BY DEF FreeSpaceFound
  <1>1. TypeInv /\ FlashInv
    BY DEF ChipInv
  <1>2. SearchEnds
    <2>1. \/ Calm \/ ByteStep \/ CallbackStep \/ WriteByte
          \/ Fresh \/ (StartUp /\ UNCHANGED Frame) \/ PowerCycle
      BY <1>1, ChipSteps DEF FlashInv
    <2>2. ~Calm /\ ~Fresh /\ ~PowerCycle
      BY DEF Calm, Fresh, PowerCycle, flashfsInit
    <2>3. ~ByteStep /\ ~CallbackStep
      BY <1>1, NextByte, CallbackMoves DEF ByteStep, CallbackStep
    <2>4. ~WriteByte
      BY <1>1, WriteMoves
    <2> QED
      BY <2>1, <2>2, <2>3, <2>4 DEF StartUp, SearchBlock
  <1>3. /\ ErasedFrom(flash, tailAddress')
        /\ tailAddress' = search.left * FreeBlockSize
        /\ \A b \in 0..search.left - 1 : flash[b * FreeBlockSize] # Erased
        /\ search.left \in 0..Blocks /\ Blocks \in Nat
    BY <1>1, <1>2, SearchDone, SearchTyped
  <1>4. ASSUME tailAddress' > 0
        PROVE  \E a \in Addresses :
                  a >= tailAddress' - FreeBlockSize /\ flash[a] # Erased
    <2> DEFINE b == search.left - 1
               a == b * FreeBlockSize
    <2>1. search.left # 0
      <3>1. 0 * FreeBlockSize = 0
        BY FlashAssumption
      <3> QED
        BY <1>3, <1>4, <3>1
    <2>2. b \in 0..Blocks - 1 /\ b \in 0..search.left - 1 /\ search.left = b + 1
      BY <1>3, <2>1
    <2>3. a \in Addresses /\ flash[a] # Erased
      <3>1. 0 \in 0..FreeBlockSize - 1
        BY FlashAssumption
      <3> QED
        BY <1>3, <2>2, <3>1, BlockStart
    <2>4. (b + 1) * FreeBlockSize - FreeBlockSize = a
      BY <2>2, FlashAssumption
    <2>5. a >= tailAddress' - FreeBlockSize
      <3>1. tailAddress' - FreeBlockSize = a
        BY <1>3, <2>2, <2>4
      <3>2. a \in Nat
        BY <2>3 DEF Addresses
      <3> QED
        BY <3>1, <3>2
    <2> QED
      BY <2>3, <2>5
  <1> QED
    BY <1>3, <1>4 DEF ErasedFrom

(* After a restart, everything behind the place that the search has found   *)
(* is erased, and less than a block before it is wasted.                    *)
THEOREM RestartIsRight ==
    ASSUME WholeChip PROVE LogSpec => RestartFindsFreeSpace
  <1>1. ChipInv /\ [LogNext]_logSystemVars => [FreeSpaceFound]_logSystemVars
    BY FoundIsFree
  <1> QED
    BY <1>1, AlwaysChip, PTL DEF LogSpec, RestartFindsFreeSpace

-----------------------------------------------------------------------------
(* The header comes first.                                                  *)

(* A log was begun and has not come to its frames yet. *)
InHeader ==
    \/ blackboxState \in {"SEND_FIELDS", "SEND_SYSINFO", "CACHE_FLUSH"}
    \/ blackboxState = "SEND_HEADER" /\ headerIndex > 0

(* How much of the header is written, with what the handler still writes.   *)
FieldsEnd == HeaderLen + Fields * FieldLen

HeaderPlace ==
    IF blackboxState = "SEND_HEADER" THEN headerIndex
    ELSE IF blackboxState = "SEND_FIELDS" THEN HeaderLen + headerIndex * FieldLen
    ELSE IF blackboxState = "SEND_SYSINFO" THEN FieldsEnd + headerIndex * LineLen
    ELSE IF cacheFlushNextState = "RUNNING" THEN HeaderTotal
    ELSE FieldsEnd

(* The index of the header counts its bytes since the first one.            *)
Behind ==
    InHeader =>
        /\ sent + toWrite + 1 = first + HeaderPlace
        /\ blackboxState = "SEND_FIELDS" => headerIndex <= Fields
        /\ blackboxState = "SEND_SYSINFO" => headerIndex <= Lines

LEMMA NextProduct ==
    ASSUME NEW i \in Nat, NEW n \in Nat
    PROVE  i * n \in Nat /\ (i + 1) * n = i * n + n /\ 0 * n = 0
OBVIOUS

LEMMA HeaderSizes ==
    /\ HeaderLen \in Nat /\ HeaderLen > 0 /\ Fields \in Nat /\ Lines \in Nat
    /\ FieldLen \in Nat /\ LineLen \in Nat
    /\ FieldsEnd \in Nat /\ HeaderTotal \in Nat /\ HeaderTotal > 0
    /\ HeaderTotal = FieldsEnd + Lines * LineLen
    /\ HeaderBudget \in Nat
  <1>1. /\ HeaderLen \in Nat /\ HeaderLen > 0 /\ Fields \in Nat /\ Lines \in Nat
        /\ FieldLen \in Nat /\ LineLen \in Nat /\ HeaderBudget \in Nat
    BY BlackboxAssumption, Sizes
  <1>2. Fields * FieldLen \in Nat /\ Lines * LineLen \in Nat
    BY <1>1, NextProduct
  <1> QED
    BY <1>1, <1>2 DEF FieldsEnd, HeaderTotal

LEMMA Counts ==
    ASSUME TypeInv
    PROVE  /\ sent \in Nat /\ first \in Nat /\ toWrite \in Nat /\ headerIndex \in Nat
           /\ cacheFlushNextState \in {"SEND_SYSINFO", "RUNNING"}
  BY DEF TypeInv, BlackboxTypeOK

LEMMA SamePlace ==
    ASSUME Behind,
           UNCHANGED <<blackboxState, headerIndex, cacheFlushNextState, toWrite,
                       sent, first>>
    PROVE  Behind'
  BY DEF Behind, InHeader, HeaderPlace, FieldsEnd, HeaderTotal

-----------------------------------------------------------------------------
(* The steps. *)

LEMMA UpdateBehind ==
    ASSUME TypeInv, HeaderInv, Behind, blackboxUpdate
    PROVE  Behind'
  <1>1. toWrite = 0 /\ UNCHANGED cacheFlushNextState /\ OutsideHeader
            /\ UNCHANGED traceVars
    BY UpdateMoves DEF blackboxUpdate, Idle
  <1>2. CASE ~InHeader'
    BY <1>2 DEF Behind
  <1>3. CASE InHeader'
    <2>1. /\ blackboxState = "CACHE_FLUSH" /\ toWrite' = 0
          /\ blackboxState' \in {"CACHE_FLUSH", "SEND_SYSINFO"}
      BY <1>1, <1>3 DEF OutsideHeader, InHeader, HeaderStates
    <2>2. CacheFlush
      BY <2>1 DEF blackboxUpdate, Stopped, PrepareLogFile, ShuttingDown, EraseCase,
                  Disabled, RunningEnds, StaysPaused, LogIteration
    <2>3. CASE UNCHANGED <<blackboxState, headerIndex>>
      BY <1>1, <2>1, <2>3, SamePlace DEF traceVars
    <2>4. CASE blackboxState' = cacheFlushNextState /\ cacheFlushNextState = "SEND_SYSINFO"
               /\ headerIndex' = 0
      <3>1. sent + 0 + 1 = first + FieldsEnd
        BY <1>1, <2>1, <2>4 DEF Behind, InHeader, HeaderPlace
      <3>2. HeaderPlace' = FieldsEnd
        BY <2>4, HeaderSizes, NextProduct DEF HeaderPlace, FieldsEnd
      <3> QED
        BY <1>1, <2>1, <2>4, <3>1, <3>2, HeaderSizes DEF Behind, traceVars
    <2> QED
      BY <2>1, <2>2, <2>3, <2>4, Counts DEF CacheFlush
  <1> QED
    BY <1>2, <1>3

LEMMA HeaderBehind ==
    ASSUME TypeInv, HeaderInv, Behind, SendHeader, toWrite = 0
    PROVE  Behind'
  <1>1. blackboxState = "SEND_HEADER" /\ UNCHANGED <<blackboxState, cacheFlushNextState>>
    BY DEF SendHeader
  <1>2. CASE delayOver /\ HeaderBudget <= blackboxHeaderBudget
    <2> DEFINE n == Lesser(HeaderBudget, HeaderLen - headerIndex)
    <2>1. /\ toWrite' = n /\ headerIndex' = headerIndex + n
          /\ headerIndex = 0 => first' = sent + 1 /\ sent' = sent
          /\ headerIndex # 0 => first' = first /\ sent' = sent
      <3>1. ~(HeaderBudget > blackboxHeaderBudget)
        BY <1>2, Halves, HeaderSizes DEF LogOK
      <3>2. /\ StartWriting(n) /\ headerIndex' = headerIndex + n
            /\ IF headerIndex = 0
               THEN first' = sent + 1 /\ tracked' = TRUE /\ UNCHANGED sent
               ELSE UNCHANGED traceVars
        BY <1>2, <3>1 DEF SendHeader
      <3> HIDE DEF n
      <3> QED BY <3>2, StartIsQuiet DEF traceVars
    <2>2. n \in Int
      BY Counts, HeaderSizes DEF Lesser
    <2>3. HeaderPlace' = headerIndex + n
      BY <1>1, <2>1 DEF HeaderPlace
    <2> HIDE DEF n
    <2>4. sent' + toWrite' + 1 = first' + HeaderPlace'
      <3>1. CASE headerIndex = 0
        BY <2>1, <2>2, <2>3, <3>1, Counts
      <3>2. CASE headerIndex # 0
        <4>1. sent + 0 + 1 = first + headerIndex
          BY <1>1, <3>2, Counts DEF Behind, InHeader, HeaderPlace
        <4> QED BY <2>1, <2>2, <2>3, <3>2, <4>1, Counts
      <3> QED BY <3>1, <3>2
    <2> QED BY <1>1, <2>4 DEF Behind
  <1>3. CASE ~(delayOver /\ HeaderBudget <= blackboxHeaderBudget)
    <2>1. UNCHANGED <<headerIndex, traceVars, toWrite>>
      BY <1>3, WrittenIsKept, ReserveIsKept DEF SendHeader
    <2> QED BY <1>1, <2>1, SamePlace DEF traceVars
  <1> QED BY <1>2, <1>3

LEMMA FieldsBehind ==
    ASSUME TypeInv, HeaderInv, Behind, SendFields, toWrite = 0
    PROVE  Behind'
  <1>1. /\ blackboxState = "SEND_FIELDS" /\ headerIndex <= Fields
        /\ sent + 0 + 1 = first + (HeaderLen + headerIndex * FieldLen)
    BY DEF SendFields, Behind, InHeader, HeaderPlace
  <1>2. CASE headerIndex < Fields /\ FieldLen <= blackboxHeaderBudget
    <2>1. /\ toWrite' = FieldLen /\ headerIndex' = headerIndex + 1
          /\ UNCHANGED <<sent, first, blackboxState>>
      <3>1. ~(FieldLen > blackboxHeaderBudget) /\ ~(headerIndex >= Fields)
        BY <1>2, Counts, Halves, HeaderSizes DEF LogOK
      <3>2. /\ StartWriting(FieldLen) /\ headerIndex' = headerIndex + 1
            /\ UNCHANGED <<traceVars, blackboxState>>
        BY <1>2, <3>1 DEF SendFields
      <3> QED BY <3>2, StartIsQuiet DEF traceVars
    <2> DEFINE p == headerIndex * FieldLen
               q == headerIndex' * FieldLen
    <2>2. p \in Nat /\ q = p + FieldLen
      BY <2>1, NextProduct, Counts, HeaderSizes
    <2>3. HeaderPlace' = HeaderLen + q /\ sent + 0 + 1 = first + (HeaderLen + p)
      BY <1>1, <2>1 DEF HeaderPlace
    <2> HIDE DEF p, q
    <2>4. sent' + toWrite' + 1 = first' + HeaderPlace'
      BY <2>1, <2>2, <2>3, Counts, HeaderSizes
    <2>5. headerIndex' <= Fields
      BY <1>2, <2>1, Counts, HeaderSizes
    <2> QED BY <1>1, <2>1, <2>4, <2>5 DEF Behind
  <1>3. CASE headerIndex < Fields /\ FieldLen > blackboxHeaderBudget
    <2>1. UNCHANGED <<headerIndex, traceVars, toWrite, blackboxState, cacheFlushNextState>>
      BY <1>3, WrittenIsKept, ReserveIsKept, Counts, Halves, HeaderSizes
      DEF SendFields, LogOK
    <2> QED BY <2>1, SamePlace DEF traceVars
  <1>4. CASE headerIndex >= Fields
    <2>1. /\ blackboxState' = "CACHE_FLUSH" /\ cacheFlushNextState' = "SEND_SYSINFO"
          /\ UNCHANGED <<traceVars, toWrite>>
      BY <1>4, WrittenIsKept, Counts, HeaderSizes DEF SendFields
    <2>2. headerIndex = Fields
      BY <1>1, <1>4, Counts, HeaderSizes
    <2>3. HeaderPlace' = FieldsEnd
      BY <2>1 DEF HeaderPlace, FieldsEnd
    <2> QED BY <1>1, <2>1, <2>2, <2>3 DEF Behind, FieldsEnd, traceVars
  <1> QED BY <1>2, <1>3, <1>4, Counts, Halves, HeaderSizes DEF LogOK

LEMMA SysinfoBehind ==
    ASSUME TypeInv, HeaderInv, Behind, SendSysinfo, toWrite = 0
    PROVE  Behind'
  <1>1. /\ blackboxState = "SEND_SYSINFO" /\ headerIndex <= Lines
        /\ sent + 0 + 1 = first + (FieldsEnd + headerIndex * LineLen)
    BY DEF SendSysinfo, Behind, InHeader, HeaderPlace
  <1>2. CASE HeaderBudget <= blackboxHeaderBudget /\ headerIndex < Lines
    <2>1. /\ toWrite' = LineLen /\ headerIndex' = headerIndex + 1
          /\ UNCHANGED <<sent, first, blackboxState>>
      BY <1>2, StartIsQuiet, Counts, Halves, HeaderSizes DEF SendSysinfo, traceVars, LogOK
    <2> DEFINE p == headerIndex * LineLen
               q == headerIndex' * LineLen
    <2>2. p \in Nat /\ q = p + LineLen
      BY <2>1, NextProduct, Counts, HeaderSizes
    <2>3. HeaderPlace' = FieldsEnd + q /\ sent + 0 + 1 = first + (FieldsEnd + p)
      BY <1>1, <2>1 DEF HeaderPlace, FieldsEnd
    <2> HIDE DEF p, q
    <2>4. sent' + toWrite' + 1 = first' + HeaderPlace'
      BY <2>1, <2>2, <2>3, Counts, HeaderSizes
    <2>5. headerIndex' <= Lines
      BY <1>2, <2>1, Counts, HeaderSizes
    <2> QED BY <1>1, <2>1, <2>4, <2>5 DEF Behind
  <1>3. CASE HeaderBudget <= blackboxHeaderBudget /\ headerIndex >= Lines
    <2>1. /\ blackboxState' = "CACHE_FLUSH" /\ cacheFlushNextState' = "RUNNING"
          /\ UNCHANGED <<traceVars, toWrite>>
      BY <1>3, WrittenIsKept, Counts, Halves, HeaderSizes DEF SendSysinfo, LogOK
    <2>2. headerIndex = Lines
      BY <1>1, <1>3, Counts, HeaderSizes
    <2>3. HeaderPlace' = HeaderTotal
      BY <2>1 DEF HeaderPlace, HeaderTotal
    <2> QED BY <1>1, <2>1, <2>2, <2>3, HeaderSizes DEF Behind, traceVars
  <1>4. CASE HeaderBudget > blackboxHeaderBudget
    <2>1. UNCHANGED <<headerIndex, traceVars, toWrite, blackboxState, cacheFlushNextState>>
      BY <1>4, ReserveIsKept, Halves, HeaderSizes DEF SendSysinfo, LogOK
    <2> QED BY <2>1, SamePlace DEF traceVars
  <1> QED BY <1>2, <1>3, <1>4, Counts, Halves, HeaderSizes DEF LogOK

LEMMA WriteBehind ==
    ASSUME TypeInv, HeaderInv, Behind, WriteByte
    PROVE  Behind'
  <1>1. /\ toWrite' = toWrite - 1 /\ sent' = sent + 1
        /\ UNCHANGED <<blackboxState, headerIndex, cacheFlushNextState, first>>
    BY DEF WriteByte, logVars
  <1>2. HeaderPlace' = HeaderPlace /\ InHeader' = InHeader
    BY <1>1 DEF HeaderPlace, InHeader, FieldsEnd, HeaderTotal
  <1>3. sent' + toWrite' + 1 = sent + toWrite + 1
    BY <1>1, Counts
  <1> QED BY <1>1, <1>2, <1>3 DEF Behind

LEMMA UpdateEndsBehind ==
    ASSUME TypeInv, HeaderInv, Behind, UpdateEnds
    PROVE  Behind'
  <1>1. /\ toWrite = 0 /\ UNCHANGED <<traceVars, cacheFlushNextState>>
        /\ headerIndex' = IF AfterHeader = blackboxState THEN headerIndex ELSE 0
    BY DEF UpdateEnds
  <1>2. CASE ~InHeader'
    BY <1>2 DEF Behind
  <1>3. CASE InHeader'
    <2>1. blackboxState' = AfterHeader /\ UNCHANGED toWrite
      BY <1>3 DEF UpdateEnds, StartInTestMode, Started, InHeader, blackboxFinish,
                  AfterHeader
    <2>2. CASE AfterHeader = blackboxState
      BY <1>1, <2>1, <2>2, SamePlace DEF traceVars
    <2>3. CASE AfterHeader # blackboxState
      <3>1. /\ blackboxState = "SEND_HEADER" /\ headerIndex >= HeaderLen
            /\ blackboxState' = "SEND_FIELDS" /\ headerIndex' = 0
        BY <1>1, <2>1, <2>3 DEF AfterHeader
      <3>2. headerIndex = HeaderLen
        BY <3>1, Halves, Counts, HeaderSizes DEF LogOK
      <3>3. sent + 0 + 1 = first + HeaderLen
        BY <1>1, <3>1, <3>2, HeaderSizes DEF Behind, InHeader, HeaderPlace
      <3>4. HeaderPlace' = HeaderLen
        BY <3>1, NextProduct, HeaderSizes DEF HeaderPlace
      <3> QED BY <1>1, <2>1, <3>1, <3>3, <3>4, HeaderSizes DEF Behind, traceVars
    <2> QED BY <2>2, <2>3
  <1> QED BY <1>2, <1>3

LEMMA DisarmBehind ==
    ASSUME TypeInv, HeaderInv, Behind, Disarm
    PROVE  Behind'
  <1>1. toWrite = 0 /\ UNCHANGED <<cacheFlushNextState, headerIndex, traceVars>>
    BY DEF Disarm, Idle
  <1>2. CASE ~InHeader'
    BY <1>2 DEF Behind
  <1>3. CASE InHeader'
    <2>1. blackboxState' = blackboxState /\ toWrite' = LastEvent
      BY <1>3, StartIsQuiet DEF Disarm, InHeader, blackboxFinish
    <2>2. LastEvent = 0
      BY <1>3, <2>1 DEF LastEvent, InHeader
    <2> QED BY <1>1, <2>1, <2>2, SamePlace DEF traceVars
  <1> QED BY <1>2, <1>3

LEMMA BehindKept ==
    ASSUME TypeInv, HeaderInv, Behind, [LogNext]_logSystemVars
    PROVE  Behind'
  <1>1. CASE Interrupt \/ TaskMain \/ MspRead \/ SyncWait \/ StartUp
             \/ UNCHANGED logSystemVars
    BY <1>1, SamePlace DEF Interrupt, TaskMain, MspRead, SyncWait, StartUp,
       logVars, traceVars, logSystemVars
  <1>2. CASE ReplenishHeaderBudget \/ ReplenishTorn \/ DeviceFlush
    BY <1>2, SamePlace, FlushIsQuiet DEF ReplenishHeaderBudget, ReplenishTorn,
       Replenish, DeviceFlush, logVars, traceVars
  <1>3. CASE blackboxUpdate
    BY <1>3, UpdateBehind
  <1>4. CASE HeaderStep
    BY <1>4, HeaderBehind, FieldsBehind, SysinfoBehind DEF HeaderStep
  <1>5. CASE WriteByte
    BY <1>5, WriteBehind
  <1>6. CASE StartErase \/ MspErase \/ PowerCycle
    BY <1>6 DEF StartErase, MspErase, EraseAll, PowerCycle, Behind, InHeader
  <1>7. CASE UpdateEnds
    BY <1>7, UpdateEndsBehind
  <1>8. CASE DelayOver \/ StartsRecording
    BY <1>8, SamePlace, WrittenIsKept DEF DelayOver, StartsRecording, logVars, traceVars
  <1>9. CASE Disarm
    BY <1>9, DisarmBehind
  <1> QED
    BY <1>1, <1>2, <1>3, <1>4, <1>5, <1>6, <1>7, <1>8, <1>9 DEF LogNext, UpdatePass

-----------------------------------------------------------------------------
(* The step to the frames. *)

LEMMA ToFrames ==
    ASSUME [LogNext]_logSystemVars, blackboxState = "CACHE_FLUSH",
           blackboxState' = "RUNNING", TypeInv
    PROVE  /\ bufferHead = bufferTail /\ UNCHANGED flash
           /\ cacheFlushNextState = "RUNNING"
  <1>1. blackboxUpdate
    <2>1. ~(Interrupt \/ TaskMain \/ MspRead \/ SyncWait \/ StartUp
             \/ UNCHANGED logSystemVars)
      BY DEF Interrupt, TaskMain, MspRead, SyncWait, StartUp, logVars, logSystemVars
    <2>2. ~(ReplenishHeaderBudget \/ ReplenishTorn \/ DeviceFlush \/ WriteByte
             \/ HeaderStep \/ StartErase \/ MspErase \/ PowerCycle
             \/ DelayOver \/ StartsRecording)
      BY DEF ReplenishHeaderBudget, ReplenishTorn, Replenish, DeviceFlush, WriteByte,
             HeaderStep, SendHeader, SendFields, SendSysinfo, StartErase, MspErase,
             EraseAll, PowerCycle, DelayOver, StartsRecording, logVars
    <2>3. ~UpdateEnds
      BY DEF UpdateEnds, AfterHeader, StartInTestMode, Started, blackboxFinish
    <2>4. ~Disarm
      BY DEF Disarm, blackboxFinish
    <2> QED BY <2>1, <2>2, <2>3, <2>4 DEF LogNext, UpdatePass
  <1>2. CacheFlush
    BY <1>1 DEF blackboxUpdate, Stopped, PrepareLogFile, ShuttingDown, EraseCase,
                Disabled, RunningEnds, StaysPaused, LogIteration
  <1>3. BufferIsEmpty /\ cacheFlushNextState = "RUNNING" /\ NothingWritten
    BY <1>2 DEF CacheFlush
  <1> QED BY <1>3 DEF BufferIsEmpty, NothingWritten, chipVars

LEMMA HeaderIsWhole ==
    ASSUME LogInv, Behind, [LogNext]_logSystemVars
    PROVE  HeaderBeforeFrames
  <1> SUFFICES ASSUME blackboxState = "CACHE_FLUSH", blackboxState' = "RUNNING"
               PROVE  \E a \in Addresses : \A i \in 0..HeaderTotal - 1 :
                         a + i \in Addresses /\ flash'[a + i] = first + i
    BY DEF HeaderBeforeFrames
  <1>1. TypeInv /\ HeaderInv /\ OrderInv
    BY DEF LogInv
  <1>2. /\ bufferHead = bufferTail /\ flash' = flash
        /\ cacheFlushNextState = "RUNNING"
    BY <1>1, ToFrames
  <1>3. toWrite = 0 /\ tracked
    BY <1>1 DEF HeaderInv, BegunOK
  <1>4. sent + 1 = first + HeaderTotal /\ sent \in Nat /\ first \in Nat
    <2>1. sent + 0 + 1 = first + HeaderTotal
      BY <1>2, <1>3 DEF Behind, InHeader, HeaderPlace
    <2> QED BY <1>1, <2>1, Counts, HeaderSizes
  <1>5. Buffered = 0
    <2>1. bufferHead \in Int /\ bufferTail \in Int
      BY <1>1, RingTyped, Sizes DEF Slots
    <2> QED BY <1>2, <2>1 DEF Buffered, Used
  <1>6. \A n \in first..sent : /\ tailAddress - 1 - (sent - n) \in Addresses
                              /\ flash[tailAddress - 1 - (sent - n)] = n
    <2>1. LogInOrder
      BY <1>1 DEF OrderInv
    <2>2. \A n \in first..sent : InPlace(n)
      BY <1>3, <2>1 DEF LogInOrder
    <2> TAKE n \in first..sent
    <2>3. sent - Buffered - n = sent - n /\ ~(sent - n < 0)
      BY <1>4, <1>5
    <2> QED BY <2>2, <2>3 DEF InPlace
  <1> DEFINE a == tailAddress - 1 - (sent - first)
  <1>7. tailAddress \in Nat
    BY <1>1, RingTyped, Sizes
  <1>8. \A i \in 0..HeaderTotal - 1 :
            a + i \in Addresses /\ flash'[a + i] = first + i
    <2> TAKE i \in 0..HeaderTotal - 1
    <2>1. first + i \in first..sent
      BY <1>4, HeaderSizes
    <2>2. tailAddress - 1 - (sent - (first + i)) = a + i
      BY <1>4, <1>7, HeaderSizes
    <2> HIDE DEF a
    <2> QED BY <1>2, <1>6, <2>1, <2>2
  <1>9. a \in Addresses
    BY <1>4, <1>6, HeaderSizes
  <1> QED BY <1>8, <1>9

-----------------------------------------------------------------------------
(* The theorem. *)

LEMMA InitBehind == LogInit => Behind
  BY DEF LogInit, BlackboxInit, Behind, InHeader

(* Frames are logged only once the header, which the fields and the lines   *)
(* of the system information belong to, is in the flash byte for byte.      *)
THEOREM HeaderComesFirst ==
    ASSUME NoReadMidTransfer, WholeChip PROVE LogSpec => HeadersAreComplete
  <1>1. LogInv /\ Behind /\ [LogNext]_logSystemVars => Behind'
    BY BehindKept DEF LogInv
  <1>2. LogInv /\ Behind /\ [LogNext]_logSystemVars
            => [HeaderBeforeFrames]_logSystemVars
    BY HeaderIsWhole
  <1> QED
    BY <1>1, <1>2, InitBehind, AlwaysLog, PTL DEF LogSpec, HeadersAreComplete
=============================================================================
