------------------------------ MODULE LogProofs ------------------------------
(***************************************************************************)
(* Two facts of every reachable state of the log and its flash, for every  *)
(* size of ring, page, block, chip and header, whole chip or partition,    *)
(* and whatever the configurator asks for, also while a transfer runs: the *)
(* state is well typed, and the header of a log never overflows the ring.  *)
(***************************************************************************)
EXTENDS LogSystem, TLAPS

(* The transfer that runs fits into what is left of the chip, nothing is    *)
(* under way while the free space is searched, and the header index stays within the  *)
(* text of the header while that is sent.                                   *)
Fits ==
    /\ tailAddress + dma.len <= FlashSize
    /\ dma.left <= dma.len
    /\ pc = "SEARCH" => dma.len = 0 /\ toWrite = 0
    /\ blackboxState = "SEND_HEADER" => headerIndex <= HeaderLen

TypeInv == BlackboxTypeOK /\ Fits

-----------------------------------------------------------------------------
(* Arithmetic of pages and blocks. *)

LEMMA Division ==
    ASSUME NEW n \in Nat \ {0}, NEW a \in Nat
    PROVE  /\ a \div n \in Nat
           /\ (a % n) \in 0..n - 1
           /\ a = n * (a \div n) + (a % n)
  BY SMT

LEMMA Multiples ==
    ASSUME NEW n \in Nat, NEW a \in Nat, NEW b \in Nat, a < b
    PROVE  n * a + n <= n * b
  BY SMT

(* A page ends within the chip, and behind the address it is the page of.   *)
LEMMA PageWithin ==
    ASSUME NEW a \in Nat, a < FlashSize
    PROVE  /\ PageEnd(a) \in Nat
           /\ a < PageEnd(a)
           /\ PageEnd(a) <= FlashSize
           /\ PageEnd(a) = PageSize * (a \div PageSize) + PageSize
  <1> PageSize \in Nat \ {0} /\ FlashSize \in Nat /\ FlashSize % PageSize = 0
    BY FlashAssumption
  <1> DEFINE q == a \div PageSize
             k == FlashSize \div PageSize
  <1>1. q \in Nat /\ (a % PageSize) \in 0..PageSize - 1
            /\ a = PageSize * q + (a % PageSize)
    BY Division
  <1>2. k \in Nat /\ FlashSize = PageSize * k + (FlashSize % PageSize)
    BY Division
  <1>3. PageEnd(a) = PageSize * q + PageSize
    BY <1>1 DEF PageEnd
  <1>4. FlashSize = PageSize * k
    BY <1>2
  <1>5. q < k
    <2> SUFFICES ASSUME k <= q PROVE FALSE
      BY <1>1, <1>2
    <2>1. k = q \/ k < q
      BY <1>1, <1>2
    <2>2. PageSize * k <= PageSize * q
      BY <2>1, <1>1, <1>2, Multiples
    <2> QED
      BY <2>2, <1>1, <1>4
  <1>6. PageSize * q + PageSize <= PageSize * k
    BY <1>1, <1>2, <1>5, Multiples
  <1> QED
    BY <1>1, <1>3, <1>4, <1>6

LEMMA BlocksFill ==
    /\ Blocks \in Nat
    /\ Blocks * FreeBlockSize = FlashSize
  <1> FreeBlockSize \in Nat \ {0} /\ FlashSize \in Nat
          /\ FlashSize % FreeBlockSize = 0
    BY FlashAssumption
  <1>1. Blocks \in Nat /\ FlashSize = FreeBlockSize * Blocks + (FlashSize % FreeBlockSize)
    BY Division DEF Blocks
  <1> QED
    BY <1>1

LEMMA BlockWithin ==
    ASSUME NEW b \in 0..Blocks
    PROVE  b * FreeBlockSize \in 0..FlashSize
  <1> FreeBlockSize \in Nat
    BY FlashAssumption
  <1>1. b = Blocks \/ b < Blocks
    BY BlocksFill
  <1>2. FreeBlockSize * b <= FreeBlockSize * Blocks
    BY <1>1, BlocksFill, Multiples
  <1> QED
    BY <1>2, BlocksFill

-----------------------------------------------------------------------------
(* The operators of the ring and the chip. *)

LEMMA Sizes ==
    /\ BufferSize \in Nat /\ BufferSize > 1
    /\ Usable \in Nat /\ Usable = BufferSize - 1
    /\ 0 \in Slots
    /\ FlashSize \in Nat
    /\ PageSize \in Nat \ {0}
    /\ AutoFlushLen \in 1..Usable
  BY FlashAssumption DEF Usable, Slots

LEMMA WrapSlot ==
    ASSUME NEW i \in Slots, NEW n \in 0..BufferSize
    PROVE  Wrap(i + n) \in Slots
  BY Sizes DEF Slots, Wrap

LEMMA WrapNext ==
    ASSUME NEW i \in Slots
    PROVE  Wrap(i + 1) \in Slots
  BY Sizes DEF Slots, Wrap

LEMMA UsedRange ==
    ASSUME NEW i \in Slots, NEW j \in Slots
    PROVE  Used(i, j) \in 0..Usable
  BY Sizes DEF Slots, Used

(* What the type invariant says of the transfer and the ring. *)
LEMMA RingTyped ==
    ASSUME TypeInv
    PROVE  /\ dma \in Transfers /\ dma.left <= dma.len
           /\ dma.len \in 0..Usable /\ dma.left \in 0..Usable
           /\ dma.at \in Nat /\ dma.from \in Slots
           /\ tailAddress \in 0..FlashSize /\ tailAddress + dma.len <= FlashSize
           /\ bufferHead \in Slots /\ bufferTail \in Slots
           /\ dataWritten \in BOOLEAN
           /\ flash \in [Addresses -> Int] /\ flashWriteBuffer \in [Slots -> Int]
  <1>1. dma \in Transfers /\ dma.left <= dma.len
    BY DEF TypeInv, Fits, BlackboxTypeOK, FlashFsTypeOK
  <1>2. /\ dma.len \in 0..Usable /\ dma.left \in 0..Usable
        /\ dma.at \in Nat /\ dma.from \in Slots
    BY <1>1 DEF Transfers
  <1> QED
    BY <1>1, <1>2 DEF TypeInv, Fits, BlackboxTypeOK, FlashFsTypeOK

LEMMA NoTransferTyped == NoTransfer \in Transfers /\ NoTransfer.len = 0 /\ NoTransfer.left = 0
  BY Sizes DEF NoTransfer, Transfers

(* A page program that is begun. *)
LEMMA StartTyped ==
    ASSUME TypeInv, NEW slot \in Slots, NEW total \in 0..Usable,
           WriteBuffers(slot, total), UNCHANGED tailAddress
    PROVE  /\ dma' \in Transfers
           /\ dma'.left <= dma'.len
           /\ tailAddress' + dma'.len <= FlashSize
           /\ dataWritten' \in BOOLEAN
  <1>1. CASE flashIsReady /\ ~flashfsIsEOF
    <2>1. tailAddress \in Nat /\ tailAddress < FlashSize
      BY <1>1, RingTyped, Sizes DEF flashfsIsEOF
    <2>2. /\ PageEnd(tailAddress) \in Nat
          /\ tailAddress < PageEnd(tailAddress)
          /\ PageEnd(tailAddress) <= FlashSize
      BY <2>1, PageWithin
    <2> DEFINE n == Lesser(total, PageEnd(tailAddress) - tailAddress)
    <2>3. n \in 0..Usable /\ n \in Nat /\ tailAddress + n <= FlashSize
      BY <2>1, <2>2, Sizes DEF Lesser
    <2>4. /\ dma' = [at |-> tailAddress, from |-> slot, left |-> n, len |-> n]
          /\ dataWritten' = FALSE
      BY <1>1 DEF WriteBuffers, StartProgram
    <2> HIDE DEF n
    <2>5. dma' \in Transfers
      BY <2>1, <2>3, <2>4 DEF Transfers
    <2>6. dma'.left = n /\ dma'.len = n
      BY <2>4
    <2>7. dma'.left <= dma'.len
      BY <2>3, <2>6
    <2>8. tailAddress' + dma'.len <= FlashSize
      BY <2>3, <2>6
    <2> QED
      BY <2>4, <2>5, <2>7, <2>8
  <1>2. CASE ~(flashIsReady /\ ~flashfsIsEOF)
    <2>1. dma' = dma /\ dataWritten' = dataWritten
      BY <1>2 DEF WriteBuffers
    <2> QED
      BY <2>1, RingTyped
  <1> QED
    BY <1>1, <1>2

LEMMA FlushTyped ==
    ASSUME TypeInv, NEW head \in Slots, NEW force,
           flashfsFlushAsync(head, force), UNCHANGED tailAddress
    PROVE  /\ dma' \in Transfers
           /\ dma'.left <= dma'.len
           /\ tailAddress' + dma'.len <= FlashSize
           /\ dataWritten' \in BOOLEAN
  <1>1. bufferTail \in Slots /\ Used(head, bufferTail) \in 0..Usable
    BY RingTyped, UsedRange
  <1>2. CASE WriteBuffers(bufferTail, Used(head, bufferTail))
    BY <1>1, <1>2, StartTyped
  <1>3. CASE UNCHANGED <<dma, dataWritten>>
    BY <1>3, RingTyped
  <1> QED
    BY <1>2, <1>3 DEF flashfsFlushAsync

-----------------------------------------------------------------------------
(* The steps of flashfs, one by one.  The rest of the state is Frame. *)

Frame == <<logVars, recording, toWrite, traceVars>>

LEMMA NextInPageIsNat ==
    ASSUME NEW a \in Nat
    PROVE  NextInPage(a) \in Nat
  <1> DEFINE k == (a + 1) \div PageSize
  <1>1. k \in Nat /\ a + 1 = PageSize * k + ((a + 1) % PageSize)
    <2>1. a + 1 \in Nat /\ PageSize \in Nat \ {0}
      BY Sizes
    <2> QED
      BY <2>1, Division
  <1>2. CASE (a + 1) % PageSize = 0
    <2> HIDE DEF k
    <2>1. a + 1 = PageSize * k
      BY <1>1, <1>2, Sizes
    <2>2. 0 < k
      BY <2>1, <1>1, Sizes
    <2>3. PageSize * 0 + PageSize <= PageSize * k
      BY <1>1, <2>2, Sizes, Multiples
    <2>4. PageSize <= a + 1
      BY <2>1, <2>3, Sizes
    <2> QED
      BY <2>4, <1>2, Sizes DEF NextInPage
  <1>3. CASE (a + 1) % PageSize # 0
    BY <1>3 DEF NextInPage
  <1> QED
    BY <1>2, <1>3

LEMMA ByteTyped == TypeInv /\ DmaByte /\ UNCHANGED Frame => TypeInv'
  <1> SUFFICES ASSUME TypeInv, DmaByte, UNCHANGED Frame PROVE TypeInv'
    OBVIOUS
  <1>1. dma.left > 0 /\ dma.left \in 0..Usable /\ dma.len \in 0..Usable
            /\ dma.left <= dma.len /\ dma \in Transfers
    BY RingTyped DEF DmaByte
  <1>2. NextInPage(dma.at) \in Nat /\ Wrap(dma.from + 1) \in Slots
    BY RingTyped, NextInPageIsNat, WrapNext
  <1>3. dma' = [dma EXCEPT !.at = NextInPage(@), !.from = Wrap(@ + 1),
                          !.left = @ - 1]
    BY DEF DmaByte
  <1>4. dma.left - 1 \in 0..Usable
    BY <1>1, Sizes
  <1>5. dma' = [at |-> NextInPage(dma.at), from |-> Wrap(dma.from + 1),
                left |-> dma.left - 1, len |-> dma.len]
    BY <1>1, <1>3 DEF Transfers
  <1>6. dma' \in Transfers
    BY <1>1, <1>2, <1>4, <1>5 DEF Transfers
  <1>7. dma'.len = dma.len /\ dma'.left = dma.left - 1
    BY <1>5
  <1>8. dma'.left <= dma'.len
    BY <1>1, <1>7, Sizes
  <1>9. flash' \in [Addresses -> Int]
    <2>1. flashWriteBuffer[dma.from] \in Int
      BY RingTyped
    <2>2. flash \in [Addresses -> Int] /\ Garbled \in Int
      BY RingTyped DEF Garbled
    <2> QED
      BY <2>1, <2>2 DEF DmaByte
  <1> QED
    BY <1>6, <1>7, <1>8, <1>9
    DEF DmaByte, Frame, logVars, traceVars, ringVars, eraseVars, scanVars,
        TypeInv, Fits, BlackboxTypeOK, FlashFsTypeOK

LEMMA CallbackTyped ==
    ASSUME TypeInv, WriteCallback
    PROVE  /\ FlashFsTypeOK'
           /\ dma' = NoTransfer
           /\ tailAddress' + dma'.len <= FlashSize
  <1>1. Wrap(bufferTail + dma.len) \in Slots
    BY RingTyped, Sizes, WrapSlot
  <1>2. tailAddress + dma.len \in 0..FlashSize
    BY RingTyped, Sizes
  <1>3. /\ dma' = NoTransfer /\ tailAddress' = tailAddress + dma.len
        /\ bufferTail' = Wrap(bufferTail + dma.len)
    BY DEF WriteCallback
  <1>4. tailAddress' + dma'.len <= FlashSize
    BY <1>2, <1>3, NoTransferTyped
  <1> QED
    BY <1>1, <1>2, <1>3, <1>4, NoTransferTyped
    DEF WriteCallback, eraseVars, scanVars, TypeInv, BlackboxTypeOK, FlashFsTypeOK

-----------------------------------------------------------------------------
(* The type invariant in its two halves, flashfs and the Blackbox.          *)

Device == <<chipVars, ringVars, dataWritten, tailAddress, eraseVars, scanVars>>

DeviceOK ==
    /\ FlashFsTypeOK
    /\ tailAddress + dma.len <= FlashSize
    /\ dma.left <= dma.len

LogOK ==
    /\ blackboxState \in BlackboxStates
    /\ cacheFlushNextState \in {"SEND_SYSINFO", "RUNNING"}
    /\ blackboxHeaderBudget \in Int
    /\ headerIndex \in Nat
    /\ startedLoggingInTestMode \in BOOLEAN
    /\ delayOver \in BOOLEAN
    /\ recording \in BOOLEAN
    /\ toWrite \in Nat
    /\ sent \in Nat /\ first \in Nat
    /\ tracked \in BOOLEAN
    /\ blackboxState = "SEND_HEADER" => headerIndex <= HeaderLen

PlaceOK ==
    /\ pc \in {"IDLE", "HEADER", "FLUSH", "END", "FLUSH_SYNC",
               "FLUSHED_SYNC", "SEARCH"}
    /\ pc = "SEARCH" => dma.len = 0 /\ toWrite = 0

LEMMA Halves == TypeInv <=> DeviceOK /\ LogOK /\ PlaceOK
  BY DEF TypeInv, Fits, BlackboxTypeOK, DeviceOK, LogOK, PlaceOK

LEMMA HalvesNext == DeviceOK' /\ LogOK' /\ PlaceOK' => TypeInv'
  BY DEF TypeInv, Fits, BlackboxTypeOK, DeviceOK, LogOK, PlaceOK

LEMMA QuietDevice ==
    ASSUME DeviceOK, UNCHANGED Device
    PROVE  DeviceOK'
  BY DEF DeviceOK, Device, FlashFsTypeOK, chipVars, ringVars, eraseVars, scanVars

LEMMA FlushDevice ==
    ASSUME TypeInv, NEW force, flashfsFlush(force)
    PROVE  DeviceOK'
  <1>1. bufferHead \in Slots /\ flashfsFlushAsync(bufferHead, force)
            /\ UNCHANGED tailAddress
    BY RingTyped DEF flashfsFlush
  <1>2. /\ dma' \in Transfers
        /\ dma'.left <= dma'.len
        /\ tailAddress' + dma'.len <= FlashSize
        /\ dataWritten' \in BOOLEAN
    BY <1>1, FlushTyped
  <1> QED
    BY <1>2, Halves DEF flashfsFlush, DeviceOK, FlashFsTypeOK, ringVars,
        eraseVars, scanVars

LEMMA EraseDevice ==
    ASSUME TypeInv, flashfsEraseCompletely, UNCHANGED scanVars
    PROVE  DeviceOK'
  <1>1. dma' \in Transfers /\ dma'.left <= dma'.len /\ dma'.len <= FlashSize
    <2>1. CASE WholeChip
      <3>1. dma' = NoTransfer
        BY <2>1 DEF flashfsEraseCompletely
      <3> QED
        BY <3>1, NoTransferTyped, Sizes
    <2>2. CASE ~WholeChip
      <3>1. dma' = dma
        BY <2>2 DEF flashfsEraseCompletely, chipVars
      <3> QED
        BY <3>1, RingTyped, Sizes
    <2> QED
      BY <2>1, <2>2
  <1>2. tailAddress' = 0 /\ tailAddress' + dma'.len <= FlashSize
            /\ tailAddress' \in 0..FlashSize
    <2>1. tailAddress' = 0 /\ dma'.len \in 0..Usable
      BY <1>1 DEF Transfers, flashfsEraseCompletely
    <2> QED
      BY <2>1, <1>1, Sizes
  <1>3. 0 \in 0..Sectors
    <2>1. Sectors \in Nat
      BY FlashAssumption, Division DEF Sectors
    <2> QED
      BY <2>1
  <1>4. flash' \in [Addresses -> Int] /\ busy' \in BOOLEAN
    <2>1. CASE WholeChip
      BY <2>1 DEF flashfsEraseCompletely, Erased
    <2>2. CASE ~WholeChip
      BY <2>2, Halves DEF flashfsEraseCompletely, chipVars, DeviceOK, FlashFsTypeOK
    <2> QED
      BY <2>1, <2>2
  <1>5. flashfsState' \in {"IDLE", "ERASING"} /\ eraseSectorCurrent' \in 0..Sectors
    BY <1>3, Halves DEF flashfsEraseCompletely, eraseVars, DeviceOK, FlashFsTypeOK
  <1>6. /\ bufferHead' \in Slots /\ bufferTail' \in Slots
        /\ flashWriteBuffer' = flashWriteBuffer /\ dataWritten' = dataWritten
    BY Sizes DEF flashfsEraseCompletely
  <1>7. dirty' = dirty /\ search' = search
    BY DEF scanVars
  <1> QED
    BY <1>1, <1>2, <1>4, <1>5, <1>6, <1>7, Halves DEF DeviceOK, FlashFsTypeOK

LEMMA ByteWritten ==
    ASSUME TypeInv, NEW byte \in Int, NEW endsString,
           flashfsWriteByte(byte, endsString), UNCHANGED tailAddress
    PROVE  /\ flashWriteBuffer' \in [Slots -> Int]
           /\ bufferHead' \in Slots
           /\ dma' \in Transfers
           /\ dma'.left <= dma'.len
           /\ tailAddress' + dma'.len <= FlashSize
           /\ dataWritten' \in BOOLEAN
  <1>1. bufferHead' = Wrap(bufferHead + 1) /\ bufferHead' \in Slots
    BY RingTyped, WrapNext DEF flashfsWriteByte
  <1>2. flashWriteBuffer' \in [Slots -> Int]
    BY RingTyped DEF flashfsWriteByte
  <1>3. bufferTail \in Slots /\ Used(bufferHead', bufferTail) \in 0..Usable
    BY <1>1, RingTyped, UsedRange
  <1>4. \/ WriteBuffers(bufferTail, Used(bufferHead', bufferTail))
        \/ flashfsFlushAsync(bufferHead', FALSE)
        \/ UNCHANGED <<dma, dataWritten>>
    BY DEF flashfsWriteByte
  <1>5. CASE WriteBuffers(bufferTail, Used(bufferHead', bufferTail))
    BY <1>1, <1>2, <1>3, <1>5, StartTyped
  <1>6. CASE flashfsFlushAsync(bufferHead', FALSE)
    BY <1>1, <1>2, <1>6, FlushTyped
  <1>7. CASE UNCHANGED <<dma, dataWritten>>
    BY <1>1, <1>2, <1>7, RingTyped
  <1> QED
    BY <1>4, <1>5, <1>6, <1>7

-----------------------------------------------------------------------------
(* The actions of flashfs preserve the type invariant. *)

LEMMA InterruptTyped == TypeInv /\ Interrupt => TypeInv'
  <1> SUFFICES ASSUME TypeInv, Interrupt PROVE TypeInv'
    OBVIOUS
  <1>0. LogOK' /\ toWrite' = toWrite
    BY Halves DEF Interrupt, LogOK, logVars, traceVars
  <1>1. CASE DmaByte
    BY <1>1, ByteTyped DEF Interrupt, Frame
  <1>2. CASE TransferDone
    <2>1. DeviceOK' /\ dma'.len = 0
      BY <1>2, CallbackTyped, NoTransferTyped DEF TransferDone, DeviceOK
    <2>2. PlaceOK'
      BY <1>0, <1>2, <2>1, Halves DEF TransferDone, PlaceOK
    <2> QED
      BY <1>0, <2>1, <2>2, HalvesNext
  <1>3. CASE ChipReady
    <2>1. /\ UNCHANGED <<flash, dma, ringVars, dataWritten, tailAddress,
                         eraseVars, scanVars, pc>>
          /\ busy' = FALSE
      BY <1>3 DEF ChipReady
    <2>2. DeviceOK'
      BY <2>1, Halves DEF DeviceOK, FlashFsTypeOK, ringVars, eraseVars, scanVars
    <2>3. PlaceOK'
      BY <1>0, <2>1, Halves DEF PlaceOK
    <2> QED
      BY <1>0, <2>2, <2>3, HalvesNext
  <1> QED
    BY <1>1, <1>2, <1>3 DEF Interrupt

LEMMA TaskMainTyped == TypeInv /\ TaskMain => TypeInv'
  <1> SUFFICES ASSUME TypeInv, TaskMain PROVE TypeInv'
    OBVIOUS
  <1>0. LogOK' /\ PlaceOK'
    BY Halves DEF TaskMain, flashfsEraseAsync, LogOK, PlaceOK, Idle, logVars, traceVars
  <1>1. flash' \in [Addresses -> Int] /\ busy' \in BOOLEAN
    <2>1. CASE eraseSectorCurrent < Sectors
      BY <2>1, RingTyped DEF TaskMain, flashfsEraseAsync, Erased
    <2>2. CASE ~(eraseSectorCurrent < Sectors)
      BY <2>2, Halves DEF TaskMain, flashfsEraseAsync, DeviceOK, FlashFsTypeOK
    <2> QED
      BY <2>1, <2>2
  <1>2. flashfsState' \in {"IDLE", "ERASING"} /\ eraseSectorCurrent' \in 0..Sectors
    <2>1. Sectors \in Nat
      BY FlashAssumption, Division DEF Sectors
    <2>2. eraseSectorCurrent \in 0..Sectors /\ flashfsState \in {"IDLE", "ERASING"}
      BY Halves DEF DeviceOK, FlashFsTypeOK
    <2> QED
      BY <2>1, <2>2 DEF TaskMain, flashfsEraseAsync
  <1>3. UNCHANGED <<dma, ringVars, dataWritten, tailAddress, scanVars>>
    BY DEF TaskMain, flashfsEraseAsync
  <1>4. DeviceOK'
    BY <1>1, <1>2, <1>3, Halves DEF DeviceOK, FlashFsTypeOK, ringVars, scanVars
  <1> QED
    BY <1>0, <1>4, HalvesNext

LEMMA MspReadTyped == TypeInv /\ MspRead => TypeInv'
  <1> SUFFICES ASSUME TypeInv, MspRead PROVE TypeInv'
    OBVIOUS
  <1>0. LogOK' /\ PlaceOK'
    BY Halves DEF MspRead, ReadAbs, LogOK, PlaceOK, logVars, traceVars
  <1>1. dirty' \in [from : Slots, total : 0..Usable]
    BY RingTyped, UsedRange DEF MspRead, ReadAbs
  <1>2. UNCHANGED <<chipVars, ringVars, dataWritten, tailAddress, eraseVars, search>>
    BY DEF MspRead, ReadAbs
  <1>3. DeviceOK'
    BY <1>1, <1>2, Halves DEF DeviceOK, FlashFsTypeOK, chipVars, ringVars, eraseVars
  <1> QED
    BY <1>0, <1>3, HalvesNext

LEMMA SyncWaitTyped == TypeInv /\ SyncWait => TypeInv'
  <1> SUFFICES ASSUME TypeInv, SyncWait PROVE TypeInv'
    OBVIOUS
  <1>0. LogOK' /\ PlaceOK'
    BY Halves DEF SyncWait, FlushSyncWrite, FlushSyncReturns, LogOK, PlaceOK,
        logVars, traceVars
  <1>1. CASE FlushSyncWrite
    <2>1. dirty.from \in Slots /\ dirty.total \in 0..Usable
      BY Halves DEF DeviceOK, FlashFsTypeOK
    <2>2. /\ WriteBuffers(dirty.from, dirty.total)
          /\ UNCHANGED <<flash, busy, ringVars, tailAddress, eraseVars, scanVars>>
      BY <1>1 DEF FlushSyncWrite
    <2>3. /\ dma' \in Transfers
          /\ dma'.left <= dma'.len
          /\ tailAddress' + dma'.len <= FlashSize
          /\ dataWritten' \in BOOLEAN
      BY <2>1, <2>2, StartTyped
    <2>4. DeviceOK'
      BY <2>2, <2>3, Halves DEF DeviceOK, FlashFsTypeOK, ringVars, eraseVars, scanVars
    <2> QED
      BY <1>0, <2>4, HalvesNext
  <1>2. CASE FlushSyncReturns
    <2>1. /\ UNCHANGED <<chipVars, ringVars, dataWritten, tailAddress, eraseVars, search>>
          /\ dirty' = NothingDirty
      BY <1>2 DEF FlushSyncReturns
    <2>2. dirty' \in [from : Slots, total : 0..Usable]
      BY <2>1, Sizes DEF NothingDirty
    <2>3. DeviceOK'
      BY <2>1, <2>2, Halves DEF DeviceOK, FlashFsTypeOK, chipVars, ringVars, eraseVars
    <2> QED
      BY <1>0, <2>3, HalvesNext
  <1> QED
    BY <1>1, <1>2 DEF SyncWait

LEMMA StartUpTyped == TypeInv /\ StartUp => TypeInv'
  <1> SUFFICES ASSUME TypeInv, StartUp PROVE TypeInv'
    OBVIOUS
  <1>0. LogOK' /\ PlaceOK'
    BY Halves DEF StartUp, SearchBlock, SearchEnds, chipVars, LogOK, PlaceOK,
        logVars, traceVars
  <1>1. /\ search \in [left : 0..Blocks, right : 0..Blocks, result : 0..Blocks]
        /\ search.left \in 0..Blocks /\ search.right \in 0..Blocks
        /\ search.result \in 0..Blocks /\ Blocks \in Nat
    BY Halves, BlocksFill DEF DeviceOK, FlashFsTypeOK
  <1>2. CASE SearchBlock
    <2> DEFINE mid == (search.left + search.right) \div 2
    <2>1. mid \in 0..Blocks /\ mid + 1 \in 0..Blocks
      BY <1>1, <1>2 DEF SearchBlock
    <2>2. search' \in [left : 0..Blocks, right : 0..Blocks, result : 0..Blocks]
      <3>1. \/ search' = [search EXCEPT !.right = mid, !.result = mid]
            \/ search' = [search EXCEPT !.left = mid + 1]
        BY <1>2 DEF SearchBlock
      <3> HIDE DEF mid
      <3> QED
        BY <1>1, <2>1, <3>1
    <2>3. UNCHANGED <<chipVars, ringVars, dataWritten, tailAddress, eraseVars, dirty>>
      BY <1>2 DEF SearchBlock
    <2>4. DeviceOK'
      BY <2>2, <2>3, Halves DEF DeviceOK, FlashFsTypeOK, chipVars, ringVars, eraseVars
    <2> QED
      BY <1>0, <2>4, HalvesNext
  <1>3. CASE SearchEnds
    <2>1. /\ UNCHANGED <<chipVars, ringVars, dataWritten, eraseVars, dirty>>
          /\ search' = WholeVolume
          /\ tailAddress' = search.result * FreeBlockSize
          /\ dma.len = 0
      BY <1>3, Halves DEF SearchEnds, PlaceOK
    <2>2. tailAddress' \in 0..FlashSize
      BY <1>1, <2>1, BlockWithin
    <2>3. search' \in [left : 0..Blocks, right : 0..Blocks, result : 0..Blocks]
      BY <2>1, BlocksFill DEF WholeVolume
    <2>4. tailAddress' + dma'.len <= FlashSize
      BY <2>1, <2>2, Sizes DEF chipVars
    <2>5. DeviceOK'
      BY <2>1, <2>2, <2>3, <2>4, Halves
      DEF DeviceOK, FlashFsTypeOK, chipVars, ringVars, eraseVars
    <2> QED
      BY <1>0, <2>5, HalvesNext
  <1> QED
    BY <1>2, <1>3 DEF StartUp

-----------------------------------------------------------------------------
(* The actions of the Blackbox preserve it.                                 *)

LEMMA Lengths ==
    /\ HeaderBudget \in Nat \ {0} /\ MaxBudget \in Nat
    /\ HeaderLen \in Nat \ {0} /\ Fields \in Nat /\ Lines \in Nat
    /\ FieldLen \in Nat \ {0} /\ LineLen \in Nat \ {0} /\ LineName \in Nat
    /\ LineName <= LineLen /\ LineLen <= HeaderBudget
    /\ FrameLens \subseteq Nat /\ EventLen \in Nat
  BY Sizes, BlackboxAssumption

LEMMA QuietTyped ==
    ASSUME TypeInv, UNCHANGED Device, LogOK', PlaceOK'
    PROVE  TypeInv'
  BY Halves, HalvesNext, QuietDevice

LEMMA FlushedTyped ==
    ASSUME TypeInv, NEW force, flashfsFlush(force), LogOK', PlaceOK'
    PROVE  TypeInv'
  BY HalvesNext, FlushDevice

LEMMA WrittenIsQuiet == NothingWritten => UNCHANGED <<Device, traceVars, toWrite>>
  BY DEF NothingWritten, Device

LEMMA StartIsQuiet ==
    ASSUME NEW bytes, StartWriting(bytes)
    PROVE  UNCHANGED Device /\ toWrite' = bytes
  BY DEF StartWriting, Device

LEMMA FlushIsQuiet ==
    ASSUME NEW force, flashfsFlush(force)
    PROVE  UNCHANGED <<traceVars, toWrite>>
  BY DEF flashfsFlush

LEMMA FinishTyped ==
    ASSUME LogOK, blackboxFinish
    PROVE  /\ blackboxState' \in BlackboxStates
           /\ delayOver' \in BOOLEAN
           /\ blackboxState' = "SEND_HEADER" => blackboxState = "SEND_HEADER"
  BY DEF LogOK, blackboxFinish, BlackboxStates

LEMMA UpdateTyped == TypeInv /\ blackboxUpdate => TypeInv'
  <1> SUFFICES ASSUME TypeInv, blackboxUpdate PROVE TypeInv'
    OBVIOUS
  <1>1. PICK blackboxBox, eraseBox, iFrame \in BOOLEAN :
          \/ /\ \/ Stopped(eraseBox)
                \/ PrepareLogFile
                \/ CacheFlush
                \/ ShuttingDown
                \/ EraseCase(eraseBox)
                \/ Disabled
                \/ RunningEnds(blackboxBox)
                \/ StaysPaused(blackboxBox, iFrame)
             /\ pc' = "END"
          \/ LogIteration(blackboxBox, iFrame) /\ pc' = "FLUSH"
    BY DEF blackboxUpdate
  <1>2. UNCHANGED <<cacheFlushNextState, startedLoggingInTestMode, recording>>
    BY DEF blackboxUpdate
  <1>3. PlaceOK' /\ LogOK
    BY <1>1, Halves DEF PlaceOK
  <1>4. CASE Stopped(eraseBox)
    <2>1. UNCHANGED <<Device, traceVars, toWrite>>
      BY <1>4, WrittenIsQuiet DEF Stopped
    <2>2. blackboxState' \in BlackboxStates /\ blackboxState' # "SEND_HEADER"
      BY <1>4 DEF Stopped, Started, BlackboxStates, EraseStates
    <2>3. UNCHANGED <<blackboxHeaderBudget, headerIndex, delayOver, traceVars, toWrite>>
      BY <1>4, <2>1 DEF Stopped
    <2>4. LogOK'
      BY <1>2, <1>3, <2>2, <2>3 DEF LogOK, traceVars
    <2> QED
      BY <1>3, <2>1, <2>4, QuietTyped
  <1>5. CASE PrepareLogFile
    <2>1. UNCHANGED <<Device, traceVars, toWrite>>
      BY <1>5, WrittenIsQuiet DEF PrepareLogFile
    <2>2. /\ blackboxState' = "SEND_HEADER" /\ headerIndex' = 0
          /\ blackboxHeaderBudget' = 0 /\ delayOver' = FALSE
      BY <1>5 DEF PrepareLogFile
    <2>3. blackboxState' \in BlackboxStates
      BY <2>2 DEF BlackboxStates, HeaderStates
    <2>4. /\ headerIndex' \in Nat /\ headerIndex' <= HeaderLen
          /\ blackboxHeaderBudget' \in Int
      BY <2>2, Lengths
    <2>5. delayOver' \in BOOLEAN
      BY <2>2
    <2>6. LogOK'
      BY <1>2, <1>3, <2>1, <2>3, <2>4, <2>5 DEF LogOK, traceVars
    <2> QED
      BY <1>3, <2>1, <2>6, QuietTyped
  <1>6. CASE CacheFlush
    <2>1. \/ UNCHANGED Device
          \/ flashfsFlush(TRUE)
      BY <1>6, WrittenIsQuiet DEF CacheFlush
    <2>2. UNCHANGED <<traceVars, toWrite>>
      BY <1>6, WrittenIsQuiet, FlushIsQuiet DEF CacheFlush
    <2>3. /\ blackboxState' \in BlackboxStates /\ blackboxState' # "SEND_HEADER"
          /\ headerIndex' \in Nat
      <3>1. \/ /\ blackboxState' = cacheFlushNextState
               /\ headerIndex' \in {0, headerIndex}
            \/ UNCHANGED <<blackboxState, headerIndex>> /\ blackboxState = "CACHE_FLUSH"
        BY <1>6 DEF CacheFlush
      <3>2. cacheFlushNextState \in {"SEND_SYSINFO", "RUNNING"} /\ headerIndex \in Nat
        BY <1>3 DEF LogOK
      <3>3. {"SEND_SYSINFO", "RUNNING", "CACHE_FLUSH"} \subseteq BlackboxStates
        BY DEF BlackboxStates, HeaderStates
      <3> QED
        BY <3>1, <3>2, <3>3
    <2>4. LogOK'
      BY <1>2, <1>3, <1>6, <2>2, <2>3 DEF CacheFlush, LogOK, traceVars
    <2> QED
      BY <1>3, <2>1, <2>4, QuietTyped, FlushedTyped
  <1>7. CASE ShuttingDown
    <2>1. \/ UNCHANGED Device
          \/ flashfsFlush(TRUE)
      BY <1>7, WrittenIsQuiet DEF ShuttingDown
    <2>2. UNCHANGED <<traceVars, toWrite>>
      BY <1>7, WrittenIsQuiet, FlushIsQuiet DEF ShuttingDown
    <2>3. LogOK'
      BY <1>2, <1>3, <1>7, <2>2 DEF ShuttingDown, LogOK, traceVars, BlackboxStates
    <2> QED
      BY <1>3, <2>1, <2>3, QuietTyped, FlushedTyped
  <1>8. CASE EraseCase(eraseBox)
    <2>1. UNCHANGED <<Device, traceVars, toWrite>>
      BY <1>8, WrittenIsQuiet DEF EraseCase
    <2>2. LogOK'
      BY <1>2, <1>3, <1>8, <2>1
      DEF EraseCase, LogOK, traceVars, BlackboxStates, EraseStates
    <2> QED
      BY <1>3, <2>1, <2>2, QuietTyped
  <1>9. CASE Disabled
    <2>1. UNCHANGED <<Device, traceVars, toWrite>>
      BY <1>9, WrittenIsQuiet DEF Disabled
    <2>2. LogOK'
      BY <1>2, <1>3, <1>9, <2>1 DEF Disabled, LogOK, traceVars
    <2> QED
      BY <1>3, <2>1, <2>2, QuietTyped
  <1>10. CASE RunningEnds(blackboxBox)
    <2>1. CASE Pauses(blackboxBox) /\ blackboxState' = "PAUSED"
                   /\ NothingWritten /\ UNCHANGED delayOver
      <3>1. UNCHANGED <<Device, traceVars, toWrite>>
        BY <2>1, WrittenIsQuiet
      <3>2. LogOK'
        BY <1>2, <1>3, <1>10, <2>1, <3>1
        DEF RunningEnds, LogOK, traceVars, BlackboxStates
      <3> QED
        BY <1>3, <3>1, <3>2, QuietTyped
    <2>2. CASE blackboxFinish /\ StartWriting(LastEvent) /\ UNCHANGED traceVars
      <3>1. UNCHANGED Device /\ toWrite' \in Nat
        BY <2>2, StartIsQuiet, Lengths DEF LastEvent
      <3>2. LogOK'
        BY <1>2, <1>3, <1>10, <2>2, <3>1, FinishTyped DEF RunningEnds, LogOK, traceVars
      <3> QED
        BY <1>3, <3>1, <3>2, QuietTyped
    <2> QED
      BY <1>10, <2>1, <2>2 DEF RunningEnds
  <1>11. CASE StaysPaused(blackboxBox, iFrame)
    <2>1. UNCHANGED <<Device, traceVars, toWrite>>
      BY <1>11, WrittenIsQuiet DEF StaysPaused
    <2>2. LogOK'
      BY <1>2, <1>3, <1>11, <2>1 DEF StaysPaused, LogOK, traceVars
    <2> QED
      BY <1>3, <2>1, <2>2, QuietTyped
  <1>12. CASE LogIteration(blackboxBox, iFrame)
    <2>1. PICK frame \in FrameLens :
             StartWriting(IF blackboxState = "PAUSED" THEN EventLen + frame ELSE frame)
      BY <1>12 DEF LogIteration
    <2>2. UNCHANGED Device /\ toWrite' \in Nat
      BY <2>1, StartIsQuiet, Lengths
    <2>3. LogOK'
      BY <1>2, <1>3, <1>12, <2>2 DEF LogIteration, LogOK, traceVars, BlackboxStates
    <2> QED
      BY <1>3, <2>2, <2>3, QuietTyped
  <1> QED
    BY <1>1, <1>4, <1>5, <1>6, <1>7, <1>8, <1>9, <1>10, <1>11, <1>12

LEMMA ReplenishTyped ==
    ASSUME TypeInv, NEW free \in Int, Replenish(free)
    PROVE  LogOK' /\ PlaceOK'
  <1>1. LogOK
    BY Halves
  <1>2. blackboxHeaderBudget' \in Int
    <2>1. blackboxHeaderBudget \in Int /\ HeaderBudget \in Int /\ MaxBudget \in Int
      BY <1>1, Lengths DEF LogOK
    <2>2. Lesser(free, blackboxHeaderBudget + HeaderBudget) \in Int
      BY <2>1 DEF Lesser
    <2> HIDE DEF Lesser
    <2>3. blackboxHeaderBudget' =
             Lesser(Lesser(free, blackboxHeaderBudget + HeaderBudget), MaxBudget)
      BY DEF Replenish
    <2> QED
      BY <2>1, <2>2, <2>3 DEF Lesser
  <1>3. pc' = "HEADER"
    BY DEF Replenish
  <1> QED
    BY <1>1, <1>2, <1>3 DEF Replenish, LogOK, PlaceOK, traceVars

LEMMA ReplenishStepTyped ==
    TypeInv /\ (ReplenishHeaderBudget \/ ReplenishTorn) => TypeInv'
  <1>1. ASSUME TypeInv, ReplenishHeaderBudget PROVE TypeInv'
    <2>1. FreeSpace \in Int
      <3>1. Used(bufferHead, bufferTail) \in 0..Usable
        BY <1>1, RingTyped, UsedRange
      <3> QED
        BY <3>1, Sizes DEF FreeSpace
    <2>2. LogOK' /\ PlaceOK'
      BY <1>1, <2>1, ReplenishTyped DEF ReplenishHeaderBudget
    <2> QED
      BY <1>1, <2>2, QuietTyped DEF ReplenishHeaderBudget, Device
  <1>2. ASSUME TypeInv, ReplenishTorn PROVE TypeInv'
    <2>1. DeviceOK'
      BY <1>2, CallbackTyped, NoTransferTyped DEF ReplenishTorn, DeviceOK
    <2>2. Usable - (BufferSize - bufferTail' + bufferHead) \in Int
      <3>1. bufferTail' \in Slots /\ bufferHead \in Slots
        BY <1>2, <2>1, RingTyped DEF DeviceOK, FlashFsTypeOK
      <3> QED
        BY <3>1, Sizes DEF Slots
    <2>3. LogOK' /\ PlaceOK'
      BY <1>2, <2>2, ReplenishTyped DEF ReplenishTorn
    <2> QED
      BY <2>1, <2>3, HalvesNext
  <1> QED
    BY <1>1, <1>2

(* What a step of the header does to the device. *)
LEMMA HeaderDevice ==
    ASSUME TypeInv, SendHeader \/ SendFields \/ SendSysinfo, LogOK', PlaceOK'
    PROVE  TypeInv'
  <1>1. \/ \E bytes \in Int : StartWriting(bytes)
        \/ flashfsFlush(TRUE)
        \/ NothingWritten
    <2>1. HeaderBudget \in Int /\ FieldLen \in Int /\ LineLen \in Int
      BY Lengths
    <2>2. Lesser(HeaderBudget, HeaderLen - headerIndex) \in Int
      BY Lengths, Halves DEF Lesser, LogOK
    <2> QED
      BY <2>1, <2>2 DEF SendHeader, SendFields, SendSysinfo, ReserveFails
  <1> QED
    BY <1>1, StartIsQuiet, WrittenIsQuiet, QuietTyped, FlushedTyped

LEMMA ReserveQuiet ==
    ASSUME NEW bytes, ReserveFails(bytes)
    PROVE  UNCHANGED <<traceVars, toWrite>>
  BY WrittenIsQuiet, FlushIsQuiet DEF ReserveFails

LEMMA HeaderTyped == TypeInv /\ HeaderStep => TypeInv'
  <1> SUFFICES ASSUME TypeInv, HeaderStep PROVE TypeInv'
    OBVIOUS
  <1>1. LogOK /\ PlaceOK
    BY Halves
  <1>2. UNCHANGED <<startedLoggingInTestMode, delayOver, recording>>
    BY DEF HeaderStep
  <1>3. CASE SendHeader
    <2>1. PlaceOK'
      BY <1>3 DEF SendHeader, PlaceOK
    <2>2. headerIndex \in Nat /\ headerIndex <= HeaderLen /\ sent \in Nat
      BY <1>1, <1>3 DEF LogOK, SendHeader
    <2> DEFINE n == Lesser(HeaderBudget, HeaderLen - headerIndex)
    <2>3. n \in Nat /\ headerIndex + n \in Nat /\ headerIndex + n <= HeaderLen
      BY <2>2, Lengths DEF Lesser
    <2>4. UNCHANGED <<blackboxState, cacheFlushNextState>>
      BY <1>3 DEF SendHeader
    <2>5. CASE /\ StartWriting(n)
               /\ blackboxHeaderBudget' = blackboxHeaderBudget - n
               /\ headerIndex' = headerIndex + n
               /\ IF headerIndex = 0
                  THEN first' = sent + 1 /\ tracked' = TRUE /\ UNCHANGED sent
                  ELSE UNCHANGED traceVars
      <3> HIDE DEF n
      <3>1. toWrite' \in Nat /\ headerIndex' \in Nat /\ headerIndex' <= HeaderLen
        BY <2>3, <2>5, StartIsQuiet
      <3>2. blackboxHeaderBudget' \in Int
        <4>1. blackboxHeaderBudget \in Int
          BY <1>1 DEF LogOK
        <4> QED
          BY <2>3, <2>5, <4>1
      <3>3. first' \in Nat /\ sent' \in Nat
        <4>1. sent \in Nat /\ first \in Nat
          BY <1>1 DEF LogOK
        <4>2. sent' = sent /\ (first' = sent + 1 \/ first' = first)
          BY <2>5 DEF traceVars
        <4> QED
          BY <4>1, <4>2
      <3>4. tracked' \in BOOLEAN
        <4>1. tracked \in BOOLEAN
          BY <1>1 DEF LogOK
        <4> QED
          BY <2>5, <4>1 DEF traceVars
      <3>5. LogOK'
        BY <1>1, <1>2, <2>4, <3>1, <3>2, <3>3, <3>4 DEF LogOK
      <3> QED
        BY <1>3, <2>1, <3>5, HeaderDevice
    <2>6. CASE /\ ReserveFails(HeaderBudget) \/ NothingWritten
               /\ UNCHANGED <<blackboxHeaderBudget, headerIndex>>
      <3>1. UNCHANGED <<traceVars, toWrite>>
        BY <2>6, ReserveQuiet, WrittenIsQuiet
      <3>2. LogOK'
        BY <1>1, <1>2, <2>4, <2>6, <3>1 DEF LogOK, traceVars
      <3> QED
        BY <1>3, <2>1, <3>2, HeaderDevice
    <2> QED
      BY <1>3, <2>5, <2>6 DEF SendHeader
  <1>4. CASE SendFields \/ SendSysinfo
    <2>1. PlaceOK'
      BY <1>1, <1>4 DEF SendFields, SendSysinfo, PlaceOK, HeaderStep
    <2>2. blackboxState \in {"SEND_FIELDS", "SEND_SYSINFO"}
      BY <1>4 DEF SendFields, SendSysinfo
    <2>3. blackboxState' \in {blackboxState, "CACHE_FLUSH"}
      BY <1>4 DEF SendFields, SendSysinfo
    <2>4. blackboxState' \in BlackboxStates /\ blackboxState' # "SEND_HEADER"
      BY <2>2, <2>3 DEF BlackboxStates, HeaderStates
    <2>5. cacheFlushNextState' \in {"SEND_SYSINFO", "RUNNING"}
      BY <1>1, <1>4 DEF SendFields, SendSysinfo, LogOK
    <2>6. headerIndex \in Nat /\ blackboxHeaderBudget \in Int
      BY <1>1 DEF LogOK
    <2>7. headerIndex' \in Nat
      BY <1>4, <2>6 DEF SendFields, SendSysinfo
    <2>8. blackboxHeaderBudget' \in Int
      BY <1>4, <2>6, Lengths DEF SendFields, SendSysinfo
    <2>9. UNCHANGED traceVars /\ toWrite' \in Nat
      <3>1. toWrite \in Nat
        BY <1>1 DEF LogOK
      <3> QED
        BY <1>4, <3>1, Lengths, StartIsQuiet, WrittenIsQuiet, ReserveQuiet
        DEF SendFields, SendSysinfo
    <2>10. LogOK'
      BY <1>1, <1>2, <2>4, <2>5, <2>7, <2>8, <2>9 DEF LogOK, traceVars
    <2> QED
      BY <1>4, <2>1, <2>10, HeaderDevice
  <1> QED
    BY <1>3, <1>4 DEF HeaderStep

LEMMA WriteByteTyped == TypeInv /\ WriteByte => TypeInv'
  <1> SUFFICES ASSUME TypeInv, WriteByte PROVE TypeInv'
    OBVIOUS
  <1>1. LogOK /\ PlaceOK /\ DeviceOK
    BY Halves
  <1>2. sent \in Nat /\ sent + 1 \in Int /\ sent + 1 \in Nat
    BY <1>1 DEF LogOK
  <1>3. PICK endsString \in BOOLEAN : flashfsWriteByte(sent + 1, endsString)
    BY DEF WriteByte
  <1>4. UNCHANGED tailAddress
    BY DEF WriteByte
  <1>5. /\ flashWriteBuffer' \in [Slots -> Int]
        /\ bufferHead' \in Slots
        /\ dma' \in Transfers
        /\ dma'.left <= dma'.len
        /\ tailAddress' + dma'.len <= FlashSize
        /\ dataWritten' \in BOOLEAN
    BY <1>2, <1>3, <1>4, ByteWritten
  <1>6. UNCHANGED <<flash, busy, bufferTail, tailAddress, eraseVars, scanVars>>
    BY DEF WriteByte
  <1>7. DeviceOK'
    BY <1>1, <1>5, <1>6 DEF DeviceOK, FlashFsTypeOK, eraseVars, scanVars
  <1>8. toWrite \in Nat /\ toWrite > 0 /\ toWrite' = toWrite - 1
    BY <1>1 DEF WriteByte, LogOK
  <1>9. toWrite' \in Nat /\ sent' \in Nat
    BY <1>2, <1>8 DEF WriteByte
  <1>10. tracked' \in BOOLEAN
    BY <1>1 DEF WriteByte, LogOK
  <1>11. LogOK'
    BY <1>1, <1>9, <1>10 DEF WriteByte, LogOK, logVars
  <1>12. PlaceOK'
    BY <1>1, <1>8 DEF WriteByte, PlaceOK
  <1> QED
    BY <1>7, <1>11, <1>12, HalvesNext

LEMMA DeviceFlushTyped == TypeInv /\ DeviceFlush => TypeInv'
  <1> SUFFICES ASSUME TypeInv, DeviceFlush PROVE TypeInv'
    OBVIOUS
  <1>1. flashfsFlush(FALSE) /\ UNCHANGED <<traceVars, toWrite>>
    BY FlushIsQuiet DEF DeviceFlush
  <1>2. LogOK' /\ PlaceOK'
    BY <1>1, Halves DEF DeviceFlush, LogOK, PlaceOK, logVars, traceVars
  <1> QED
    BY <1>1, <1>2, FlushedTyped

LEMMA EraseTyped == TypeInv /\ (StartErase \/ (Idle /\ MspErase)) => TypeInv'
  <1> SUFFICES ASSUME TypeInv, StartErase \/ (Idle /\ MspErase) PROVE TypeInv'
    OBVIOUS
  <1>1. PICK stateAfter \in {"ERASING", "STOPPED"} : EraseAll(stateAfter)
    BY DEF StartErase, MspErase
  <1>2. DeviceOK'
    BY <1>1, EraseDevice DEF EraseAll
  <1>3. pc' \in {"IDLE", "END"}
    BY DEF StartErase, MspErase, Idle
  <1>4. blackboxState' \in BlackboxStates /\ blackboxState' # "SEND_HEADER"
    BY <1>1 DEF EraseAll, BlackboxStates, EraseStates
  <1>5. sent' \in Nat /\ first' \in Nat
    BY <1>1 DEF EraseAll
  <1>6. tracked' \in BOOLEAN
    BY <1>1 DEF EraseAll
  <1>7. UNCHANGED <<toWrite, cacheFlushNextState, blackboxHeaderBudget, headerIndex,
                    delayOver, startedLoggingInTestMode, recording>>
    BY <1>1 DEF EraseAll
  <1>8. LogOK'
    BY <1>4, <1>5, <1>6, <1>7, Halves DEF LogOK
  <1>9. PlaceOK'
    BY <1>3 DEF PlaceOK
  <1> QED
    BY <1>2, <1>8, <1>9, HalvesNext

LEMMA LastEventIsNat == LastEvent \in Nat /\ 2 * LastEvent \in Nat
  BY Lengths DEF LastEvent

LEMMA UpdateEndsTyped == TypeInv /\ UpdateEnds => TypeInv'
  <1> SUFFICES ASSUME TypeInv, UpdateEnds PROVE TypeInv'
    OBVIOUS
  <1>1. LogOK
    BY Halves
  <1>2. UNCHANGED Device
    BY DEF UpdateEnds, Device
  <1>3. PlaceOK'
    BY DEF UpdateEnds, PlaceOK
  <1>4. UNCHANGED <<traceVars, cacheFlushNextState, blackboxHeaderBudget, recording>>
    BY DEF UpdateEnds
  <1>5. toWrite' \in Nat
    <2>1. toWrite \in Nat
      BY <1>1 DEF LogOK
    <2>2. toWrite' = toWrite \/ toWrite' = LastEvent
      BY DEF UpdateEnds
    <2> QED
      BY <2>1, <2>2, LastEventIsNat
  <1>6. headerIndex' \in Nat
    <2>1. headerIndex \in Nat
      BY <1>1 DEF LogOK
    <2> QED
      BY <2>1 DEF UpdateEnds
  <1>7. startedLoggingInTestMode' \in BOOLEAN
    BY <1>1 DEF UpdateEnds, StartInTestMode, LogOK
  <1>8. /\ blackboxState' \in BlackboxStates /\ delayOver' \in BOOLEAN
        /\ blackboxState' = "SEND_HEADER" => blackboxState = "SEND_HEADER"
                                                /\ headerIndex' \in {headerIndex, 0}
    <2>1. /\ blackboxState \in BlackboxStates /\ delayOver \in BOOLEAN
          /\ headerIndex' \in {headerIndex, 0}
      BY <1>1 DEF LogOK, UpdateEnds
    <2>2. \/ blackboxState' = "STOPPED" /\ UNCHANGED delayOver
          \/ StartInTestMode /\ UNCHANGED delayOver
          \/ blackboxFinish
          \/ blackboxState' = AfterHeader /\ UNCHANGED delayOver
      BY DEF UpdateEnds
    <2>3. CASE blackboxState' = "STOPPED" /\ UNCHANGED delayOver
      BY <2>1, <2>3 DEF BlackboxStates
    <2>4. CASE StartInTestMode /\ UNCHANGED delayOver
      BY <2>1, <2>4 DEF StartInTestMode, Started, BlackboxStates
    <2>5. CASE blackboxFinish
      BY <1>1, <2>1, <2>5, FinishTyped
    <2>6. CASE blackboxState' = AfterHeader /\ UNCHANGED delayOver
      BY <2>1, <2>6 DEF AfterHeader, BlackboxStates, HeaderStates
    <2> QED
      BY <2>2, <2>3, <2>4, <2>5, <2>6
  <1>9. blackboxState' = "SEND_HEADER" => headerIndex' <= HeaderLen
    <2> SUFFICES ASSUME blackboxState' = "SEND_HEADER" PROVE headerIndex' <= HeaderLen
      OBVIOUS
    <2>1. headerIndex <= HeaderLen /\ headerIndex' \in {headerIndex, 0}
      BY <1>1, <1>8 DEF LogOK
    <2> QED
      BY <2>1, Lengths
  <1>10. LogOK'
    BY <1>1, <1>4, <1>5, <1>6, <1>7, <1>8, <1>9 DEF LogOK, traceVars
  <1> QED
    BY <1>2, <1>3, <1>10, QuietTyped

LEMMA OutsideTyped == TypeInv /\ (DelayOver \/ StartsRecording \/ Disarm) => TypeInv'
  <1> SUFFICES ASSUME TypeInv, DelayOver \/ StartsRecording \/ Disarm PROVE TypeInv'
    OBVIOUS
  <1>1. LogOK /\ PlaceOK
    BY Halves
  <1>2. CASE DelayOver
    <2>1. UNCHANGED Device
      BY <1>2 DEF DelayOver, Device
    <2>2. LogOK' /\ PlaceOK'
      BY <1>1, <1>2 DEF DelayOver, LogOK, PlaceOK, Idle, traceVars
    <2> QED
      BY <2>1, <2>2, QuietTyped
  <1>3. CASE StartsRecording
    <2>1. UNCHANGED <<Device, traceVars, toWrite>>
      BY <1>3, WrittenIsQuiet DEF StartsRecording
    <2>2. LogOK' /\ PlaceOK'
      BY <1>1, <1>3, <2>1 DEF StartsRecording, LogOK, PlaceOK, Idle, logVars, traceVars
    <2> QED
      BY <2>1, <2>2, QuietTyped
  <1>4. CASE Disarm
    <2>1. \/ blackboxFinish /\ StartWriting(2 * LastEvent)
          \/ StartWriting(LastEvent) /\ UNCHANGED <<blackboxState, delayOver>>
      BY <1>4 DEF Disarm
    <2>2. UNCHANGED Device /\ toWrite' \in Nat
      BY <2>1, StartIsQuiet, LastEventIsNat
    <2>3. /\ blackboxState' \in BlackboxStates /\ delayOver' \in BOOLEAN
          /\ blackboxState' = "SEND_HEADER" => blackboxState = "SEND_HEADER"
      BY <1>1, <2>1, FinishTyped DEF LogOK
    <2>4. /\ UNCHANGED <<cacheFlushNextState, blackboxHeaderBudget, headerIndex,
                         startedLoggingInTestMode, traceVars, pc>>
          /\ recording' = FALSE /\ pc = "IDLE"
      BY <1>4 DEF Disarm, Idle
    <2>5. LogOK'
      BY <1>1, <2>2, <2>3, <2>4 DEF LogOK, traceVars
    <2>6. PlaceOK'
      BY <2>4 DEF PlaceOK
    <2> QED
      BY <2>2, <2>5, <2>6, QuietTyped
  <1> QED
    BY <1>2, <1>3, <1>4

LEMMA PowerCycleTyped == TypeInv /\ PowerCycle => TypeInv'
  <1> SUFFICES ASSUME TypeInv, PowerCycle PROVE TypeInv'
    OBVIOUS
  <1>1. flash' \in [Addresses -> Int]
    BY RingTyped DEF PowerCycle, flashfsInit, Old
  <1>2. flashWriteBuffer' \in [Slots -> Int]
    BY DEF PowerCycle, flashfsInit, Old
  <1>3. dma' \in Transfers /\ dma'.len = 0 /\ dma'.left = 0 /\ tailAddress' = 0
    BY NoTransferTyped DEF PowerCycle, flashfsInit
  <1>4. tailAddress' \in 0..FlashSize /\ tailAddress' + dma'.len <= FlashSize
            /\ dma'.left <= dma'.len
    BY <1>3, Sizes
  <1>5. /\ bufferHead' \in Slots /\ bufferTail' \in Slots
        /\ dirty' \in [from : Slots, total : 0..Usable]
    BY Sizes DEF PowerCycle, flashfsInit, NothingDirty
  <1>6. search' \in [left : 0..Blocks, right : 0..Blocks, result : 0..Blocks]
    BY BlocksFill DEF PowerCycle, flashfsInit, WholeVolume
  <1>7. busy' \in BOOLEAN /\ dataWritten' \in BOOLEAN
            /\ flashfsState' \in {"IDLE", "ERASING"}
    BY DEF PowerCycle, flashfsInit
  <1>8. eraseSectorCurrent' \in 0..Sectors
    <2>1. Sectors \in Nat
      BY FlashAssumption, Division DEF Sectors
    <2> QED
      BY <2>1 DEF PowerCycle, flashfsInit
  <1>9. DeviceOK'
    BY <1>1, <1>2, <1>3, <1>4, <1>5, <1>6, <1>7, <1>8 DEF DeviceOK, FlashFsTypeOK
  <1>10. /\ blackboxHeaderBudget' \in Int /\ headerIndex' \in Nat
         /\ toWrite' = 0 /\ toWrite' \in Nat /\ sent' \in Nat /\ first' \in Nat
    BY DEF PowerCycle
  <1>11. /\ startedLoggingInTestMode' \in BOOLEAN /\ delayOver' \in BOOLEAN
         /\ recording' \in BOOLEAN /\ tracked' \in BOOLEAN
         /\ blackboxState' = "STOPPED" /\ cacheFlushNextState' = "SEND_SYSINFO"
         /\ pc' = "SEARCH"
    BY DEF PowerCycle, flashfsInit
  <1>12. LogOK'
    BY <1>10, <1>11 DEF LogOK, BlackboxStates
  <1>13. PlaceOK'
    BY <1>3, <1>10, <1>11 DEF PlaceOK
  <1> QED
    BY <1>9, <1>12, <1>13, HalvesNext

-----------------------------------------------------------------------------
(* The theorem. *)

LEMMA InitTyped == LogInit => TypeInv
  <1> SUFFICES ASSUME LogInit PROVE TypeInv
    OBVIOUS
  <1>1. flash \in [Addresses -> Int] /\ flashWriteBuffer \in [Slots -> Int]
    BY DEF LogInit, FlashFsInit, Erased, Old
  <1>2. dma \in Transfers /\ dma.len = 0 /\ dma.left = 0 /\ tailAddress = 0
    BY NoTransferTyped DEF LogInit, FlashFsInit
  <1>3. tailAddress \in 0..FlashSize /\ tailAddress + dma.len <= FlashSize
            /\ dma.left <= dma.len
    BY <1>2, Sizes
  <1>4. /\ bufferHead \in Slots /\ bufferTail \in Slots
        /\ dirty \in [from : Slots, total : 0..Usable]
    BY Sizes DEF LogInit, FlashFsInit, NothingDirty
  <1>5. search \in [left : 0..Blocks, right : 0..Blocks, result : 0..Blocks]
    BY BlocksFill DEF LogInit, FlashFsInit, WholeVolume
  <1>6. busy \in BOOLEAN /\ dataWritten \in BOOLEAN
            /\ flashfsState \in {"IDLE", "ERASING"}
    BY DEF LogInit, FlashFsInit
  <1>7. eraseSectorCurrent \in 0..Sectors
    <2>1. Sectors \in Nat
      BY FlashAssumption, Division DEF Sectors
    <2> QED
      BY <2>1 DEF LogInit, FlashFsInit
  <1>8. DeviceOK
    BY <1>1, <1>2, <1>3, <1>4, <1>5, <1>6, <1>7 DEF DeviceOK, FlashFsTypeOK
  <1>9. /\ blackboxHeaderBudget \in Int /\ headerIndex \in Nat
        /\ toWrite = 0 /\ toWrite \in Nat /\ sent \in Nat /\ first \in Nat
    BY DEF LogInit, BlackboxInit
  <1>10. /\ startedLoggingInTestMode \in BOOLEAN /\ delayOver \in BOOLEAN
         /\ recording \in BOOLEAN /\ tracked \in BOOLEAN
         /\ blackboxState = "STOPPED" /\ cacheFlushNextState = "SEND_SYSINFO"
         /\ pc = "SEARCH"
    BY DEF LogInit, FlashFsInit, BlackboxInit
  <1>11. LogOK
    BY <1>9, <1>10 DEF LogOK, BlackboxStates
  <1>12. PlaceOK
    BY <1>2, <1>9, <1>10 DEF PlaceOK
  <1> QED
    BY <1>8, <1>11, <1>12, Halves

LEMMA StutterTyped == TypeInv /\ UNCHANGED logSystemVars => TypeInv'
  <1> SUFFICES ASSUME TypeInv, UNCHANGED logSystemVars PROVE TypeInv'
    OBVIOUS
  <1>1. UNCHANGED Device
    BY DEF logSystemVars, Device
  <1>2. LogOK' /\ PlaceOK'
    BY Halves DEF logSystemVars, logVars, traceVars, chipVars, LogOK, PlaceOK
  <1> QED
    BY <1>1, <1>2, QuietTyped

LEMMA StepTyped == TypeInv /\ [LogNext]_logSystemVars => TypeInv'
  <1> SUFFICES ASSUME TypeInv, [LogNext]_logSystemVars PROVE TypeInv'
    OBVIOUS
  <1>1. \/ Interrupt
        \/ TaskMain
        \/ MspRead
        \/ SyncWait
        \/ StartUp
        \/ blackboxUpdate
        \/ ReplenishHeaderBudget \/ ReplenishTorn
        \/ HeaderStep
        \/ WriteByte
        \/ DeviceFlush
        \/ StartErase \/ (Idle /\ MspErase)
        \/ UpdateEnds
        \/ DelayOver \/ StartsRecording \/ Disarm
        \/ PowerCycle
        \/ UNCHANGED logSystemVars
    BY DEF LogNext, UpdatePass, Asked
  <1> QED
    BY <1>1, InterruptTyped, TaskMainTyped, MspReadTyped, SyncWaitTyped,
       StartUpTyped, UpdateTyped, ReplenishStepTyped, HeaderTyped,
       WriteByteTyped, DeviceFlushTyped, EraseTyped, UpdateEndsTyped,
       OutsideTyped, PowerCycleTyped, StutterTyped

LEMMA AlwaysTyped == LogSpec => []TypeInv
  BY InitTyped, StepTyped, PTL DEF LogSpec

(* Every reachable state is well typed: no transfer leaves the chip or the  *)
(* ring, and no index leaves its array, whenever the interrupt comes.       *)
THEOREM LogTypeCorrect == LogSpec => []BlackboxTypeOK
  <1>1. TypeInv => BlackboxTypeOK
    BY DEF TypeInv
  <1> QED
    BY <1>1, AlwaysTyped, PTL

-----------------------------------------------------------------------------
(* The header's budget. *)

(* A header has been begun: it waits no more for what was before it. *)
Begun ==
    \/ blackboxState \in {"SEND_FIELDS", "SEND_SYSINFO", "CACHE_FLUSH"}
    \/ blackboxState = "SEND_HEADER" /\ delayOver

(* flashfsFlushSync waits, and nothing else is written meanwhile. *)
Syncs == pc \in {"FLUSH_SYNC", "FLUSHED_SYNC"}

SyncOK == Syncs => toWrite = 0

(* No transfer takes more than the ring holds, but the one of a synchronous *)
(* flush, which takes the region it found before it waited.                 *)
TransferOK == Begun /\ ~Syncs => dma.len <= Buffered

(* What a handler of the header still writes fits into the ring, and so     *)
(* does what the budget lets it write after that.                           *)
RoomOK ==
    /\ blackboxState \in HeaderStates => toWrite <= FreeSpace
    /\ pc = "HEADER" => blackboxState \in HeaderStates
    /\ pc = "HEADER" /\ Begun => blackboxHeaderBudget + toWrite <= FreeSpace

(* A header that was begun is followed up. *)
BegunOK ==
    /\ blackboxState \in {"SEND_FIELDS", "SEND_SYSINFO", "CACHE_FLUSH"} => tracked
    /\ blackboxState = "SEND_HEADER" /\ headerIndex > 0 => tracked /\ delayOver
    /\ blackboxState = "SEND_HEADER" /\ headerIndex = 0 => toWrite = 0
    /\ blackboxState = "CACHE_FLUSH" => toWrite = 0

HeaderInv == SyncOK /\ TransferOK /\ RoomOK /\ BegunOK

-----------------------------------------------------------------------------
(* The ring. *)

LEMMA RoomRange ==
    ASSUME TypeInv
    PROVE  /\ Buffered \in 0..Usable /\ FreeSpace \in 0..Usable
           /\ FreeSpace = Usable - Buffered
  <1>1. Buffered \in 0..Usable
    BY RingTyped, UsedRange DEF Buffered
  <1>2. FreeSpace = Usable - Buffered
    BY DEF FreeSpace, Buffered
  <1> QED
    BY <1>1, <1>2, Sizes

LEMMA RestInRange ==
    ASSUME NEW used \in 0..Usable
    PROVE  Usable - used \in 0..Usable
  BY Sizes

(* Sums of a budget and of what is still written. *)
LEMMA NothingAdded ==
    ASSUME NEW written \in Int, NEW budget \in Int, NEW free \in Int,
           NEW room \in Int, written = 0, budget <= free, free <= room, 0 <= room
    PROVE  budget + written <= room /\ written <= room
  OBVIOUS

LEMMA ChargedFirst ==
    ASSUME NEW written \in Int, NEW budget \in Int, NEW before \in Int,
           NEW room \in Int, written + budget = before, before <= room
    PROVE  budget + written <= room
  OBVIOUS

LEMMA SameRing ==
    ASSUME UNCHANGED ringVars
    PROVE  Buffered' = Buffered /\ FreeSpace' = FreeSpace
  BY DEF ringVars, Buffered, FreeSpace, Used

(* A byte that finds room takes it. *)
LEMMA OneMoreUsed ==
    ASSUME NEW i \in Slots, NEW j \in Slots, Used(i, j) < Usable
    PROVE  Used(Wrap(i + 1), j) = Used(i, j) + 1
  BY Sizes DEF Slots, Used, Wrap

(* A transfer that is over gives its room back. *)
LEMMA LenFewerUsed ==
    ASSUME NEW i \in Slots, NEW j \in Slots, NEW n \in 0..Used(i, j)
    PROVE  Used(i, Wrap(j + n)) = Used(i, j) - n
  BY Sizes DEF Slots, Used, Wrap

LEMMA CallbackRoom ==
    ASSUME TypeInv, WriteCallback, dma.len <= Buffered
    PROVE  /\ Buffered' = Buffered - dma.len
           /\ FreeSpace' = FreeSpace + dma.len
  <1>1. /\ bufferHead \in Slots /\ bufferTail \in Slots
        /\ dma.len \in 0..Usable
    BY RingTyped
  <1>2. dma.len \in 0..Used(bufferHead, bufferTail)
    BY <1>1, RoomRange, Sizes DEF Buffered
  <1>3. bufferHead' = bufferHead /\ bufferTail' = Wrap(bufferTail + dma.len)
    BY DEF WriteCallback
  <1>4. Buffered' = Used(bufferHead, Wrap(bufferTail + dma.len))
    BY <1>3 DEF Buffered, Used
  <1>5. Buffered' = Buffered - dma.len
    BY <1>1, <1>2, <1>4, LenFewerUsed DEF Buffered
  <1>6. FreeSpace = Usable - Buffered /\ FreeSpace' = Usable - Buffered'
    BY DEF FreeSpace, Buffered, Usable
  <1> QED
    BY <1>1, <1>5, <1>6, RoomRange, Sizes

-----------------------------------------------------------------------------
(* Page programs that begin. *)

(* One of at most "total" bytes from a slot on may begin, within a page.    *)
MayBeginAt(slot, total) ==
    \/ dma' = dma
    \/ /\ dma.len = 0
       /\ \E n \in 0..total :
             /\ tailAddress + n <= PageEnd(tailAddress)
             /\ dma' = [at |-> tailAddress, from |-> slot, left |-> n, len |-> n]

MayBegin(total) == MayBeginAt(bufferTail, total)

LEMMA WriteMayBegin ==
    ASSUME TypeInv, NEW slot, NEW total \in 0..Usable, WriteBuffers(slot, total)
    PROVE  MayBeginAt(slot, total)
  <1>1. CASE flashIsReady /\ ~flashfsIsEOF
    <2>1. tailAddress \in Nat /\ tailAddress < FlashSize
      BY <1>1, RingTyped, Sizes DEF flashfsIsEOF
    <2>2. PageEnd(tailAddress) \in Nat /\ tailAddress < PageEnd(tailAddress)
      BY <2>1, PageWithin
    <2>3. dma.len = 0
      BY <1>1, RingTyped, Sizes DEF flashIsReady, InFlight
    <2> DEFINE n == Lesser(total, PageEnd(tailAddress) - tailAddress)
    <2>4. n \in 0..total /\ tailAddress + n <= PageEnd(tailAddress)
      BY <2>1, <2>2, Sizes DEF Lesser
    <2>5. dma' = [at |-> tailAddress, from |-> slot, left |-> n, len |-> n]
      BY <1>1 DEF WriteBuffers, StartProgram
    <2> HIDE DEF n
    <2> QED
      BY <2>3, <2>4, <2>5 DEF MayBeginAt
  <1>2. CASE ~(flashIsReady /\ ~flashfsIsEOF)
    BY <1>2 DEF WriteBuffers, MayBeginAt
  <1> QED
    BY <1>1, <1>2

LEMMA FlushMayBegin ==
    ASSUME TypeInv, NEW head \in Slots, NEW force, flashfsFlushAsync(head, force)
    PROVE  MayBegin(Used(head, bufferTail))
  <1>1. Used(head, bufferTail) \in 0..Usable
    BY RingTyped, UsedRange
  <1>2. CASE WriteBuffers(bufferTail, Used(head, bufferTail))
    BY <1>1, <1>2, WriteMayBegin DEF MayBegin
  <1>3. CASE UNCHANGED dma
    BY <1>3 DEF MayBegin, MayBeginAt
  <1> QED
    BY <1>2, <1>3 DEF flashfsFlushAsync

LEMMA DeviceMayBegin ==
    ASSUME TypeInv, NEW force, flashfsFlush(force)
    PROVE  /\ MayBegin(Buffered)
           /\ UNCHANGED <<flash, busy, ringVars, tailAddress, eraseVars, scanVars>>
  <1>1. bufferHead \in Slots /\ flashfsFlushAsync(bufferHead, force)
    BY RingTyped DEF flashfsFlush
  <1> QED
    BY <1>1, FlushMayBegin DEF flashfsFlush, Buffered

LEMMA ByteMayBegin ==
    ASSUME TypeInv, NEW byte, NEW endsString, flashfsWriteByte(byte, endsString)
    PROVE  /\ bufferHead' = Wrap(bufferHead + 1) /\ bufferHead' \in Slots
           /\ MayBegin(Used(bufferHead', bufferTail))
  <1>1. bufferHead' = Wrap(bufferHead + 1) /\ bufferHead' \in Slots
    BY RingTyped, WrapNext DEF flashfsWriteByte
  <1>2. Used(bufferHead', bufferTail) \in 0..Usable
    BY <1>1, RingTyped, UsedRange
  <1>3. \/ WriteBuffers(bufferTail, Used(bufferHead', bufferTail))
        \/ flashfsFlushAsync(bufferHead', FALSE)
        \/ UNCHANGED <<dma, dataWritten>>
    BY DEF flashfsWriteByte
  <1> QED
    BY <1>1, <1>2, <1>3, WriteMayBegin, FlushMayBegin DEF MayBegin, MayBeginAt

(* The transfer that may begin takes no more than it is told to. *)
LEMMA BeginsWithin ==
    ASSUME TypeInv, NEW total \in 0..Usable, MayBegin(total)
    PROVE  dma'.len = dma.len \/ dma'.len <= total
  <1>1. CASE dma' = dma
    BY <1>1
  <1>2. CASE \E n \in 0..total : dma' = [at |-> tailAddress, from |-> bufferTail,
                                         left |-> n, len |-> n]
    BY <1>2, Sizes
  <1> QED
    BY <1>1, <1>2 DEF MayBegin, MayBeginAt

LEMMA TransferStays ==
    ASSUME TypeInv, TransferOK, MayBegin(Buffered), UNCHANGED ringVars,
           ~Syncs, Begun' => Begun
    PROVE  TransferOK'
  <1>1. Buffered' = Buffered /\ Buffered \in 0..Usable
    BY SameRing, RoomRange
  <1>2. dma'.len = dma.len \/ dma'.len <= Buffered
    BY <1>1, BeginsWithin
  <1> QED
    BY <1>1, <1>2 DEF TransferOK

-----------------------------------------------------------------------------
(* The device when a step writes nothing to it, but may flush it.           *)
Kept ==
    /\ MayBegin(Buffered)
    /\ UNCHANGED <<flash, ringVars, tailAddress, eraseVars, scanVars>>

LEMMA QuietIsKept == UNCHANGED Device => Kept
  BY DEF Device, Kept, MayBegin, MayBeginAt, chipVars

LEMMA WrittenIsKept == NothingWritten => Kept /\ UNCHANGED <<traceVars, toWrite>>
  BY WrittenIsQuiet, QuietIsKept

LEMMA FlushIsKept ==
    ASSUME TypeInv, NEW force, flashfsFlush(force)
    PROVE  Kept /\ UNCHANGED <<traceVars, toWrite>>
  BY DeviceMayBegin, FlushIsQuiet DEF Kept

LEMMA ReserveIsKept ==
    ASSUME TypeInv, NEW bytes, ReserveFails(bytes)
    PROVE  Kept /\ UNCHANGED <<traceVars, toWrite>>
  BY FlushIsKept, WrittenIsKept DEF ReserveFails

LEMMA FinishLeavesHeader ==
    ASSUME blackboxFinish
    PROVE  /\ blackboxState' \notin HeaderStates \cup {"CACHE_FLUSH"}
           /\ blackboxState \in HeaderStates \cup {"CACHE_FLUSH"} => LastEvent = 0
  BY DEF blackboxFinish, HeaderStates, LastEvent

(* A handler outside the header: the header is not entered but at its       *)
(* beginning, or behind the empty ring.                                     *)
OutsideHeader ==
    \/ blackboxState' \notin HeaderStates \cup {"CACHE_FLUSH"}
    \/ /\ blackboxState' = "SEND_HEADER"
       /\ headerIndex' = 0 /\ ~delayOver' /\ toWrite' = 0
    \/ /\ blackboxState = "CACHE_FLUSH"
       /\ blackboxState' \in {"CACHE_FLUSH", "SEND_SYSINFO"} /\ toWrite' = 0

LEMMA UpdateMoves ==
    ASSUME TypeInv, blackboxUpdate
    PROVE  /\ Kept /\ UNCHANGED traceVars
           /\ pc = "IDLE" /\ pc' \in {"END", "FLUSH"}
           /\ OutsideHeader
  <1>1. PICK blackboxBox, eraseBox, iFrame \in BOOLEAN :
          \/ /\ \/ Stopped(eraseBox)
                \/ PrepareLogFile
                \/ CacheFlush
                \/ ShuttingDown
                \/ EraseCase(eraseBox)
                \/ Disabled
                \/ RunningEnds(blackboxBox)
                \/ StaysPaused(blackboxBox, iFrame)
             /\ pc' = "END"
          \/ LogIteration(blackboxBox, iFrame) /\ pc' = "FLUSH"
    BY DEF blackboxUpdate
  <1>2. toWrite = 0 /\ pc = "IDLE" /\ pc' \in {"END", "FLUSH"}
    BY <1>1 DEF blackboxUpdate, Idle
  <1>3. ASSUME \/ Stopped(eraseBox) \/ EraseCase(eraseBox) \/ Disabled
               \/ StaysPaused(blackboxBox, iFrame)
        PROVE  Kept /\ UNCHANGED traceVars /\ OutsideHeader
    <2>1. Kept /\ UNCHANGED traceVars
      BY <1>3, WrittenIsKept DEF Stopped, EraseCase, Disabled, StaysPaused
    <2>2. blackboxState' \notin HeaderStates \cup {"CACHE_FLUSH"}
      BY <1>3 DEF Stopped, Started, EraseCase, Disabled, StaysPaused, HeaderStates
    <2> QED
      BY <2>1, <2>2 DEF OutsideHeader
  <1>4. ASSUME PrepareLogFile PROVE Kept /\ UNCHANGED traceVars /\ OutsideHeader
    BY <1>2, <1>4, WrittenIsKept DEF PrepareLogFile, OutsideHeader
  <1>5. ASSUME CacheFlush PROVE Kept /\ UNCHANGED traceVars /\ OutsideHeader
    <2>1. Kept /\ UNCHANGED <<traceVars, toWrite>>
      BY <1>5, WrittenIsKept, FlushIsKept DEF CacheFlush
    <2>2. cacheFlushNextState \in {"SEND_SYSINFO", "RUNNING"}
      BY Halves DEF LogOK
    <2>3. /\ blackboxState = "CACHE_FLUSH"
          /\ blackboxState' \in {"CACHE_FLUSH", "SEND_SYSINFO", "RUNNING"}
      BY <1>5, <2>2 DEF CacheFlush
    <2> QED
      BY <1>2, <2>1, <2>3 DEF OutsideHeader, HeaderStates
  <1>6. ASSUME ShuttingDown PROVE Kept /\ UNCHANGED traceVars /\ OutsideHeader
    <2>1. Kept /\ UNCHANGED traceVars
      BY <1>6, WrittenIsKept, FlushIsKept DEF ShuttingDown
    <2> QED
      BY <1>6, <2>1 DEF ShuttingDown, OutsideHeader, HeaderStates
  <1>7. ASSUME RunningEnds(blackboxBox)
        PROVE  Kept /\ UNCHANGED traceVars /\ OutsideHeader
    <2>1. CASE blackboxState' = "PAUSED" /\ NothingWritten
      BY <2>1, WrittenIsKept DEF OutsideHeader, HeaderStates
    <2>2. CASE blackboxFinish /\ StartWriting(LastEvent) /\ UNCHANGED traceVars
      BY <2>2, FinishLeavesHeader, StartIsQuiet, QuietIsKept DEF OutsideHeader
    <2> QED
      BY <1>7, <2>1, <2>2 DEF RunningEnds
  <1>8. ASSUME LogIteration(blackboxBox, iFrame)
        PROVE  Kept /\ UNCHANGED traceVars /\ OutsideHeader
    <2>1. /\ \E n : StartWriting(n)
          /\ UNCHANGED traceVars /\ blackboxState' = "RUNNING"
      BY <1>8 DEF LogIteration
    <2> QED
      BY <2>1, StartIsQuiet, QuietIsKept DEF OutsideHeader, HeaderStates
  <1> QED
    BY <1>1, <1>2, <1>3, <1>4, <1>5, <1>6, <1>7, <1>8

-----------------------------------------------------------------------------
(* Every step preserves the invariant of the header.                        *)

(* A step that stays outside the header, and keeps the ring. *)
LEMMA OutsideKeeps ==
    ASSUME TypeInv, TypeInv', HeaderInv, Kept, UNCHANGED traceVars, OutsideHeader,
           ~Syncs, pc' \in {"IDLE", "END", "FLUSH"}
    PROVE  HeaderInv'
  <1>1. UNCHANGED ringVars /\ MayBegin(Buffered) /\ tracked' = tracked
    BY DEF Kept, traceVars
  <1>2. Begun' => Begun
    BY DEF Begun, OutsideHeader, HeaderStates
  <1>3. TransferOK'
    BY <1>1, <1>2, TransferStays DEF HeaderInv
  <1>4. SyncOK'
    BY DEF SyncOK, Syncs
  <1>5. FreeSpace' \in 0..Usable
    <2>1. FreeSpace' = FreeSpace
      BY <1>1, SameRing
    <2> QED
      BY <2>1, RoomRange
  <1>6. RoomOK'
    BY <1>5 DEF RoomOK, OutsideHeader, HeaderStates
  <1>7. BegunOK'
    BY <1>1 DEF HeaderInv, BegunOK, OutsideHeader, HeaderStates
  <1> QED
    BY <1>3, <1>4, <1>6, <1>7 DEF HeaderInv

LEMMA UpdateKeeps == TypeInv /\ HeaderInv /\ blackboxUpdate => HeaderInv'
  BY UpdateTyped, UpdateMoves, OutsideKeeps DEF Syncs

(* The interrupt, and everything that leaves the Blackbox as it is. *)
LEMMA FrameKeeps ==
    ASSUME TypeInv, HeaderInv, UNCHANGED Frame, UNCHANGED ringVars,
           Syncs' => toWrite = 0,
           ~Syncs' => (~Syncs /\ dma'.len = dma.len) \/ dma'.len <= Buffered,
           pc' = "HEADER" => pc = "HEADER"
    PROVE  HeaderInv'
  <1>1. Buffered' = Buffered /\ FreeSpace' = FreeSpace
    BY SameRing
  <1>2. UNCHANGED <<blackboxState, delayOver, blackboxHeaderBudget, headerIndex,
                    toWrite, tracked>>
    BY DEF Frame, logVars, traceVars
  <1>3. Begun' = Begun
    BY <1>2 DEF Begun
  <1>4. SyncOK'
    BY <1>2 DEF SyncOK
  <1>5. TransferOK'
    BY <1>1, <1>3 DEF HeaderInv, TransferOK
  <1>6. RoomOK'
    BY <1>1, <1>2, <1>3 DEF HeaderInv, RoomOK
  <1>7. BegunOK'
    BY <1>2 DEF HeaderInv, BegunOK
  <1> QED
    BY <1>4, <1>5, <1>6, <1>7 DEF HeaderInv

(* The end of a transfer makes room while a header is written; when a       *)
(* synchronous flush waits, nothing is written.                             *)
LEMMA CallbackKeeps ==
    ASSUME TypeInv, HeaderInv, WriteCallback, UNCHANGED <<Frame, pc>>
    PROVE  HeaderInv'
  <1>1. dma'.len = 0 /\ dma.len \in 0..Usable
    BY RingTyped, NoTransferTyped DEF WriteCallback
  <1>2. UNCHANGED <<blackboxState, delayOver, blackboxHeaderBudget, headerIndex,
                    toWrite, tracked, pc>>
    BY DEF Frame, logVars, traceVars
  <1>3. Begun' = Begun /\ Syncs' = Syncs
    BY <1>2 DEF Begun, Syncs
  <1>4. SyncOK'
    BY <1>2, <1>3 DEF HeaderInv, SyncOK
  <1>5. Buffered' \in 0..Usable /\ FreeSpace' \in 0..Usable
    <2>1. bufferHead' \in Slots /\ bufferTail' \in Slots
      BY CallbackTyped DEF FlashFsTypeOK
    <2>2. Buffered' \in 0..Usable
      BY <2>1, UsedRange DEF Buffered, Used
    <2>3. FreeSpace' = Usable - Buffered'
      BY DEF FreeSpace, Buffered, Usable
    <2> QED
      BY <2>2, <2>3, RestInRange
  <1>6. TransferOK'
    BY <1>1, <1>5 DEF TransferOK
  <1>7. Begun /\ ~Syncs => FreeSpace' >= FreeSpace
    <2>1. Begun /\ ~Syncs => FreeSpace' = FreeSpace + dma.len
      BY CallbackRoom DEF HeaderInv, TransferOK
    <2> QED
      BY <1>1, <2>1, RoomRange
  <1>8. toWrite \in Nat /\ blackboxHeaderBudget \in Int /\ headerIndex \in Nat
    BY Halves DEF LogOK
  <1>9. RoomOK'
    <2>1. ASSUME blackboxState \in HeaderStates PROVE toWrite <= FreeSpace'
      <3>1. CASE Begun /\ ~Syncs
        BY <1>5, <1>7, <1>8, <2>1, <3>1, RoomRange DEF HeaderInv, RoomOK
      <3>2. CASE ~Begun \/ Syncs
        <4>1. toWrite = 0
          BY <1>8, <2>1, <3>2 DEF Begun, HeaderInv, SyncOK, BegunOK, HeaderStates
        <4> QED
          BY <4>1, <1>5
      <3> QED
        BY <3>1, <3>2
    <2>2. ASSUME pc = "HEADER", Begun
          PROVE  blackboxHeaderBudget + toWrite <= FreeSpace'
      <3>1. blackboxHeaderBudget + toWrite <= FreeSpace /\ ~Syncs
        BY <2>2 DEF HeaderInv, RoomOK, Syncs
      <3> QED
        BY <1>5, <1>7, <1>8, <2>2, <3>1, RoomRange
    <2>3. pc = "HEADER" => blackboxState \in HeaderStates
      BY DEF HeaderInv, RoomOK
    <2> QED
      BY <1>2, <1>3, <2>1, <2>2, <2>3 DEF RoomOK
  <1>10. BegunOK'
    BY <1>2 DEF HeaderInv, BegunOK
  <1> QED
    BY <1>4, <1>6, <1>9, <1>10 DEF HeaderInv

LEMMA InterruptKeeps == TypeInv /\ HeaderInv /\ Interrupt => HeaderInv'
  <1> SUFFICES ASSUME TypeInv, HeaderInv, Interrupt PROVE HeaderInv'
    OBVIOUS
  <1>1. UNCHANGED Frame
    BY DEF Interrupt, Frame
  <1>2. CASE DmaByte \/ ChipReady
    <2>1. UNCHANGED <<ringVars, pc>> /\ dma'.len = dma.len
      BY <1>2, RingTyped DEF DmaByte, ChipReady, Transfers
    <2>2. Syncs' = Syncs /\ (Syncs => toWrite = 0)
      BY <2>1 DEF Syncs, HeaderInv, SyncOK
    <2> QED
      BY <1>1, <2>1, <2>2, FrameKeeps
  <1>3. CASE TransferDone
    BY <1>1, <1>3, CallbackKeeps DEF TransferDone
  <1> QED
    BY <1>2, <1>3 DEF Interrupt

LEMMA TaskMainKeeps == TypeInv /\ HeaderInv /\ TaskMain => HeaderInv'
  <1> SUFFICES ASSUME TypeInv, HeaderInv, TaskMain PROVE HeaderInv'
    OBVIOUS
  <1>1. UNCHANGED Frame /\ UNCHANGED <<ringVars, dma, pc>> /\ pc = "IDLE"
    BY DEF TaskMain, flashfsEraseAsync, Frame, Idle
  <1>2. ~Syncs /\ ~Syncs'
    BY <1>1 DEF Syncs
  <1> QED
    BY <1>1, <1>2, FrameKeeps

LEMMA MspReadKeeps == TypeInv /\ HeaderInv /\ MspRead => HeaderInv'
  <1> SUFFICES ASSUME TypeInv, HeaderInv, MspRead PROVE HeaderInv'
    OBVIOUS
  <1>1. UNCHANGED Frame /\ UNCHANGED ringVars /\ pc' = "FLUSH_SYNC" /\ toWrite = 0
    BY DEF MspRead, ReadAbs, Asked, Idle, Frame
  <1>2. Syncs'
    BY <1>1 DEF Syncs
  <1> QED
    BY <1>1, <1>2, FrameKeeps

(* The wait ends when the chip is ready: no transfer outlives it. *)
LEMMA SyncWaitKeeps == TypeInv /\ HeaderInv /\ SyncWait => HeaderInv'
  <1> SUFFICES ASSUME TypeInv, HeaderInv, SyncWait PROVE HeaderInv'
    OBVIOUS
  <1>1. UNCHANGED Frame /\ UNCHANGED ringVars
    BY DEF SyncWait, FlushSyncWrite, FlushSyncReturns, Frame
  <1>2. toWrite = 0
    BY DEF SyncWait, FlushSyncWrite, FlushSyncReturns, HeaderInv, SyncOK, Syncs
  <1>3. CASE FlushSyncWrite
    <2>1. pc' = "FLUSHED_SYNC"
      BY <1>3 DEF FlushSyncWrite
    <2> QED
      BY <1>1, <1>2, <2>1, FrameKeeps DEF Syncs
  <1>4. CASE FlushSyncReturns
    <2>1. pc' = "IDLE" /\ dma'.len = 0
      BY <1>4, RingTyped, Sizes DEF FlushSyncReturns, flashIsReady, InFlight, chipVars
    <2>2. dma'.len <= Buffered
      BY <2>1, RoomRange, Sizes
    <2> QED
      BY <1>1, <1>2, <2>1, <2>2, FrameKeeps
  <1> QED
    BY <1>3, <1>4 DEF SyncWait

LEMMA StartUpKeeps == TypeInv /\ HeaderInv /\ StartUp => HeaderInv'
  <1> SUFFICES ASSUME TypeInv, HeaderInv, StartUp PROVE HeaderInv'
    OBVIOUS
  <1>1. UNCHANGED Frame /\ UNCHANGED ringVars /\ dma' = dma
    BY DEF StartUp, SearchBlock, SearchEnds, Frame, chipVars
  <1>2. pc = "SEARCH" /\ pc' \in {"SEARCH", "IDLE"}
    BY DEF StartUp, SearchBlock, SearchEnds
  <1>3. ~Syncs /\ ~Syncs'
    BY <1>2 DEF Syncs
  <1> QED
    BY <1>1, <1>2, <1>3, FrameKeeps

(* The budget is taken from the free space, torn reading or not. *)
LEMMA ReplenishBudget ==
    ASSUME TypeInv, NEW free \in Int, Replenish(free)
    PROVE  /\ blackboxHeaderBudget' <= free
           /\ blackboxState' = blackboxState /\ blackboxState \in HeaderStates
           /\ pc = "IDLE" /\ pc' = "HEADER" /\ toWrite' = 0
           /\ UNCHANGED <<headerIndex, delayOver, tracked>>
  <1>1. blackboxHeaderBudget' <= free
    <2>1. blackboxHeaderBudget \in Int /\ HeaderBudget \in Int /\ MaxBudget \in Int
      BY Halves, Lengths DEF LogOK
    <2> DEFINE least == Lesser(free, blackboxHeaderBudget + HeaderBudget)
    <2>2. least \in Int /\ least <= free
      BY <2>1 DEF Lesser
    <2>3. blackboxHeaderBudget' = Lesser(least, MaxBudget)
      BY DEF Replenish
    <2> HIDE DEF least
    <2> QED
      BY <2>1, <2>2, <2>3 DEF Lesser
  <1> QED
    BY <1>1 DEF Replenish, Idle, traceVars

(* What the torn reading takes for free is free. *)
LEMMA TornIsLess ==
    ASSUME NEW head \in Slots, NEW tail \in Slots
    PROVE  Usable - (BufferSize - tail + head) <= Usable - Used(head, tail)
  BY Sizes DEF Slots, Used

LEMMA ReplenishKeeps ==
    ASSUME TypeInv, TypeInv', HeaderInv, ReplenishHeaderBudget \/ ReplenishTorn
    PROVE  HeaderInv'
  <1>1. bufferHead' \in Slots /\ bufferTail' \in Slots
            /\ blackboxHeaderBudget' \in Int
    BY DEF TypeInv, BlackboxTypeOK, FlashFsTypeOK
  <1>2. Buffered' \in 0..Usable
    BY <1>1, UsedRange DEF Buffered, Used
  <1>3. FreeSpace' = Usable - Buffered'
    BY DEF FreeSpace, Buffered, Usable
  <1>4. FreeSpace' \in 0..Usable
    BY <1>2, <1>3, RestInRange
  <1>5. PICK free \in Int : Replenish(free) /\ free <= FreeSpace'
    <2>1. CASE ReplenishHeaderBudget
      <3>1. FreeSpace \in Int /\ FreeSpace' = FreeSpace
        BY <2>1, RoomRange, SameRing, Sizes DEF ReplenishHeaderBudget
      <3> QED
        BY <2>1, <3>1 DEF ReplenishHeaderBudget
    <2>2. CASE ReplenishTorn
      <3>1. bufferHead' = bufferHead
        BY <2>2 DEF ReplenishTorn, WriteCallback
      <3> DEFINE torn == Usable - (BufferSize - bufferTail' + bufferHead)
      <3>2. Replenish(torn)
        BY <2>2 DEF ReplenishTorn
      <3>3. torn \in Int
        BY <1>1, <3>1, Sizes DEF Slots
      <3>4. torn <= Usable - Used(bufferHead, bufferTail')
        BY <1>1, <3>1, TornIsLess
      <3>5. FreeSpace' = Usable - Used(bufferHead, bufferTail')
        BY <3>1 DEF FreeSpace, Used, Usable
      <3> HIDE DEF torn
      <3> QED
        BY <3>2, <3>3, <3>4, <3>5
    <2> QED
      BY <2>1, <2>2
  <1>6. /\ blackboxHeaderBudget' <= free
        /\ blackboxState' = blackboxState /\ blackboxState \in HeaderStates
        /\ pc = "IDLE" /\ pc' = "HEADER" /\ toWrite' = 0
        /\ UNCHANGED <<headerIndex, delayOver, tracked>>
    BY <1>5, ReplenishBudget
  <1>7. SyncOK'
    BY <1>6 DEF SyncOK
  <1>8. TransferOK'
    <2>1. CASE ReplenishHeaderBudget
      <3>1. Buffered' = Buffered /\ dma' = dma
        BY <2>1, SameRing DEF ReplenishHeaderBudget, chipVars
      <3> QED
        BY <1>6, <3>1 DEF HeaderInv, TransferOK, Begun, Syncs
    <2>2. CASE ReplenishTorn
      <3>1. dma'.len = 0
        BY <2>2, NoTransferTyped DEF ReplenishTorn, WriteCallback
      <3> QED
        BY <1>2, <3>1 DEF TransferOK
    <2> QED
      BY <2>1, <2>2
  <1>9. RoomOK'
    <2>1. blackboxHeaderBudget' + toWrite' <= FreeSpace' /\ toWrite' <= FreeSpace'
      <3>1. toWrite' = 0 /\ blackboxHeaderBudget' <= free /\ free <= FreeSpace'
        BY <1>5, <1>6
      <3>2. FreeSpace' \in Int /\ 0 <= FreeSpace'
        BY <1>4, Sizes
      <3>3. blackboxHeaderBudget' \in Int /\ free \in Int
        BY <1>1, <1>5
      <3>4. toWrite' \in Int
        BY <3>1
      <3> QED
        BY <3>1, <3>2, <3>3, <3>4, NothingAdded
    <2> QED
      BY <1>6, <2>1 DEF RoomOK
  <1>10. BegunOK'
    BY <1>6 DEF HeaderInv, BegunOK
  <1> QED
    BY <1>7, <1>8, <1>9, <1>10 DEF HeaderInv

-----------------------------------------------------------------------------
(* The steps of the header. *)

(* A step of the header writes at most as much as there is room for. *)
LEMMA HeaderWrites ==
    ASSUME TypeInv, TypeInv', HeaderInv, HeaderStep, Kept, tracked',
           blackboxState' \in HeaderStates,
           toWrite' <= blackboxHeaderBudget,
           pc' = "HEADER" => toWrite' + blackboxHeaderBudget' = blackboxHeaderBudget,
           blackboxState' = "SEND_HEADER" => headerIndex' > 0 /\ delayOver',
           Begun, pc' \in {"HEADER", "END"}
    PROVE  HeaderInv'
  <1>1. UNCHANGED ringVars /\ MayBegin(Buffered)
    BY DEF Kept
  <1>2. Buffered' = Buffered /\ FreeSpace' = FreeSpace /\ FreeSpace \in 0..Usable
    BY <1>1, SameRing, RoomRange
  <1>3. blackboxHeaderBudget <= FreeSpace
    <2>1. toWrite = 0 /\ pc = "HEADER"
      BY DEF HeaderStep
    <2>2. blackboxHeaderBudget + 0 <= FreeSpace
      BY <2>1 DEF HeaderInv, RoomOK
    <2>3. blackboxHeaderBudget \in Int
      BY Halves DEF LogOK
    <2> QED
      BY <2>2, <2>3
  <1>4. /\ toWrite' \in Nat /\ blackboxHeaderBudget' \in Int
        /\ blackboxHeaderBudget \in Int /\ headerIndex' \in Nat
    BY DEF TypeInv, BlackboxTypeOK
  <1>5. SyncOK'
    BY DEF SyncOK, Syncs
  <1>6. TransferOK'
    <2>1. ~Syncs
      BY DEF HeaderStep, Syncs
    <2> QED
      BY <1>1, <2>1, TransferStays DEF HeaderInv
  <1>7. RoomOK'
    <2>1. toWrite' <= FreeSpace'
      BY <1>2, <1>3, <1>4, Sizes
    <2>2. ASSUME pc' = "HEADER" PROVE blackboxHeaderBudget' + toWrite' <= FreeSpace'
      <3>1. toWrite' + blackboxHeaderBudget' = blackboxHeaderBudget
        BY <2>2
      <3>2. FreeSpace' \in Int /\ toWrite' \in Int
        BY <1>2, <1>4, Sizes
      <3>3. blackboxHeaderBudget <= FreeSpace'
        BY <1>2, <1>3
      <3> QED
        BY <1>4, <3>1, <3>2, <3>3, ChargedFirst
    <2> QED
      BY <2>1, <2>2 DEF RoomOK
  <1>8. BegunOK'
    <2>1. blackboxState' = "SEND_HEADER" => headerIndex' # 0
      BY <1>4
    <2> QED
      BY <2>1 DEF BegunOK, HeaderStates
  <1> QED
    BY <1>5, <1>6, <1>7, <1>8 DEF HeaderInv

(* A step of the header that writes nothing ends the pass. *)
LEMMA HeaderWaits ==
    ASSUME TypeInv, HeaderInv, HeaderStep, Kept, UNCHANGED <<traceVars, toWrite>>,
           pc' = "END", UNCHANGED headerIndex,
           \/ blackboxState' = blackboxState
           \/ /\ blackboxState \in {"SEND_FIELDS", "SEND_SYSINFO"}
              /\ blackboxState' = "CACHE_FLUSH"
    PROVE  HeaderInv'
  <1>1. UNCHANGED ringVars /\ MayBegin(Buffered)
    BY DEF Kept
  <1>2. FreeSpace' = FreeSpace /\ FreeSpace \in 0..Usable
    BY <1>1, SameRing, RoomRange
  <1>3. toWrite' = 0 /\ tracked' = tracked /\ delayOver' = delayOver
    BY DEF HeaderStep, traceVars
  <1>4. SyncOK'
    BY DEF SyncOK, Syncs
  <1>5. TransferOK'
    <2>1. (Begun' => Begun) /\ ~Syncs
      BY <1>3 DEF Begun, HeaderStep, Syncs
    <2> QED
      BY <1>1, <2>1, TransferStays DEF HeaderInv
  <1>6. RoomOK'
    BY <1>2, <1>3 DEF RoomOK
  <1>7. BegunOK'
    BY <1>3 DEF HeaderInv, BegunOK
  <1> QED
    BY <1>4, <1>5, <1>6, <1>7 DEF HeaderInv

LEMMA HeaderStepKeeps ==
    ASSUME TypeInv, TypeInv', HeaderInv, HeaderStep PROVE HeaderInv'
  <1>1. blackboxHeaderBudget \in Int /\ headerIndex \in Nat
            /\ (blackboxState = "SEND_HEADER" => headerIndex <= HeaderLen)
    BY Halves DEF LogOK
  <1>2. CASE SendHeader
    <2> DEFINE n == Lesser(HeaderBudget, HeaderLen - headerIndex)
    <2>1. blackboxState = "SEND_HEADER" /\ blackboxState' = "SEND_HEADER"
              /\ pc' = "END"
      BY <1>2 DEF SendHeader
    <2>2. CASE /\ delayOver /\ HeaderBudget <= blackboxHeaderBudget
               /\ StartWriting(n)
               /\ headerIndex' = headerIndex + n
               /\ IF headerIndex = 0
                  THEN first' = sent + 1 /\ tracked' = TRUE /\ UNCHANGED sent
                  ELSE UNCHANGED traceVars
      <3>1. n \in Int /\ n <= HeaderBudget /\ headerIndex + n > 0
        BY <1>1, <2>1, Lengths DEF Lesser
      <3> HIDE DEF n
      <3>2. Kept /\ toWrite' = n
        BY <2>2, StartIsQuiet, QuietIsKept
      <3>3. tracked'
        <4>1. CASE headerIndex = 0
          BY <2>2, <4>1
        <4>2. CASE headerIndex # 0
          <5>1. tracked /\ UNCHANGED tracked
            BY <1>1, <2>1, <2>2, <4>2 DEF HeaderInv, BegunOK, traceVars
          <5> QED
            BY <5>1
        <4> QED
          BY <4>1, <4>2
      <3>4. n <= blackboxHeaderBudget
        BY <1>1, <2>2, <3>1, Lengths
      <3>5. toWrite' <= blackboxHeaderBudget /\ headerIndex' > 0 /\ delayOver'
        BY <2>2, <3>1, <3>2, <3>4 DEF HeaderStep
      <3>6. Begun /\ blackboxState' \in HeaderStates
        BY <2>1, <2>2 DEF Begun, HeaderStates
      <3> QED
        BY <2>1, <3>2, <3>3, <3>5, <3>6, HeaderWrites
    <2>3. CASE (ReserveFails(HeaderBudget) \/ NothingWritten) /\ UNCHANGED headerIndex
      BY <2>1, <2>3, ReserveIsKept, WrittenIsKept, HeaderWaits
    <2> QED
      BY <1>2, <2>2, <2>3 DEF SendHeader
  <1>3. CASE SendFields
    <2>1. blackboxState = "SEND_FIELDS" /\ tracked /\ Begun
      BY <1>3 DEF SendFields, HeaderInv, BegunOK, Begun
    <2>2. CASE /\ FieldLen <= blackboxHeaderBudget
               /\ StartWriting(FieldLen)
               /\ blackboxHeaderBudget' = blackboxHeaderBudget - FieldLen
               /\ UNCHANGED <<traceVars, blackboxState, pc>>
      <3>1. Kept /\ toWrite' = FieldLen
        BY <2>2, StartIsQuiet, QuietIsKept
      <3>2. tracked' /\ pc' = "HEADER" /\ blackboxState' = "SEND_FIELDS"
        BY <2>1, <2>2 DEF traceVars, HeaderStep
      <3>3. FieldLen + (blackboxHeaderBudget - FieldLen) = blackboxHeaderBudget
        BY <1>1, Lengths
      <3>4. /\ toWrite' <= blackboxHeaderBudget
            /\ toWrite' + blackboxHeaderBudget' = blackboxHeaderBudget
        BY <2>2, <3>1, <3>3
      <3> QED
        BY <2>1, <3>1, <3>2, <3>4, HeaderWrites DEF HeaderStates
    <2>3. CASE /\ ReserveFails(FieldLen) \/ NothingWritten
               /\ pc' = "END" /\ UNCHANGED headerIndex
               /\ blackboxState' \in {blackboxState, "CACHE_FLUSH"}
      BY <2>1, <2>3, ReserveIsKept, WrittenIsKept, HeaderWaits
    <2> QED
      BY <1>3, <2>2, <2>3 DEF SendFields
  <1>4. CASE SendSysinfo
    <2>1. blackboxState = "SEND_SYSINFO" /\ tracked /\ Begun /\ pc' = "END"
      BY <1>4 DEF SendSysinfo, HeaderInv, BegunOK, Begun
    <2>2. CASE /\ HeaderBudget <= blackboxHeaderBudget
               /\ StartWriting(LineLen)
               /\ UNCHANGED <<traceVars, blackboxState>>
      <3>1. Kept /\ toWrite' = LineLen
        BY <2>2, StartIsQuiet, QuietIsKept
      <3>2. tracked' /\ blackboxState' = "SEND_SYSINFO"
        BY <2>1, <2>2 DEF traceVars
      <3>3. LineLen <= blackboxHeaderBudget
        BY <1>1, <2>2, Lengths
      <3>4. toWrite' <= blackboxHeaderBudget
        BY <3>1, <3>3
      <3> QED
        BY <2>1, <3>1, <3>2, <3>4, HeaderWrites DEF HeaderStates
    <2>3. CASE /\ ReserveFails(HeaderBudget) \/ NothingWritten
               /\ UNCHANGED headerIndex
               /\ blackboxState' \in {blackboxState, "CACHE_FLUSH"}
      BY <2>1, <2>3, ReserveIsKept, WrittenIsKept, HeaderWaits
    <2> QED
      BY <1>4, <2>2, <2>3 DEF SendSysinfo
  <1> QED
    BY <1>2, <1>3, <1>4 DEF HeaderStep

(* A byte takes one of the room; frames may overflow, the header does not.  *)
LEMMA WriteByteKeeps ==
    ASSUME TypeInv, TypeInv', HeaderInv, WriteByte PROVE HeaderInv'
  <1>1. toWrite \in Nat /\ toWrite > 0 /\ toWrite' = toWrite - 1
            /\ headerIndex \in Nat /\ blackboxHeaderBudget \in Int
    BY Halves DEF WriteByte, LogOK
  <1>2. UNCHANGED <<bufferTail, blackboxState, delayOver, blackboxHeaderBudget,
                    headerIndex, pc>>
    BY DEF WriteByte, logVars
  <1>3. PICK endsString \in BOOLEAN : flashfsWriteByte(sent + 1, endsString)
    BY DEF WriteByte
  <1>4. bufferHead' = Wrap(bufferHead + 1) /\ MayBegin(Used(bufferHead', bufferTail))
    BY <1>3, ByteMayBegin
  <1>5. tracked' = (tracked /\ Buffered < Usable)
    BY DEF WriteByte, Buffered
  <1>6. ASSUME Buffered < Usable
        PROVE  Buffered' = Buffered + 1 /\ FreeSpace' = FreeSpace - 1
    <2>1. Used(bufferHead, bufferTail) < Usable
      BY <1>6 DEF Buffered
    <2>2. Buffered' = Buffered + 1
      BY <1>2, <1>4, <2>1, RingTyped, OneMoreUsed DEF Buffered, Used
    <2>3. FreeSpace' = Usable - Buffered' /\ FreeSpace = Usable - Buffered
      BY DEF FreeSpace, Buffered, Usable
    <2>4. Usable - (Buffered + 1) = (Usable - Buffered) - 1
      BY RoomRange, Sizes
    <2> QED
      BY <2>2, <2>3, <2>4
  <1>7. SyncOK' /\ ~Syncs
    BY <1>1, <1>2 DEF HeaderInv, SyncOK, Syncs
  <1>8. ASSUME blackboxState \in HeaderStates
        PROVE  tracked /\ Buffered < Usable
    <2>1. tracked
      BY <1>1, <1>8 DEF HeaderInv, BegunOK, HeaderStates
    <2>2. toWrite <= FreeSpace
      BY <1>8 DEF HeaderInv, RoomOK
    <2> QED
      BY <1>1, <2>1, <2>2, RoomRange, Sizes
  <1>9. Begun' => Begun /\ Buffered < Usable
    <2>1. Begun' => Begun
      BY <1>2 DEF Begun
    <2>2. Begun => blackboxState \in HeaderStates
      BY <1>1 DEF Begun, HeaderStates, HeaderInv, BegunOK
    <2> QED
      BY <1>8, <2>1, <2>2
  <1>10. TransferOK'
    <2> SUFFICES ASSUME Begun' PROVE dma'.len <= Buffered'
      BY DEF TransferOK
    <2>1. dma.len <= Buffered /\ Buffered' = Buffered + 1
      BY <1>6, <1>7, <1>9 DEF HeaderInv, TransferOK
    <2>2. dma.len <= Buffered + 1 /\ Buffered + 1 \in 0..Usable
      BY <1>9, <2>1, RingTyped, RoomRange, Sizes
    <2>3. Used(bufferHead', bufferTail) = Buffered'
      BY <1>2 DEF Buffered, Used
    <2>4. MayBegin(Buffered + 1)
      BY <1>4, <2>1, <2>3
    <2>5. dma'.len = dma.len \/ dma'.len <= Buffered + 1
      BY <2>2, <2>4, BeginsWithin
    <2> QED
      BY <2>1, <2>2, <2>5
  <1>11. RoomOK'
    <2>1. ASSUME blackboxState \in HeaderStates PROVE toWrite' <= FreeSpace'
      <3>1. toWrite <= FreeSpace
        BY <2>1 DEF HeaderInv, RoomOK
      <3>2. toWrite - 1 <= FreeSpace - 1
        BY <1>1, <3>1, RoomRange, Sizes
      <3> QED
        BY <1>1, <1>6, <1>8, <2>1, <3>2
    <2>2. ASSUME pc = "HEADER", Begun'
          PROVE  blackboxHeaderBudget' + toWrite' <= FreeSpace'
      <3>1. blackboxHeaderBudget + toWrite <= FreeSpace
        BY <1>9, <2>2 DEF HeaderInv, RoomOK
      <3>2. blackboxHeaderBudget + (toWrite - 1) <= FreeSpace - 1
        BY <1>1, <3>1, RoomRange, Sizes
      <3> QED
        BY <1>1, <1>2, <1>6, <1>9, <2>2, <3>2
    <2>3. pc = "HEADER" => blackboxState \in HeaderStates
      BY DEF HeaderInv, RoomOK
    <2> QED
      BY <1>2, <2>1, <2>2, <2>3 DEF RoomOK
  <1>12. BegunOK'
    <2>1. blackboxState # "CACHE_FLUSH"
      BY <1>1 DEF HeaderInv, BegunOK
    <2>2. blackboxState = "SEND_HEADER" => headerIndex # 0 /\ delayOver
      BY <1>1 DEF HeaderInv, BegunOK
    <2>3. blackboxState \in HeaderStates => tracked'
      BY <1>5, <1>8
    <2> QED
      BY <1>2, <2>1, <2>2, <2>3 DEF BegunOK, HeaderStates
  <1> QED
    BY <1>7, <1>10, <1>11, <1>12 DEF HeaderInv

-----------------------------------------------------------------------------
(* The other steps. *)

LEMMA DeviceFlushKeeps ==
    ASSUME TypeInv, HeaderInv, DeviceFlush PROVE HeaderInv'
  <1>1. Kept /\ UNCHANGED <<traceVars, toWrite>> /\ pc' = "END"
    BY FlushIsKept DEF DeviceFlush
  <1>2. UNCHANGED Frame /\ UNCHANGED ringVars /\ MayBegin(Buffered)
    BY <1>1 DEF DeviceFlush, Frame, Kept
  <1>3. dma'.len = dma.len \/ dma'.len <= Buffered
    BY <1>2, RoomRange, BeginsWithin
  <1>4. ~Syncs /\ ~Syncs'
    BY <1>1 DEF DeviceFlush, Syncs
  <1> QED
    BY <1>1, <1>2, <1>3, <1>4, FrameKeeps

(* An erase leaves the header, whatever becomes of a transfer. *)
LEMMA EraseKeeps ==
    ASSUME TypeInv, TypeInv', HeaderInv,
           StartErase \/ (Asked("ERASE") /\ MspErase)
    PROVE  HeaderInv'
  <1>1. PICK stateAfter \in {"ERASING", "STOPPED"} : EraseAll(stateAfter)
    BY DEF StartErase, MspErase
  <1>2. pc' \in {"IDLE", "END"}
    BY DEF StartErase, MspErase, Asked, Idle
  <1>3. blackboxState' \notin HeaderStates \cup {"CACHE_FLUSH"}
    BY <1>1 DEF EraseAll, HeaderStates
  <1>4. SyncOK'
    BY <1>2 DEF SyncOK, Syncs
  <1>5. TransferOK'
    BY <1>3 DEF TransferOK, Begun, HeaderStates
  <1>6. RoomOK' /\ BegunOK'
    BY <1>2, <1>3 DEF RoomOK, BegunOK, HeaderStates
  <1> QED
    BY <1>4, <1>5, <1>6 DEF HeaderInv

(* The state of the log and the device stay, and the header writes nothing. *)
LEMMA SameState ==
    ASSUME TypeInv, HeaderInv, UNCHANGED Device, ~Syncs, pc' \in {"IDLE", "END"},
           UNCHANGED <<blackboxState, delayOver, headerIndex, tracked>>,
           blackboxState \in HeaderStates \cup {"CACHE_FLUSH"} => toWrite' = 0
    PROVE  HeaderInv'
  <1>1. UNCHANGED ringVars /\ MayBegin(Buffered)
    BY QuietIsKept DEF Kept
  <1>2. FreeSpace' \in 0..Usable
    <2>1. FreeSpace' = FreeSpace
      BY <1>1, SameRing
    <2> QED
      BY <2>1, RoomRange
  <1>3. SyncOK'
    BY DEF SyncOK, Syncs
  <1>4. TransferOK'
    <2>1. Begun' => Begun
      BY DEF Begun
    <2> QED
      BY <1>1, <2>1, TransferStays DEF HeaderInv
  <1>5. RoomOK'
    BY <1>2 DEF RoomOK
  <1>6. BegunOK'
    BY DEF HeaderInv, BegunOK, HeaderStates
  <1> QED
    BY <1>3, <1>4, <1>5, <1>6 DEF HeaderInv

LEMMA UpdateEndsKeeps ==
    ASSUME TypeInv, TypeInv', HeaderInv, UpdateEnds PROVE HeaderInv'
  <1>1. /\ UNCHANGED Device /\ UNCHANGED traceVars
        /\ ~Syncs /\ pc' = "IDLE" /\ toWrite = 0
    BY DEF UpdateEnds, Device, Syncs
  <1>2. \/ blackboxState' = "STOPPED"
        \/ blackboxState = "STOPPED" /\ StartInTestMode
        \/ blackboxFinish
        \/ blackboxState' = AfterHeader /\ UNCHANGED <<delayOver, toWrite>>
    BY DEF UpdateEnds
  <1>3. CASE \/ blackboxState' = "STOPPED"
             \/ blackboxState = "STOPPED" /\ StartInTestMode
             \/ blackboxFinish
    <2>1. blackboxState' \notin HeaderStates \cup {"CACHE_FLUSH"}
      BY <1>3, FinishLeavesHeader DEF StartInTestMode, Started, HeaderStates
    <2> QED
      BY <1>1, <2>1, QuietIsKept, OutsideKeeps DEF OutsideHeader
  <1>4. CASE /\ blackboxState' = AfterHeader /\ AfterHeader = blackboxState
             /\ UNCHANGED <<delayOver, toWrite>>
    <2>1. UNCHANGED <<blackboxState, delayOver, headerIndex, tracked>>
      BY <1>1, <1>4 DEF UpdateEnds, traceVars
    <2> QED
      BY <1>1, <1>4, <2>1, SameState
  <1>5. CASE /\ blackboxState' = AfterHeader /\ AfterHeader # blackboxState
             /\ UNCHANGED <<delayOver, toWrite>>
    <2>1. blackboxState = "SEND_HEADER" /\ headerIndex >= HeaderLen
              /\ blackboxState' = "SEND_FIELDS"
      BY <1>5 DEF AfterHeader
    <2>2. headerIndex > 0
      BY <2>1, Halves, Lengths DEF LogOK
    <2>3. tracked /\ tracked' /\ Begun
      BY <1>1, <2>1, <2>2 DEF HeaderInv, BegunOK, Begun, traceVars
    <2>4. Kept
      BY <1>1, QuietIsKept
    <2>5. UNCHANGED ringVars /\ MayBegin(Buffered)
      BY <2>4 DEF Kept
    <2>6. FreeSpace' = FreeSpace /\ FreeSpace \in 0..Usable
      BY <2>5, SameRing, RoomRange
    <2>7. toWrite' = 0
      BY <1>1, <1>5
    <2>8. TransferOK'
      BY <1>1, <2>3, <2>5, TransferStays DEF HeaderInv
    <2>9. SyncOK' /\ RoomOK'
      BY <1>1, <2>6, <2>7 DEF SyncOK, Syncs, RoomOK
    <2>10. BegunOK'
      BY <2>1, <2>3 DEF BegunOK
    <2> QED
      BY <2>8, <2>9, <2>10 DEF HeaderInv
  <1> QED
    BY <1>2, <1>3, <1>4, <1>5

LEMMA OutsideStepKeeps ==
    ASSUME TypeInv, TypeInv', HeaderInv, DelayOver \/ StartsRecording \/ Disarm
    PROVE  HeaderInv'
  <1>1. CASE DelayOver
    <2>1. dma.len = 0 /\ pc' = "IDLE" /\ toWrite' = 0
      <3>1. ~InFlight /\ pc' = "IDLE" /\ toWrite' = 0
        BY <1>1 DEF DelayOver, Idle
      <3> QED
        BY <3>1, RingTyped, Sizes DEF InFlight
    <2>2. UNCHANGED <<dma, ringVars, blackboxState, headerIndex, traceVars>>
      BY <1>1 DEF DelayOver, chipVars
    <2>3. /\ Buffered' = Buffered /\ Buffered \in 0..Usable
          /\ FreeSpace' = FreeSpace /\ FreeSpace \in 0..Usable
      BY <2>2, SameRing, RoomRange
    <2>4. TransferOK'
      BY <2>1, <2>2, <2>3 DEF TransferOK
    <2>5. SyncOK' /\ RoomOK'
      BY <2>1, <2>3 DEF SyncOK, Syncs, RoomOK
    <2>6. BegunOK'
      BY <1>1, <2>1, <2>2 DEF HeaderInv, BegunOK, DelayOver, traceVars
    <2> QED
      BY <2>4, <2>5, <2>6 DEF HeaderInv
  <1>2. CASE StartsRecording
    <2>1. UNCHANGED Device /\ UNCHANGED <<traceVars, toWrite>>
      BY <1>2, WrittenIsQuiet DEF StartsRecording
    <2>2. UNCHANGED <<blackboxState, delayOver, headerIndex, tracked>>
              /\ ~Syncs /\ pc' = "IDLE" /\ toWrite' = 0
      BY <1>2, <2>1 DEF StartsRecording, Idle, Syncs, logVars, traceVars
    <2> QED
      BY <2>1, <2>2, SameState
  <1>3. CASE Disarm
    <2>1. ~Syncs /\ pc' = "IDLE" /\ UNCHANGED <<headerIndex, traceVars>>
      BY <1>3 DEF Disarm, Idle, Syncs
    <2>2. CASE blackboxFinish /\ StartWriting(2 * LastEvent)
      <3>1. blackboxState' \notin HeaderStates \cup {"CACHE_FLUSH"}
        BY <2>2, FinishLeavesHeader
      <3>2. Kept
        BY <2>2, StartIsQuiet, QuietIsKept
      <3> QED
        BY <2>1, <3>1, <3>2, OutsideKeeps DEF OutsideHeader
    <2>3. CASE StartWriting(LastEvent) /\ UNCHANGED <<blackboxState, delayOver>>
      <3>1. UNCHANGED Device /\ toWrite' = LastEvent
        BY <2>3, StartIsQuiet
      <3>2. blackboxState \in HeaderStates \cup {"CACHE_FLUSH"} => LastEvent = 0
        BY DEF LastEvent, HeaderStates
      <3> QED
        BY <2>1, <2>3, <3>1, <3>2, SameState DEF traceVars
    <2> QED
      BY <1>3, <2>2, <2>3 DEF Disarm
  <1> QED
    BY <1>1, <1>2, <1>3

(* At the beginning and after a restart nothing is under way. *)
LEMMA PowerCycleKeeps ==
    ASSUME TypeInv', PowerCycle PROVE HeaderInv'
  <1>1. /\ bufferHead' \in Slots /\ bufferTail' \in Slots
    BY DEF TypeInv, BlackboxTypeOK, FlashFsTypeOK
  <1>2. Buffered' \in 0..Usable
    BY <1>1, UsedRange DEF Buffered, Used
  <1>3. dma'.len = 0
    BY NoTransferTyped DEF PowerCycle, flashfsInit
  <1>4. TransferOK'
    BY <1>2, <1>3 DEF TransferOK
  <1>5. pc' = "SEARCH" /\ blackboxState' = "STOPPED"
    BY DEF PowerCycle, flashfsInit
  <1>6. SyncOK' /\ RoomOK' /\ BegunOK'
    BY <1>5 DEF SyncOK, Syncs, RoomOK, BegunOK, HeaderStates
  <1> QED
    BY <1>4, <1>6 DEF HeaderInv

LEMMA InitHeader == LogInit => HeaderInv
  <1> SUFFICES ASSUME LogInit PROVE HeaderInv
    OBVIOUS
  <1>1. Buffered \in 0..Usable
    BY InitTyped, RoomRange
  <1>2. dma.len = 0
    BY NoTransferTyped DEF LogInit, FlashFsInit
  <1>3. TransferOK
    BY <1>1, <1>2 DEF TransferOK
  <1>4. pc = "SEARCH" /\ blackboxState = "STOPPED"
    BY DEF LogInit, FlashFsInit, BlackboxInit
  <1>5. SyncOK /\ RoomOK /\ BegunOK
    BY <1>4 DEF SyncOK, Syncs, RoomOK, BegunOK, HeaderStates
  <1> QED
    BY <1>3, <1>5 DEF HeaderInv

LEMMA StutterKeeps ==
    ASSUME HeaderInv, UNCHANGED logSystemVars PROVE HeaderInv'
  <1>1. UNCHANGED <<dma, ringVars, dirty, pc, blackboxState, delayOver,
                    blackboxHeaderBudget, headerIndex, toWrite, tracked, bufferTail>>
    BY DEF logSystemVars, chipVars, ringVars, scanVars, logVars, traceVars
  <1>2. Buffered' = Buffered /\ FreeSpace' = FreeSpace
    BY <1>1, SameRing
  <1> QED
    BY <1>1, <1>2 DEF HeaderInv, SyncOK, Syncs, TransferOK, RoomOK, BegunOK, Begun

LEMMA HeaderKept ==
    ASSUME TypeInv, TypeInv', HeaderInv, [LogNext]_logSystemVars
    PROVE  HeaderInv'
  <1>1. \/ Interrupt
        \/ TaskMain
        \/ MspRead
        \/ SyncWait
        \/ StartUp
        \/ blackboxUpdate
        \/ ReplenishHeaderBudget \/ ReplenishTorn
        \/ HeaderStep
        \/ WriteByte
        \/ DeviceFlush
        \/ StartErase \/ (Asked("ERASE") /\ MspErase)
        \/ UpdateEnds
        \/ DelayOver \/ StartsRecording \/ Disarm
        \/ PowerCycle
        \/ UNCHANGED logSystemVars
    BY DEF LogNext, UpdatePass
  <1> QED
    BY <1>1, InterruptKeeps, TaskMainKeeps, MspReadKeeps, SyncWaitKeeps,
       StartUpKeeps, UpdateKeeps, ReplenishKeeps, HeaderStepKeeps,
       WriteByteKeeps, DeviceFlushKeeps, EraseKeeps, UpdateEndsKeeps,
       OutsideStepKeeps, PowerCycleKeeps, StutterKeeps

LEMMA AlwaysHeader == LogSpec => [](TypeInv /\ HeaderInv)
  <1>1. LogInit => TypeInv /\ HeaderInv
    BY InitTyped, InitHeader
  <1>2. TypeInv /\ HeaderInv /\ [LogNext]_logSystemVars => (TypeInv /\ HeaderInv)'
    BY StepTyped, HeaderKept
  <1> QED
    BY <1>1, <1>2, PTL DEF LogSpec

(* The ring does not overflow before the header is complete: not with a     *)
(* budget that is larger than the ring, not with the rest of the log before *)
(* still in it, not when the transfer is over between the two readings of   *)
(* the tail, and not when a read or an erase asked for while a transfer     *)
(* runs moves the tail past the head.                                       *)
THEOREM HeaderNeverOverflow == LogSpec => []HeaderNeverOverflows
  <1>1. TypeInv /\ HeaderInv => HeaderNeverOverflows
    BY DEF HeaderInv, BegunOK, HeaderNeverOverflows
  <1> QED
    BY <1>1, AlwaysHeader, PTL
=============================================================================
