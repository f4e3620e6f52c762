------------------------------ MODULE FlashFs ------------------------------
(***************************************************************************)
(* io/flashfs.c on an m25p16 chip (drivers/flash.c, flash_m25p16.c): the   *)
(* ring of bytes that wait to be programmed, the page program that a DMA   *)
(* transfer feeds and whose completion interrupt advances the tail, the    *)
(* erase, and the search for the free space after a restart.               *)
(*                                                                         *)
(* A byte is the number of its place in the stream since the file pointer  *)
(* was last put somewhere; the ring is wrapped by one subtraction, as in   *)
(* the code.                                                               *)
(***************************************************************************)
EXTENDS Integers

CONSTANTS
    BufferSize,          \* FLASHFS_WRITE_BUFFER_SIZE
    AutoFlushLen,        \* FLASHFS_WRITE_BUFFER_AUTO_FLUSH_LEN
    FlashSize, PageSize, SectorSize,
    FreeBlockSize,       \* FREE_BLOCK_SIZE
    FreeBlockTestSize,   \* FREE_BLOCK_TEST_SIZE_BYTES
    WholeChip            \* the only partition covers the whole chip

ASSUME FlashAssumption ==
    /\ BufferSize \in Nat /\ AutoFlushLen \in 1..BufferSize - 1
    /\ PageSize \in Nat \ {0} /\ SectorSize \in Nat \ {0}
    /\ FreeBlockSize \in Nat \ {0} /\ FreeBlockTestSize \in 1..FreeBlockSize
    /\ FlashSize \in Nat
    /\ FlashSize % PageSize = 0
    /\ FlashSize % SectorSize = 0
    /\ FlashSize % FreeBlockSize = 0
    /\ WholeChip \in BOOLEAN

VARIABLES
    flash,        \* the chip's bytes
    dma,          \* the transfer that feeds a page program
    busy,         \* the chip programs or erases (WRITE_IN_PROGRESS)
    bufferHead, bufferTail, flashWriteBuffer, dataWritten,
    tailAddress, flashfsState, eraseSectorCurrent,
    dirty,        \* flashfsFlushSync: the region it found before it waits
    search,       \* flashfsIdentifyStartOfFreeSpace: left, right, result
    pc            \* where the main loop is within a handler

chipVars == <<flash, dma, busy>>
ringVars == <<bufferHead, bufferTail, flashWriteBuffer>>
eraseVars == <<flashfsState, eraseSectorCurrent>>
scanVars == <<dirty, search>>

Erased == 0
Garbled == -1      \* a byte programmed twice: the bits of both are cleared
Old == -2          \* a byte of no stream: of before the last restart, or a 0
                   \*   of the RAM that the C library cleared
Usable == BufferSize - 1
Addresses == 0..FlashSize - 1
Slots == 0..BufferSize - 1
Blocks == FlashSize \div FreeBlockSize
Sectors == FlashSize \div SectorSize
Lesser(a, b) == IF a < b THEN a ELSE b

NoTransfer == [at |-> 0, from |-> 0, left |-> 0, len |-> 0]
NothingDirty == [from |-> 0, total |-> 0]
WholeVolume == [left |-> 0, right |-> Blocks, result |-> Blocks]
InFlight == dma.len > 0

Transfers == [at : Nat, from : Slots, left : 0..Usable, len : 0..Usable]

FlashFsTypeOK ==
    /\ flash \in [Addresses -> Int]
    /\ dma \in Transfers
    /\ busy \in BOOLEAN
    /\ bufferHead \in Slots /\ bufferTail \in Slots
    /\ flashWriteBuffer \in [Slots -> Int]
    /\ dataWritten \in BOOLEAN
    /\ tailAddress \in 0..FlashSize
    /\ flashfsState \in {"IDLE", "ERASING"}
    /\ eraseSectorCurrent \in 0..Sectors
    /\ dirty \in [from : Slots, total : 0..Usable]
    /\ search \in [left : 0..Blocks, right : 0..Blocks, result : 0..Blocks]

-----------------------------------------------------------------------------
(* The ring and the chip. *)

(* Mutant of Wrap: one late. *)
WrapLate(index) == IF index > BufferSize THEN index - BufferSize ELSE index

Wrap(index) == IF index >= BufferSize THEN index - BufferSize ELSE index

Used(head, tail) ==
    IF head >= tail THEN head - tail ELSE BufferSize - tail + head

(* Mutant of FreeSpace: the slot that tells full from empty counts. *)
FreeSpaceOneMore == BufferSize - Used(bufferHead, bufferTail)

FreeSpace == Usable - Used(bufferHead, bufferTail)

flashIsReady == ~InFlight /\ ~busy
flashfsIsReady == flashfsState = "IDLE" /\ flashIsReady
flashfsIsEOF == tailAddress >= FlashSize

(* Mutant of PageEnd: a page from here on. *)
PageEndFromHere(address) == address + PageSize

PageEnd(address) == address - (address % PageSize) + PageSize

(* flashfsWriteBuffers of a chip that is ready: one page program of the     *)
(* bytes from the slot on, cut off at the end of the page.                  *)
StartProgram(slot, total) ==
    LET n == Lesser(total, PageEnd(tailAddress) - tailAddress)
    IN  /\ dma' = [at |-> tailAddress, from |-> slot, left |-> n, len |-> n]
        /\ dataWritten' = FALSE

(* Mutant of WriteBuffers: it does not ask whether the chip is ready. *)
WriteBuffersUnasked(slot, total) ==
    IF ~flashfsIsEOF THEN StartProgram(slot, total)
    ELSE UNCHANGED <<dma, dataWritten>>

WriteBuffers(slot, total) ==
    IF flashIsReady /\ ~flashfsIsEOF THEN StartProgram(slot, total)
    ELSE UNCHANGED <<dma, dataWritten>>

flashfsFlushAsync(head, force) ==
    LET used == Used(head, bufferTail)
    IN  IF used > 0 /\ dataWritten /\ (force \/ used >= AutoFlushLen)
        THEN WriteBuffers(bufferTail, used)
        ELSE UNCHANGED <<dma, dataWritten>>

(* At the end of a string flashfsWrite writes too, whatever dataWritten.    *)
flashfsWriteByte(byte, endsString) ==
    /\ flashWriteBuffer' = [flashWriteBuffer EXCEPT ![bufferHead] = byte]
    /\ bufferHead' = Wrap(bufferHead + 1)
    /\ LET used == Used(bufferHead', bufferTail)
       IN  IF endsString /\ used >= AutoFlushLen
           THEN WriteBuffers(bufferTail, used)
           ELSE IF used >= AutoFlushLen THEN flashfsFlushAsync(bufferHead', FALSE)
           ELSE UNCHANGED <<dma, dataWritten>>

-----------------------------------------------------------------------------
(* The chip and the interrupt. *)

(* The chip goes on within the page, from its end to its beginning.         *)
NextInPage(address) ==
    IF (address + 1) % PageSize = 0 THEN address + 1 - PageSize ELSE address + 1

(* Programming only clears bits. *)
DmaByte ==
    /\ dma.left > 0
    /\ flash' = [flash EXCEPT ![dma.at] =
                    IF @ = Erased THEN flashWriteBuffer[dma.from] ELSE Garbled]
    /\ dma' = [dma EXCEPT !.at = NextInPage(@), !.from = Wrap(@ + 1),
                          !.left = @ - 1]
    /\ UNCHANGED <<busy, ringVars, dataWritten, tailAddress, eraseVars,
                   scanVars, pc>>

(* m25p16_callbackWriteComplete and flashfsWriteCallback. *)
WriteCallback ==
    /\ InFlight /\ dma.left = 0
    /\ tailAddress' = tailAddress + dma.len
    /\ bufferTail' = Wrap(bufferTail + dma.len)
    /\ dataWritten' = TRUE
    /\ dma' = NoTransfer
    /\ busy' = TRUE
    /\ UNCHANGED <<flash, bufferHead, flashWriteBuffer, eraseVars, scanVars>>

TransferDone == WriteCallback /\ UNCHANGED pc

ChipReady ==
    /\ busy
    /\ busy' = FALSE
    /\ UNCHANGED <<flash, dma, ringVars, dataWritten, tailAddress, eraseVars,
                   scanVars, pc>>

-----------------------------------------------------------------------------
(* Erasing. *)

(* The erase of the whole chip clears the driver's callback, waits for the  *)
(* transfer before it and then for the chip; sectors are erased later by    *)
(* taskMain.                                                                *)
flashfsEraseCompletely ==
    /\ IF WholeChip
       THEN /\ flash' = [a \in Addresses |-> Erased]
            /\ dma' = NoTransfer
            /\ busy' = TRUE
            /\ UNCHANGED eraseVars
       ELSE /\ eraseSectorCurrent' = 0
            /\ flashfsState' = "ERASING"
            /\ UNCHANGED chipVars
    /\ bufferHead' = 0
    /\ bufferTail' = 0
    /\ tailAddress' = 0
    /\ UNCHANGED <<flashWriteBuffer, dataWritten>>

(* Mutant of flashfsEraseAsync: it does not go on to the next sector. *)
flashfsEraseAsyncInPlace ==
    /\ flashfsState = "ERASING" /\ flashIsReady
    /\ flash' = [a \in Addresses |->
                    IF a \div SectorSize = eraseSectorCurrent THEN Erased
                    ELSE flash[a]]
    /\ busy' = TRUE
    /\ UNCHANGED <<dma, ringVars, dataWritten, tailAddress, eraseVars,
                   scanVars, pc>>

flashfsEraseAsync ==
    /\ flashfsState = "ERASING" /\ flashIsReady
    /\ IF eraseSectorCurrent < Sectors
       THEN /\ flash' = [a \in Addresses |->
                            IF a \div SectorSize = eraseSectorCurrent THEN Erased
                            ELSE flash[a]]
            /\ busy' = TRUE
            /\ eraseSectorCurrent' = eraseSectorCurrent + 1
            /\ UNCHANGED flashfsState
       ELSE /\ flashfsState' = "IDLE"
            /\ UNCHANGED <<flash, busy, eraseSectorCurrent>>
    /\ UNCHANGED <<dma, ringVars, dataWritten, tailAddress, scanVars, pc>>

-----------------------------------------------------------------------------
(* flashfsReadAbs: flashfsFlushSync takes the dirty region first and waits  *)
(* for the chip then, twice.                                                *)

ReadAbs ==
    /\ bufferHead # bufferTail
    /\ dirty' = [from |-> bufferTail, total |-> Used(bufferHead, bufferTail)]
    /\ pc' = "FLUSH_SYNC"
    /\ UNCHANGED <<chipVars, ringVars, dataWritten, tailAddress, eraseVars,
                   search>>

FlushSyncWrite ==
    /\ pc = "FLUSH_SYNC" /\ flashIsReady
    /\ WriteBuffers(dirty.from, dirty.total)
    /\ pc' = "FLUSHED_SYNC"
    /\ UNCHANGED <<flash, busy, ringVars, tailAddress, eraseVars, scanVars>>

FlushSyncReturns ==
    /\ pc = "FLUSHED_SYNC" /\ flashIsReady
    /\ dirty' = NothingDirty
    /\ pc' = "IDLE"
    /\ UNCHANGED <<chipVars, ringVars, dataWritten, tailAddress, eraseVars,
                   search>>

-----------------------------------------------------------------------------
(* Restart: the RAM is as the C library leaves it, the chip keeps its bytes *)
(* and the stream is counted anew.                                          *)

(* Mutant of BlockErased: it tests the end of the block. *)
BlockErasedAtEnd(block) ==
    \A i \in 0..FreeBlockTestSize - 1 :
        flash[block * FreeBlockSize + FreeBlockSize - 1 - i] = Erased

BlockErased(block) ==
    \A i \in 0..FreeBlockTestSize - 1 :
        flash[block * FreeBlockSize + i] = Erased

flashfsInit ==
    /\ flash' = [a \in Addresses |->
                    IF flash[a] \in {Erased, Garbled} THEN flash[a] ELSE Old]
    /\ dma' = NoTransfer
    /\ busy' = FALSE
    /\ bufferHead' = 0
    /\ bufferTail' = 0
    /\ flashWriteBuffer' = [i \in Slots |-> Old]
    /\ dataWritten' = TRUE
    /\ tailAddress' = 0
    /\ flashfsState' = "IDLE"
    /\ eraseSectorCurrent' = 0
    /\ dirty' = NothingDirty
    /\ search' = WholeVolume
    /\ pc' = "SEARCH"

(* One pass of the binary search. *)
SearchBlock ==
    /\ pc = "SEARCH" /\ search.left < search.right
    /\ LET mid == (search.left + search.right) \div 2
       IN  search' = IF BlockErased(mid)
                     THEN [search EXCEPT !.right = mid, !.result = mid]
                     ELSE [search EXCEPT !.left = mid + 1]
    /\ UNCHANGED <<chipVars, ringVars, dataWritten, tailAddress, eraseVars,
                   dirty, pc>>

SearchEnds ==
    /\ pc = "SEARCH" /\ search.left >= search.right
    /\ tailAddress' = search.result * FreeBlockSize
    /\ search' = WholeVolume
    /\ pc' = "IDLE"
    /\ UNCHANGED <<chipVars, ringVars, dataWritten, eraseVars, dirty>>

FlashFsInit ==
    /\ flash = [a \in Addresses |-> Erased]
    /\ dma = NoTransfer
    /\ busy = FALSE
    /\ bufferHead = 0
    /\ bufferTail = 0
    /\ flashWriteBuffer = [i \in Slots |-> Old]
    /\ dataWritten = TRUE
    /\ tailAddress = 0
    /\ flashfsState = "IDLE"
    /\ eraseSectorCurrent = 0
    /\ dirty = NothingDirty
    /\ search = WholeVolume
    /\ pc = "SEARCH"
=============================================================================
