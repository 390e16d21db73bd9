---------------------------- MODULE FlashController ----------------------------
(***************************************************************************)
(* The hardware back end of bootloader/src/flash_driver.c, register access *)
(* by register access, on the STM32F4 flash controller: calls of           *)
(* flash_erase_range(), flash_program_word() and flash_program_bytes() in  *)
(* any order, each a loop over sectors, words or bytes.                    *)
(***************************************************************************)
EXTENDS Integers

CONSTANTS
    WordBytes,     \* 4
    SectorBytes, Sectors,
    Values,        \* what may be programmed into a byte
    Erased, Spoilt,
    Calls,         \* the calls that callers make
    NoCall, NoResult, NoOp,
    Faults, MaxFaults

Size  == SectorBytes * Sectors
Bytes == 0 .. Size - 1

\* A call of the API; the data of a program is one value, for simplicity.
Call == [fn : {"erase_range", "program_word", "program_bytes"},
         addr : Bytes, size : 1 .. Size, value : Values]

ASSUME GeometryAssumption == /\ WordBytes \in Nat \ {0} /\ SectorBytes \in Nat \ {0}
                             /\ Sectors \in Nat \ {0}
ASSUME CallsAssumption ==
    /\ Calls \subseteq {c \in Call : c.addr + c.size <= Size}
    /\ \A c \in Calls : c.fn = "program_word" => c.size = WordBytes
ASSUME FlashFaultsAssumption ==
    Faults \subseteq {"error", "silent", "slow", "locked", "reset"} /\ MaxFaults \in Nat

VARIABLES
    CR,       \* LOCK, PG, SER and PSIZE of FLASH_CR
    SR,       \* BSY and the error flags of FLASH_SR
    mem,      \* the flash
    op,       \* what the controller is doing
    call,     \* the call in progress, or the last one
    pc,       \* where the driver is in it
    unit,     \* what it is at: a sector, a word or a byte
    i,        \* the offset of the loop
    status,   \* s
    result,   \* what the last call returned
    faults,
    gaveup,   \* history: the last wait_busy() has given up
    entry     \* history: what the call found when it was made

hardware == <<CR, SR, mem, op>>
place    == <<call, unit, i>>
driver   == <<place, pc, status, result>>
vars     == <<hardware, driver, faults, gaveup, entry>>

Status == {"OK", "ERR_BUSY", "ERR_VERIFY", "ERR_RANGE", "ERR_LOCKED", "ERR_PROG"}
Units  == {"sector", "word", "byte"}
Op     == [unit : Units, at : Bytes, value : Values]

TypeOK ==
    /\ CR \in [lock : BOOLEAN, pg : BOOLEAN, ser : BOOLEAN, psize : {"word", "byte"}]
    /\ SR \in [bsy : BOOLEAN, err : BOOLEAN]
    /\ mem \in [Bytes -> Values \cup {Erased, Spoilt}]
    /\ op \in Op \cup {NoOp}
    /\ call \in Call \cup {NoCall}
    /\ pc \in {"idle", "unlock", "loop", "before", "begin", "during", "finish", "returned"}
    /\ unit \in Units
    /\ i \in 0 .. Size
    /\ status \in Status
    /\ result \in Status \cup {NoResult}
    /\ faults \in 0 .. MaxFaults
    /\ gaveup \in BOOLEAN

Fault(kind) == kind \in Faults /\ faults < MaxFaults /\ faults' = faults + 1

-----------------------------------------------------------------------------
(* The controller.                                                         *)

ResetCR == [lock |-> TRUE, pg |-> FALSE, ser |-> FALSE, psize |-> "byte"]
Quiet   == [bsy |-> FALSE, err |-> FALSE]

Length(u) == CASE u = "sector" -> SectorBytes [] u = "word" -> WordBytes [] u = "byte" -> 1
Cells(o)  == o.at .. o.at + Length(o.unit) - 1

\* Programming clears bits, it cannot set them.
After(o, a) == IF o.unit = "sector" THEN Erased
               ELSE IF mem[a] \in {Erased, o.value} THEN o.value ELSE Spoilt

\* STRT, or a store to the flash.  Without PG, or with another PSIZE than the
\* width of the store, the controller stores nothing and raises an error.
Starts(o) ==
    IF \/ CR'.lock
       \/ o.unit = "sector" /\ ~CR'.ser
       \/ o.unit # "sector" /\ ~(CR'.pg /\ CR'.psize = o.unit)
    THEN SR' = [SR EXCEPT !.err = TRUE] /\ op' = NoOp
    ELSE SR' = [SR EXCEPT !.bsy = TRUE] /\ op' = o

Completes ==
    /\ op # NoOp
    /\ op' = NoOp
    /\ \/ /\ mem' = [a \in Bytes |-> IF a \in Cells(op) THEN After(op, a) ELSE mem[a]]
          /\ SR' = [SR EXCEPT !.bsy = FALSE]
          /\ UNCHANGED faults
       \/ /\ \/ Fault("error") /\ SR' = [bsy |-> FALSE, err |-> TRUE]
             \/ Fault("silent") /\ SR' = [SR EXCEPT !.bsy = FALSE]
          /\ \E a \in Cells(op) : mem' = [mem EXCEPT ![a] = Spoilt]
    /\ UNCHANGED <<CR, driver, gaveup, entry>>

-----------------------------------------------------------------------------
(* The driver.                                                             *)

WordAligned(a) == a % WordBytes = 0

\* The word phase lasts while whole words are left at aligned addresses.
UnitAt(c, offset, last) ==
    CASE c.fn = "erase_range"  -> "sector"
      [] c.fn = "program_word" -> "word"
      [] c.fn = "program_bytes" ->
            IF last # "byte" /\ offset + WordBytes <= c.size /\ WordAligned(c.addr + offset)
            THEN "word" ELSE "byte"

\* flash_sector_start() of the call's address for an erase.
FirstOf(c) == IF c.fn = "erase_range" THEN c.addr - (c.addr % SectorBytes) ELSE c.addr
Target(c)  == IF c.fn = "erase_range"
              THEN {a \in Bytes : \E b \in c.addr .. c.addr + c.size - 1 :
                                     a \div SectorBytes = b \div SectorBytes}
              ELSE c.addr .. c.addr + c.size - 1
Wanted(c)  == IF c.fn = "erase_range" THEN Erased ELSE c.value

Fits(c) == c.fn = "erase_range" \/ \A a \in Target(c) : mem[a] \in {Erased, c.value}

\* Where each function begins.
Invoke(c) ==
    /\ pc = "idle"
    /\ call' = c /\ i' = 0 /\ unit' = UnitAt(c, 0, "word")
    /\ pc' = CASE c.fn = "program_bytes" -> "unlock"
               [] c.fn = "erase_range"   -> "loop"
               [] c.fn = "program_word"  -> "before"
    /\ status' = "OK" /\ result' = NoResult
    /\ entry' = [faults |-> faults, fits |-> Fits(c), timedout |-> gaveup]
    /\ UNCHANGED <<hardware, faults, gaveup>>

\* The call returns s to the caller of the driver.
Leave(s) == pc' = "idle" /\ status' = s /\ result' = s

\* flash_erase_sector() or flash_program_word() returns s to the call it serves.
UnitReturns(s) == pc' = "returned" /\ status' = s /\ UNCHANGED result

Locked(cr)   == [cr EXCEPT !.lock = TRUE]                                 \* flash_lock()
Unlocked(cr) == [cr EXCEPT !.lock = FALSE]

\* flash_unlock() when LOCK stays set after the keys.
KeysRefused == CR.lock /\ Fault("locked")

\* wait_busy(), by what it returns.  It gives up only on a controller that is
\* slower than five million polls, and never before an operation: the last call
\* has ended by a write to FLASH_CR, which the bus holds back until then.
BusyTooLong     == SR.bsy /\ Fault("slow") /\ UNCHANGED SR /\ gaveup' = TRUE
ErrorLeft       == ~SR.bsy /\ SR.err /\ UNCHANGED <<SR, faults>> /\ gaveup' = FALSE  \* mutated form
ErrorFlagged    == ~SR.bsy /\ SR.err /\ SR' = Quiet /\ UNCHANGED faults /\ gaveup' = FALSE
ReadyWithoutErr == ~SR.bsy /\ ~SR.err /\ UNCHANGED <<SR, faults>> /\ gaveup' = FALSE

(* One unit: flash_erase_sector(), flash_program_word(), or one turn of the
   byte loop, which is part of flash_program_bytes().  The refusal of an address
   that begins no sector is out of reach: flash_erase_range() starts at one.  *)

\* flash_program_word() refuses an address that is not aligned.
RefuseUnaligned ==
    /\ pc = "before" /\ unit = "word" /\ ~WordAligned(call.addr + i)
    /\ UnitReturns("ERR_RANGE")
    /\ UNCHANGED <<hardware, place, faults, gaveup, entry>>

WaitBefore ==
    /\ pc = "before"
    /\ unit = "word" => WordAligned(call.addr + i)
    /\ \/ ReadyWithoutErr /\ pc' = "begin" /\ UNCHANGED <<CR, status, result>>
       \/ unit # "byte" /\ ErrorFlagged /\ UnitReturns("ERR_PROG") /\ UNCHANGED CR
       \/ unit = "byte" /\ ErrorFlagged /\ Leave("ERR_PROG") /\ CR' = Locked(CR)
    /\ UNCHANGED <<mem, op, place, entry>>

UnlockRefused ==
    /\ pc = "begin" /\ unit # "byte"
    /\ KeysRefused
    /\ UnitReturns("ERR_LOCKED")
    /\ UNCHANGED <<hardware, place, gaveup, entry>>

\* The bits that one unit needs; the byte phase leaves PSIZE as it was, and
\* relies on the unlock at the beginning.
Configured ==
    CASE unit = "sector" -> [lock |-> FALSE, pg |-> FALSE, ser |-> TRUE, psize |-> "word"]
      [] unit = "word"   -> [lock |-> FALSE, pg |-> TRUE, ser |-> FALSE, psize |-> "word"]
      [] unit = "byte"   -> [CR EXCEPT !.pg = TRUE, !.ser = FALSE]

Begin ==
    /\ pc = "begin"
    /\ CR' = Configured
    /\ Starts([unit |-> unit, at |-> FirstOf(call) + i, value |-> call.value])
    /\ pc' = "during"
    /\ UNCHANGED <<mem, place, status, result, faults, gaveup, entry>>

WaitDuring ==
    /\ pc = "during"
    /\ \/ ReadyWithoutErr /\ status' = "OK"
       \/ ErrorFlagged /\ status' = "ERR_PROG"
       \/ BusyTooLong /\ status' = "ERR_BUSY"
    /\ pc' = "finish"
    /\ UNCHANGED <<CR, mem, op, place, result, entry>>

\* The readback.
ReadsBackAnything == TRUE                                                 \* mutated form
ReadsBack == \A a \in FirstOf(call) + i .. FirstOf(call) + i + Length(unit) - 1 :
                mem[a] = Wanted(call)

\* PG or SER is cleared, which the bus holds back while the controller is busy.
CleanSer == [CR EXCEPT !.ser = FALSE]                                     \* mutated form
Clean    == [CR EXCEPT !.pg = FALSE, !.ser = FALSE]

Finishing == pc = "finish" /\ ~SR.bsy /\ UNCHANGED <<SR, mem, op, faults, gaveup, entry>>

FinishUnit ==
    /\ Finishing /\ unit # "byte"
    /\ CR' = Clean
    /\ UnitReturns(IF status = "OK" /\ ~ReadsBack THEN "ERR_VERIFY" ELSE status)
    /\ UNCHANGED place

\* The ways out of a turn of the byte loop after the store.
ByteFails ==
    /\ Finishing /\ unit = "byte" /\ status # "OK"
    /\ Leave(status) /\ CR' = Locked(Clean)
    /\ UNCHANGED place

ByteDiffersUnlocked ==                                                    \* mutated form
    /\ Finishing /\ unit = "byte" /\ status = "OK" /\ ~ReadsBack
    /\ Leave("ERR_VERIFY") /\ CR' = Clean
    /\ UNCHANGED place
ByteDiffers ==
    /\ Finishing /\ unit = "byte" /\ status = "OK" /\ ~ReadsBack
    /\ Leave("ERR_VERIFY") /\ CR' = Locked(Clean)
    /\ UNCHANGED place

\* The unit is done, and the loop goes on behind it.
Advance == /\ pc' = "loop" /\ i' = i + Length(unit)
           /\ UNCHANGED <<call, unit, status, result>>

ByteStored ==
    /\ Finishing /\ unit = "byte" /\ status = "OK" /\ ReadsBack
    /\ Advance /\ CR' = Clean

(* The loops of flash_erase_range() and flash_program_bytes().               *)

\* flash_program_bytes() begins with an unlock; refused, it returns at once.
BytesUnlock ==
    /\ pc = "unlock"
    /\ \/ pc' = "loop" /\ CR' = Unlocked(CR) /\ UNCHANGED <<status, result, faults>>
       \/ KeysRefused /\ Leave("ERR_LOCKED") /\ UNCHANGED CR
    /\ UNCHANGED <<SR, mem, op, place, gaveup, entry>>

RangeEnd == IF call.fn = "erase_range" THEN call.addr + call.size - FirstOf(call) ELSE call.size

MoreOrEqual(next) == next <= RangeEnd                                     \* mutated form
More(next)        == next < RangeEnd

NextUnit ==
    /\ pc = "loop" /\ More(i)
    /\ pc' = "before" /\ unit' = UnitAt(call, i, unit)
    /\ UNCHANGED <<hardware, call, i, status, result, faults, gaveup, entry>>

EraseDone ==
    /\ pc = "loop" /\ call.fn = "erase_range" /\ ~More(i)
    /\ Leave("OK")
    /\ UNCHANGED <<hardware, place, faults, gaveup, entry>>

BytesDone ==
    /\ pc = "loop" /\ call.fn = "program_bytes" /\ ~More(i)
    /\ Leave("OK") /\ CR' = Locked(CR)
    /\ UNCHANGED <<SR, mem, op, place, faults, gaveup, entry>>

\* The call of flash_program_word() itself.
WordReturned ==
    /\ pc = "returned" /\ call.fn = "program_word"
    /\ Leave(status)
    /\ UNCHANGED <<hardware, place, faults, gaveup, entry>>

SectorReturned ==
    /\ pc = "returned" /\ call.fn = "erase_range"
    /\ \/ status # "OK" /\ Leave(status) /\ UNCHANGED place
       \/ status = "OK" /\ Advance
    /\ UNCHANGED <<hardware, faults, gaveup, entry>>

\* The word phase; its mutated form tries a word again that does not read back.
BytesWordRetried ==                                                       \* mutated form
    /\ pc = "returned" /\ call.fn = "program_bytes"
    /\ \/ status = "ERR_VERIFY" /\ pc' = "before" /\ UNCHANGED <<CR, place, status, result>>
       \/ status \notin {"OK", "ERR_VERIFY"} /\ Leave(status) /\ CR' = Locked(CR) /\ UNCHANGED place
       \/ status = "OK" /\ Advance /\ UNCHANGED CR
    /\ UNCHANGED <<SR, mem, op, faults, gaveup, entry>>
BytesWordReturned ==
    /\ pc = "returned" /\ call.fn = "program_bytes"
    /\ \/ status # "OK" /\ Leave(status) /\ CR' = Locked(CR) /\ UNCHANGED place
       \/ status = "OK" /\ Advance /\ UNCHANGED CR
    /\ UNCHANGED <<SR, mem, op, faults, gaveup, entry>>

\* A reset, after which main() calls flash_init().
Reset ==
    /\ Fault("reset")
    /\ IF op = NoOp THEN UNCHANGED mem
       ELSE \E a \in Cells(op) : mem' = [mem EXCEPT ![a] = Spoilt]
    /\ CR' = ResetCR /\ SR' = Quiet /\ op' = NoOp
    /\ call' = NoCall /\ pc' = "idle" /\ status' = "OK" /\ result' = NoResult
    /\ gaveup' = FALSE
    /\ UNCHANGED <<unit, i, entry>>

Init ==
    /\ CR = ResetCR /\ SR = Quiet /\ op = NoOp
    /\ mem = [a \in Bytes |-> Erased]
    /\ call = NoCall /\ pc = "idle" /\ unit = "word" /\ i = 0
    /\ status = "OK" /\ result = NoResult
    /\ faults = 0 /\ gaveup = FALSE
    /\ entry = [faults |-> 0, fits |-> TRUE, timedout |-> FALSE]

Unit == \/ RefuseUnaligned \/ WaitBefore \/ UnlockRefused \/ Begin \/ WaitDuring
        \/ FinishUnit \/ ByteFails \/ ByteDiffers \/ ByteStored
Loops == \/ BytesUnlock \/ NextUnit \/ EraseDone \/ BytesDone
         \/ WordReturned \/ SectorReturned \/ BytesWordReturned

Driver == Unit \/ Loops

Next == (\E c \in Calls : Invoke(c)) \/ Driver \/ Completes \/ Reset

Spec     == Init /\ [][Next]_vars
\* The processor runs the driver, and the controller ends what it has begun.
FairSpec == Spec /\ WF_vars(Driver) /\ WF_vars(Completes)

-----------------------------------------------------------------------------
(* Properties.                                                             *)

Returned == pc = "idle" /\ result # NoResult

\* FLASH_OK means that all of the range is erased or programmed, whatever the
\* controller reported on the way.
OkMeansDone ==
    Returned /\ result = "OK" => \A a \in Target(call) : mem[a] = Wanted(call)

\* Between two calls no operation runs and neither PG nor SER is set, on every
\* return path: a stray store of the application programs nothing.
CleanBetweenCalls == pc = "idle" => ~CR.pg /\ ~CR.ser /\ op = NoOp

\* flash_lock(): "Re-lock the flash after writes are complete", on each of the
\* six ways out of flash_program_bytes(); the one that locks nothing itself, the
\* refused unlock, must find the flash locked.
RelockedOnReturn == Returned /\ call.fn = "program_bytes" => CR.lock

\* flash_driver.h: "Internally programs in 32-bit chunks where possible,
\* byte-by-byte for the trailing remainder": flash_program_bytes() on blank flash
\* succeeds when nothing goes wrong, whatever the address and the length.
FaultFreeCallSucceeds ==
    Returned /\ faults = entry.faults /\ entry.fits /\ ~entry.timedout => result = "OK"

\* The same for whole words, after calls of all kinds: the error flags and
\* control bits that an earlier failure has left do not make the next call
\* fail, but for the error of an operation that wait_busy() had given up.
WholeWords(c) == c.fn = "erase_range" \/ (WordAligned(c.addr) /\ WordAligned(c.size))
NoStaleFailure == Returned /\ WholeWords(call) => FaultFreeCallSucceeds

\* Every call returns.
CallReturns == (pc # "idle") ~> (pc = "idle")
=============================================================================
