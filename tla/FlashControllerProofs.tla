------------------------- MODULE FlashControllerProofs -------------------------
(***************************************************************************)
(* What the flash driver leaves behind, for every geometry, all calls and  *)
(* any number of faults: a call that returns FLASH_OK has done all of its  *)
(* range, and no call leaves the controller armed.                         *)
(***************************************************************************)
EXTENDS FlashController, TLAPS

\* The registers, and the operation that BSY stands for.
Registers ==
    /\ CR \in [lock : BOOLEAN, pg : BOOLEAN, ser : BOOLEAN, psize : {"word", "byte"}]
    /\ SR \in [bsy : BOOLEAN, err : BOOLEAN]
    /\ mem = [a \in Bytes |-> mem[a]]
    /\ op # NoOp => SR.bsy

StartsSector(a) == \E k \in Nat : a = SectorBytes * k

InUnit == pc \in {"before", "begin", "during", "finish", "returned"}
InLoop == InUnit \/ pc = "loop"

\* Where the driver is; an erase stays at the beginning of a sector, and the call
\* of flash_program_word() at its only word.
Loop ==
    /\ pc \in {"idle", "unlock"} \/ InLoop
    /\ unit \in Units
    /\ i \in Nat
    /\ pc # "idle" => call \in Calls
    /\ pc = "unlock" => call.fn = "program_bytes" /\ i = 0
    /\ pc = "loop" => call.fn # "program_word"
    /\ InLoop /\ call.fn = "erase_range" => unit = "sector" /\ StartsSector(FirstOf(call) + i)
    /\ InLoop /\ call.fn = "program_word" => unit = "word" /\ i = 0
    /\ pc # "idle" /\ call.fn = "program_bytes" => unit # "sector"

\* Nothing runs and nothing is armed but in the wait after the store.
Disarmed == pc \notin {"during", "finish"} => op = NoOp /\ ~CR.pg /\ ~CR.ser

\* What runs is the unit that the loop is at ...
AtUnit == InLoop /\ op # NoOp => op.unit = unit /\ op.at = FirstOf(call) + i

\* ... so that what the loop has passed is done and stays done.
PassedDone ==
    InLoop => \A a \in Bytes :
                 FirstOf(call) <= a /\ a < FirstOf(call) + i => mem[a] = Wanted(call)

\* A unit that returns FLASH_OK has been read back.
UnitDone == pc = "returned" /\ status = "OK" => ReadsBack

AllDone == \A a \in Target(call) : mem[a] = Wanted(call)

ControllerInv == /\ Registers /\ Loop /\ Disarmed /\ AtUnit /\ PassedDone /\ UnitDone
                 /\ OkMeansDone /\ RelockedOnReturn

-----------------------------------------------------------------------------
(* Sectors.                                                                *)

LEMMA DivMod ==
    ASSUME NEW n \in Nat, NEW d \in Nat \ {0}
    PROVE  /\ n \div d \in Nat /\ n % d \in 0 .. d - 1
           /\ n = d * (n \div d) + (n % d)
  BY SMT

\* The first sector begins at flash_sector_start() of the address ...
LEMMA SectorStart ==
    ASSUME NEW n \in Nat
    PROVE  LET first == n - (n % SectorBytes)
           IN  first \in Nat /\ first <= n /\ StartsSector(first)
  <1> DEFINE k == n \div SectorBytes
  <1>1. k \in Nat /\ n % SectorBytes \in 0 .. SectorBytes - 1 /\ n = SectorBytes * k + (n % SectorBytes)
    BY DivMod, GeometryAssumption
  <1>2. n - (n % SectorBytes) = SectorBytes * k /\ SectorBytes * k \in Nat
    BY <1>1, GeometryAssumption
  <1> HIDE DEF k
  <1> QED
    BY <1>1, <1>2 DEF StartsSector

\* ... the others one after another.
LEMMA NextSector ==
    ASSUME NEW n, StartsSector(n)
    PROVE  StartsSector(n + SectorBytes)
  <1>1. PICK k \in Nat : n = SectorBytes * k
    BY DEF StartsSector
  <1>2. n + SectorBytes = SectorBytes * (k + 1)
    BY <1>1, GeometryAssumption
  <1> QED
    BY <1>2 DEF StartsSector

\* A byte before a boundary between sectors has its whole sector before it,
\* and a byte at or after x has it after the start of the sector of x.
LEMMA WholeSector ==
    ASSUME NEW a \in Nat, NEW b \in Nat, a \div SectorBytes = b \div SectorBytes,
           NEW end \in Nat, StartsSector(end), NEW x \in Nat, x <= b
    PROVE  /\ b < end => a < end
           /\ x - (x % SectorBytes) <= a
  <1> DEFINE q == b \div SectorBytes
  <1>1. /\ SectorBytes \in Nat /\ SectorBytes > 0 /\ q \in Nat
        /\ a % SectorBytes \in 0 .. SectorBytes - 1 /\ a = SectorBytes * q + (a % SectorBytes)
        /\ b % SectorBytes \in 0 .. SectorBytes - 1 /\ b = SectorBytes * q + (b % SectorBytes)
    <2>1. q \in Nat /\ b % SectorBytes \in 0 .. SectorBytes - 1
          /\ b = SectorBytes * q + (b % SectorBytes)
      BY GeometryAssumption, DivMod
    <2>2. a % SectorBytes \in 0 .. SectorBytes - 1
          /\ a = SectorBytes * (a \div SectorBytes) + (a % SectorBytes)
      BY GeometryAssumption, DivMod
    <2> QED
      BY <2>1, <2>2, GeometryAssumption
  <1>2. PICK k \in Nat : end = SectorBytes * k
    BY DEF StartsSector
  <1> HIDE DEF q
  <1>3. SectorBytes * q \in Nat /\ SectorBytes * k \in Nat
    BY <1>1
  <1>4. b < end => a < end
    <2> SUFFICES ASSUME b < end PROVE a < end
      OBVIOUS
    <2>1. q < k
      <3> SUFFICES ASSUME k <= q PROVE FALSE
        BY <1>1, <1>2
      <3>1. SectorBytes * k <= SectorBytes * q
        BY <1>1
      <3> QED
        BY <3>1, <1>1, <1>2, <1>3
    <2>2. SectorBytes * q + SectorBytes <= SectorBytes * k
      BY <2>1, <1>1
    <2> QED
      BY <2>2, <1>1, <1>2, <1>3
  <1>5. x - (x % SectorBytes) <= a
    <2> DEFINE p == x \div SectorBytes
    <2>1. p \in Nat /\ x % SectorBytes \in 0 .. SectorBytes - 1
          /\ x = SectorBytes * p + (x % SectorBytes)
      BY GeometryAssumption, DivMod
    <2> HIDE DEF p
    <2>2. SectorBytes * p \in Nat
      BY <1>1, <2>1
    <2>3. p <= q
      <3> SUFFICES ASSUME q < p PROVE FALSE
        BY <1>1, <2>1
      <3>1. SectorBytes * q + SectorBytes <= SectorBytes * p
        BY <1>1, <2>1
      <3> QED
        BY <3>1, <1>1, <1>3, <2>1, <2>2
    <2>4. SectorBytes * p <= SectorBytes * q
      BY <2>1, <2>3, <1>1
    <2> QED
      BY <2>1, <2>2, <2>4, <1>1, <1>3
  <1> QED
    BY <1>4, <1>5

-----------------------------------------------------------------------------
(* Calls.                                                                  *)

LEMMA CallFacts ==
    ASSUME NEW c \in Calls
    PROVE  /\ c.fn \in {"erase_range", "program_word", "program_bytes"}
           /\ c.addr \in Nat /\ c.size \in Nat \ {0} /\ c.addr + c.size <= Size
           /\ FirstOf(c) \in Nat /\ FirstOf(c) <= c.addr
           /\ c.fn = "erase_range" => StartsSector(FirstOf(c))
           /\ c.fn # "erase_range" => FirstOf(c) = c.addr
           /\ c.fn = "program_word" => c.size = WordBytes
  <1>1. /\ c.fn \in {"erase_range", "program_word", "program_bytes"}
        /\ c.addr \in Nat /\ c.size \in Nat \ {0} /\ c.addr + c.size <= Size
        /\ c.fn = "program_word" => c.size = WordBytes
    <2>1. Size \in Nat
      BY GeometryAssumption DEF Size
    <2>2. c \in Call /\ c.addr + c.size <= Size /\ (c.fn = "program_word" => c.size = WordBytes)
      BY CallsAssumption
    <2>3. /\ c.fn \in {"erase_range", "program_word", "program_bytes"}
          /\ c.addr \in 0 .. Size - 1 /\ c.size \in 1 .. Size
      BY <2>2 DEF Call, Bytes
    <2> QED
      BY <2>1, <2>2, <2>3
  <1> QED
    BY <1>1, SectorStart DEF FirstOf

LEMMA UnitFacts ==
    ASSUME NEW c \in Calls, NEW n, NEW u
    PROVE  /\ UnitAt(c, n, u) \in Units
           /\ c.fn = "erase_range" => UnitAt(c, n, u) = "sector"
           /\ c.fn = "program_word" => UnitAt(c, n, u) = "word"
           /\ c.fn = "program_bytes" => UnitAt(c, n, u) # "sector"
  BY CallFacts DEF UnitAt, Units

LEMMA LengthFacts ==
    ASSUME NEW u \in Units
    PROVE  Length(u) \in Nat \ {0} /\ (u = "sector" => Length(u) = SectorBytes)
  BY GeometryAssumption DEF Length, Units

\* When nothing more is left, the loop has passed all that the call is for.
LEMMA LoopCovers ==
    ASSUME call \in Calls, NEW n \in Nat, ~More(n),
           call.fn = "erase_range" => StartsSector(FirstOf(call) + n),
           NEW a \in Target(call)
    PROVE  a \in Bytes /\ FirstOf(call) <= a /\ a < FirstOf(call) + n
  <1>1. Size \in Nat
    BY GeometryAssumption DEF Size
  <1>2. CASE call.fn = "erase_range"
    <2>1. PICK b \in call.addr .. call.addr + call.size - 1 :
                 a \in Bytes /\ a \div SectorBytes = b \div SectorBytes
      BY <1>2 DEF Target
    <2>2. a \in Nat /\ b \in Nat /\ FirstOf(call) + n \in Nat /\ b < FirstOf(call) + n
      BY <1>1, <1>2, <2>1, CallFacts DEF More, RangeEnd, Bytes
    <2>3. a < FirstOf(call) + n
      <3>1. call.addr \in Nat /\ call.addr <= b
        BY <2>1, CallFacts
      <3> QED
        BY <1>2, <2>1, <2>2, <3>1, WholeSector
    <2>4. FirstOf(call) <= a
      <3>1. call.addr \in Nat /\ call.addr <= b
        BY <2>1, CallFacts
      <3>2. call.addr - (call.addr % SectorBytes) <= a
        BY <1>2, <2>1, <2>2, <3>1, WholeSector
      <3> QED
        BY <1>2, <3>2 DEF FirstOf
    <2> QED
      BY <2>1, <2>3, <2>4
  <1>3. CASE call.fn # "erase_range"
    BY <1>1, <1>3, CallFacts DEF Target, More, RangeEnd, Bytes
  <1> QED
    BY <1>2, <1>3

-----------------------------------------------------------------------------
(* The steps.                                                              *)

LEMMA InitInv == Init => ControllerInv
  BY GeometryAssumption
  DEF Init, ControllerInv, Registers, Loop, InLoop, InUnit, Disarmed, AtUnit, PassedDone, UnitDone,
      OkMeansDone, RelockedOnReturn, Returned, ResetCR, Quiet, Units

LEMMA InvokePreserves ==
    ASSUME ControllerInv, NEW c \in Calls, Invoke(c) PROVE ControllerInv'
  <1>1. /\ i' = 0 /\ call' = c /\ unit' = UnitAt(c, 0, "word") /\ result' = NoResult
        /\ pc' = CASE c.fn = "program_bytes" -> "unlock"
                   [] c.fn = "erase_range"   -> "loop"
                   [] c.fn = "program_word"  -> "before"
        /\ UNCHANGED <<CR, SR, mem, op>> /\ pc = "idle"
    BY DEF Invoke, hardware
  <1>2. /\ pc' \in {"unlock", "loop", "before"}
        /\ pc' = "unlock" => c.fn = "program_bytes"
        /\ pc' = "loop" => c.fn # "program_word"
    BY <1>1, CallFacts
  <1>3. Registers' /\ Disarmed' /\ AtUnit'
    BY <1>1, <1>2 DEF ControllerInv, Registers, Disarmed, AtUnit
  <1>4. FirstOf(c) \in Nat /\ FirstOf(c) + 0 = FirstOf(c)
    BY CallFacts
  <1>5. Loop'
    BY <1>1, <1>2, <1>4, UnitFacts, CallFacts DEF Loop, InLoop, InUnit
  <1>6. PassedDone'
    BY <1>1, <1>4, GeometryAssumption DEF PassedDone, InLoop, Bytes, Size
  <1>7. UnitDone' /\ OkMeansDone' /\ RelockedOnReturn'
    BY <1>1, <1>2 DEF UnitDone, OkMeansDone, RelockedOnReturn, Returned
  <1> QED
    BY <1>3, <1>5, <1>6, <1>7 DEF ControllerInv

\* A step by which a call returns.
LEMMA LeavePreserves ==
    ASSUME ControllerInv, pc # "idle", NEW s, Leave(s),
           UNCHANGED <<call, unit, i, mem>>,
           Registers', op' = NoOp, ~CR'.pg, ~CR'.ser,
           s = "OK" => AllDone,
           call.fn = "program_bytes" => CR'.lock
    PROVE  ControllerInv'
  <1>1. pc' = "idle" /\ result' = s
    BY DEF Leave
  <1>2. Loop' /\ Disarmed' /\ AtUnit' /\ PassedDone' /\ UnitDone'
    BY <1>1 DEF ControllerInv, Loop, InLoop, InUnit, Disarmed, AtUnit, PassedDone, UnitDone
  <1>3. AllDone' = AllDone
    BY DEF AllDone, Target, Wanted
  <1>4. OkMeansDone'
    BY <1>1, <1>3 DEF OkMeansDone, Returned, AllDone
  <1>5. RelockedOnReturn'
    BY <1>1 DEF RelockedOnReturn, Returned
  <1> QED
    BY <1>2, <1>4, <1>5 DEF ControllerInv

\* A step by which flash_erase_sector() or flash_program_word() returns.
LEMMA UnitReturnsPreserves ==
    ASSUME ControllerInv, InUnit, NEW s, UnitReturns(s),
           UNCHANGED <<call, unit, i, mem>>,
           Registers', op' = NoOp, ~CR'.pg, ~CR'.ser,
           s = "OK" => ReadsBack
    PROVE  ControllerInv'
  <1>1. pc' = "returned" /\ status' = s
    BY DEF UnitReturns
  <1>2. Loop' /\ Disarmed' /\ AtUnit'
    BY <1>1 DEF ControllerInv, Loop, InLoop, InUnit, Disarmed, AtUnit, FirstOf
  <1>3. PassedDone'
    BY <1>1 DEF ControllerInv, InLoop, InUnit, PassedDone, Wanted, FirstOf
  <1>4. UnitDone'
    BY <1>1 DEF UnitDone, ReadsBack, Wanted, FirstOf
  <1>5. OkMeansDone' /\ RelockedOnReturn'
    BY <1>1 DEF OkMeansDone, RelockedOnReturn, Returned
  <1> QED
    BY <1>2, <1>3, <1>4, <1>5 DEF ControllerInv

\* A unit that reads back is passed with all that is before it.
LEMMA PassedMore ==
    ASSUME ControllerInv, InLoop, ReadsBack,
           NEW a \in Bytes, FirstOf(call) <= a, a < FirstOf(call) + (i + Length(unit))
    PROVE  mem[a] = Wanted(call)
  <1>1. call \in Calls /\ FirstOf(call) \in Nat /\ i \in Nat /\ Length(unit) \in Nat /\ a \in Int
    BY CallFacts, LengthFacts, GeometryAssumption
    DEF ControllerInv, Loop, InLoop, InUnit, Bytes, Size
  <1>2. CASE a < FirstOf(call) + i
    BY <1>2 DEF ControllerInv, PassedDone
  <1>3. CASE ~(a < FirstOf(call) + i)
    <2>1. a \in FirstOf(call) + i .. FirstOf(call) + i + Length(unit) - 1
      BY <1>1, <1>3
    <2> QED
      BY <2>1 DEF ReadsBack
  <1> QED
    BY <1>2, <1>3

\* A step by which a loop goes on behind a unit that is done.
LEMMA AdvancePreserves ==
    ASSUME ControllerInv, InUnit, call.fn # "program_word", ReadsBack, Advance,
           UNCHANGED mem, Registers', op' = NoOp, ~CR'.pg, ~CR'.ser
    PROVE  ControllerInv'
  <1> DEFINE next == i + Length(unit)
  <1>1. pc' = "loop" /\ i' = next /\ UNCHANGED <<call, unit, status, result>>
    BY DEF Advance
  <1>2. call \in Calls /\ FirstOf(call) \in Nat /\ i \in Nat /\ next \in Nat
    BY CallFacts, LengthFacts DEF ControllerInv, Loop, InUnit
  <1>3. FirstOf(call)' = FirstOf(call) /\ Wanted(call)' = Wanted(call)
    BY <1>1 DEF FirstOf, Wanted
  <1>4. call.fn = "erase_range" => unit = "sector" /\ StartsSector(FirstOf(call) + next)
    <2>1. call.fn = "erase_range" => unit = "sector" /\ StartsSector(FirstOf(call) + i)
      BY DEF ControllerInv, Loop, InLoop
    <2>2. call.fn = "erase_range" => FirstOf(call) + next = (FirstOf(call) + i) + SectorBytes
      BY <1>2, <2>1, LengthFacts, GeometryAssumption DEF Units
    <2> QED
      BY <2>1, <2>2, NextSector
  <1>5. \A a \in Bytes : FirstOf(call) <= a /\ a < FirstOf(call) + next => mem[a] = Wanted(call)
    BY PassedMore DEF InLoop
  <1> HIDE DEF next
  <1>6. Loop'
    BY <1>1, <1>2, <1>3, <1>4 DEF ControllerInv, Loop, InLoop, InUnit
  <1>7. Disarmed' /\ AtUnit' /\ PassedDone' /\ UnitDone'
    BY <1>1, <1>3, <1>5 DEF Disarmed, AtUnit, PassedDone, UnitDone
  <1>8. OkMeansDone' /\ RelockedOnReturn'
    BY <1>1 DEF OkMeansDone, RelockedOnReturn, Returned
  <1> QED
    BY <1>6, <1>7, <1>8 DEF ControllerInv

LEMMA RefuseUnalignedPreserves ==
    ASSUME ControllerInv, RefuseUnaligned PROVE ControllerInv'
  <1>1. /\ pc = "before" /\ UnitReturns("ERR_RANGE")
        /\ UNCHANGED <<CR, SR, mem, op, call, unit, i>>
    BY DEF RefuseUnaligned, hardware, place
  <1>2. Registers' /\ op' = NoOp /\ ~CR'.pg /\ ~CR'.ser
    BY <1>1 DEF ControllerInv, Registers, Disarmed
  <1> QED
    BY <1>1, <1>2, UnitReturnsPreserves DEF InUnit

LEMMA WaitBeforePreserves ==
    ASSUME ControllerInv, WaitBefore PROVE ControllerInv'
  <1>1. pc = "before" /\ UNCHANGED <<mem, op, call, unit, i>> /\ op = NoOp /\ ~CR.pg /\ ~CR.ser
    BY DEF WaitBefore, place, ControllerInv, Disarmed
  <1>2. CASE ReadyWithoutErr /\ pc' = "begin" /\ UNCHANGED <<CR, status, result>>
    BY <1>1, <1>2
    DEF ControllerInv, Registers, Loop, InLoop, InUnit, Disarmed, AtUnit, PassedDone, UnitDone,
        OkMeansDone, RelockedOnReturn, Returned, ReadyWithoutErr, Wanted
  <1>3. CASE unit # "byte" /\ ErrorFlagged /\ UnitReturns("ERR_PROG") /\ UNCHANGED CR
    <2>1. Registers' /\ op' = NoOp /\ ~CR'.pg /\ ~CR'.ser
      BY <1>1, <1>3 DEF ControllerInv, Registers, ErrorFlagged, Quiet
    <2> QED
      BY <1>1, <1>3, <2>1, UnitReturnsPreserves DEF InUnit
  <1>4. CASE unit = "byte" /\ ErrorFlagged /\ Leave("ERR_PROG") /\ CR' = Locked(CR)
    <2>1. Registers' /\ op' = NoOp /\ ~CR'.pg /\ ~CR'.ser /\ CR'.lock
      BY <1>1, <1>4 DEF ControllerInv, Registers, ErrorFlagged, Quiet, Locked
    <2> QED
      BY <1>1, <1>4, <2>1, LeavePreserves
  <1> QED
    BY <1>2, <1>3, <1>4 DEF WaitBefore

LEMMA UnlockRefusedPreserves ==
    ASSUME ControllerInv, UnlockRefused PROVE ControllerInv'
  <1>1. /\ pc = "begin" /\ UnitReturns("ERR_LOCKED")
        /\ UNCHANGED <<CR, SR, mem, op, call, unit, i>>
    BY DEF UnlockRefused, hardware, place
  <1>2. Registers' /\ op' = NoOp /\ ~CR'.pg /\ ~CR'.ser
    BY <1>1 DEF ControllerInv, Registers, Disarmed
  <1> QED
    BY <1>1, <1>2, UnitReturnsPreserves DEF InUnit

LEMMA BeginPreserves ==
    ASSUME ControllerInv, Begin PROVE ControllerInv'
  <1> DEFINE o == [unit |-> unit, at |-> FirstOf(call) + i, value |-> call.value]
  <1>1. /\ pc = "begin" /\ pc' = "during" /\ CR' = Configured /\ Starts(o)
        /\ UNCHANGED <<mem, call, unit, i, status, result>>
    BY DEF Begin, place
  <1>2. \/ SR' = [SR EXCEPT !.err = TRUE] /\ op' = NoOp
        \/ SR' = [SR EXCEPT !.bsy = TRUE] /\ op' = o
    BY <1>1 DEF Starts
  <1>3. Registers'
    BY <1>1, <1>2 DEF ControllerInv, Registers, Loop, Units, Configured
  <1>4. AtUnit'
    BY <1>1, <1>2 DEF AtUnit, FirstOf
  <1>5. Loop' /\ Disarmed' /\ PassedDone'
    BY <1>1 DEF ControllerInv, Loop, InLoop, InUnit, Disarmed, PassedDone, Wanted, FirstOf
  <1>6. UnitDone' /\ OkMeansDone' /\ RelockedOnReturn'
    BY <1>1 DEF UnitDone, OkMeansDone, RelockedOnReturn, Returned
  <1> QED
    BY <1>3, <1>4, <1>5, <1>6 DEF ControllerInv

LEMMA WaitDuringPreserves ==
    ASSUME ControllerInv, WaitDuring PROVE ControllerInv'
  <1>1. /\ pc = "during" /\ pc' = "finish"
        /\ UNCHANGED <<CR, mem, op, call, unit, i, result>>
    BY DEF WaitDuring, place
  <1>2. UNCHANGED SR \/ (~SR.bsy /\ SR' = Quiet)
    BY DEF WaitDuring, ReadyWithoutErr, ErrorFlagged, BusyTooLong
  <1>3. Registers'
    <2>1. SR' \in [bsy : BOOLEAN, err : BOOLEAN]
      <3>1. SR \in [bsy : BOOLEAN, err : BOOLEAN] /\ Quiet \in [bsy : BOOLEAN, err : BOOLEAN]
        BY DEF ControllerInv, Registers, Quiet
      <3>2. SR' = SR \/ SR' = Quiet
        BY <1>2
      <3> QED
        BY <3>1, <3>2
    <2>2. op' # NoOp => SR'.bsy
      BY <1>1, <1>2 DEF ControllerInv, Registers
    <2> QED
      BY <1>1, <2>1, <2>2 DEF ControllerInv, Registers
  <1>4. Loop' /\ Disarmed' /\ AtUnit' /\ PassedDone'
    BY <1>1 DEF ControllerInv, Loop, InLoop, InUnit, Disarmed, AtUnit, PassedDone, Wanted, FirstOf
  <1>5. UnitDone' /\ OkMeansDone' /\ RelockedOnReturn'
    BY <1>1 DEF UnitDone, OkMeansDone, RelockedOnReturn, Returned
  <1> QED
    BY <1>3, <1>4, <1>5 DEF ControllerInv

\* PG or SER is cleared when nothing runs any more.
LEMMA FinishingFacts ==
    ASSUME ControllerInv, Finishing, NEW cr \in {Clean, Locked(Clean)}, CR' = cr
    PROVE  /\ pc = "finish" /\ InUnit /\ UNCHANGED <<SR, mem, op>>
           /\ Registers' /\ op' = NoOp /\ ~CR'.pg /\ ~CR'.ser
  <1>1. pc = "finish" /\ ~SR.bsy /\ UNCHANGED <<SR, mem, op>>
    BY DEF Finishing
  <1>2. Clean \in [lock : BOOLEAN, pg : {FALSE}, ser : {FALSE}, psize : {"word", "byte"}]
    BY DEF ControllerInv, Registers, Clean
  <1>3. CR' \in [lock : BOOLEAN, pg : {FALSE}, ser : {FALSE}, psize : {"word", "byte"}]
    BY <1>2 DEF Locked
  <1> QED
    BY <1>1, <1>3 DEF ControllerInv, Registers, InUnit

LEMMA FinishUnitPreserves ==
    ASSUME ControllerInv, FinishUnit PROVE ControllerInv'
  <1> DEFINE s == IF status = "OK" /\ ~ReadsBack THEN "ERR_VERIFY" ELSE status
  <1>1. Finishing /\ CR' = Clean /\ UnitReturns(s) /\ UNCHANGED <<call, unit, i>>
    BY DEF FinishUnit, place
  <1>2. /\ InUnit /\ UNCHANGED mem
        /\ Registers' /\ op' = NoOp /\ ~CR'.pg /\ ~CR'.ser
    BY <1>1, FinishingFacts
  <1>3. s = "OK" => ReadsBack
    OBVIOUS
  <1> HIDE DEF s
  <1> QED
    BY <1>1, <1>2, <1>3, UnitReturnsPreserves

LEMMA BytesOut ==
    ASSUME ControllerInv, ByteFails \/ ByteDiffers PROVE ControllerInv'
  <1>1. Finishing /\ CR' = Locked(Clean) /\ UNCHANGED <<call, unit, i>>
    BY DEF ByteFails, ByteDiffers, place
  <1>2. /\ pc = "finish" /\ UNCHANGED mem
        /\ Registers' /\ op' = NoOp /\ ~CR'.pg /\ ~CR'.ser
    BY <1>1, FinishingFacts
  <1>3. CR'.lock
    <2>1. CR \in [lock : BOOLEAN, pg : BOOLEAN, ser : BOOLEAN, psize : {"word", "byte"}]
      BY DEF ControllerInv, Registers
    <2> QED
      BY <1>1, <2>1 DEF Locked, Clean
  <1>4. \E s : s # "OK" /\ Leave(s)
    BY DEF ByteFails, ByteDiffers
  <1> QED
    BY <1>1, <1>2, <1>3, <1>4, LeavePreserves

LEMMA ByteStoredPreserves ==
    ASSUME ControllerInv, ByteStored PROVE ControllerInv'
  <1>1. Finishing /\ CR' = Clean /\ unit = "byte" /\ ReadsBack /\ Advance
    BY DEF ByteStored
  <1>2. /\ InUnit /\ UNCHANGED mem
        /\ Registers' /\ op' = NoOp /\ ~CR'.pg /\ ~CR'.ser
    BY <1>1, FinishingFacts
  <1>3. call.fn # "program_word"
    BY <1>1, <1>2 DEF ControllerInv, Loop, InLoop
  <1> QED
    BY <1>1, <1>2, <1>3, AdvancePreserves

LEMMA BytesUnlockPreserves ==
    ASSUME ControllerInv, BytesUnlock PROVE ControllerInv'
  <1>1. /\ pc = "unlock" /\ UNCHANGED <<SR, mem, op, call, unit, i>>
        /\ op = NoOp /\ ~CR.pg /\ ~CR.ser
    BY DEF BytesUnlock, place, ControllerInv, Disarmed
  <1>2. call \in Calls /\ call.fn = "program_bytes" /\ i = 0 /\ unit \in Units /\ FirstOf(call) \in Nat
    BY <1>1, CallFacts DEF ControllerInv, Loop
  <1>3. CASE pc' = "loop" /\ CR' = Unlocked(CR) /\ UNCHANGED <<status, result>>
    <2>1. Registers' /\ Disarmed' /\ AtUnit'
      BY <1>1, <1>3 DEF ControllerInv, Registers, Disarmed, AtUnit, Unlocked
    <2>2. Loop'
      BY <1>1, <1>2, <1>3 DEF ControllerInv, Loop, InLoop, InUnit
    <2>3. PassedDone'
      BY <1>1, <1>2, GeometryAssumption DEF PassedDone, FirstOf, Bytes, Size
    <2>4. UnitDone' /\ OkMeansDone' /\ RelockedOnReturn'
      BY <1>3 DEF UnitDone, OkMeansDone, RelockedOnReturn, Returned
    <2> QED
      BY <2>1, <2>2, <2>3, <2>4 DEF ControllerInv
  <1>4. CASE KeysRefused /\ Leave("ERR_LOCKED") /\ UNCHANGED CR
    <2>1. Registers' /\ op' = NoOp /\ ~CR'.pg /\ ~CR'.ser /\ CR'.lock
      BY <1>1, <1>4 DEF ControllerInv, Registers, KeysRefused
    <2> QED
      BY <1>1, <1>4, <2>1, LeavePreserves
  <1> QED
    BY <1>3, <1>4 DEF BytesUnlock

LEMMA NextUnitPreserves ==
    ASSUME ControllerInv, NextUnit PROVE ControllerInv'
  <1>1. /\ pc = "loop" /\ pc' = "before" /\ unit' = UnitAt(call, i, unit)
        /\ UNCHANGED <<CR, SR, mem, op, call, i, status, result>>
    BY DEF NextUnit, hardware
  <1>2. op = NoOp /\ call \in Calls /\ call.fn # "program_word"
    BY <1>1 DEF ControllerInv, Disarmed, Loop
  <1>3. Registers' /\ Disarmed' /\ AtUnit'
    BY <1>1, <1>2 DEF ControllerInv, Registers, Disarmed, AtUnit
  <1>4. Loop' /\ PassedDone'
    BY <1>1, <1>2, UnitFacts DEF ControllerInv, Loop, InLoop, InUnit, PassedDone, FirstOf, Wanted
  <1>5. UnitDone' /\ OkMeansDone' /\ RelockedOnReturn'
    BY <1>1 DEF UnitDone, OkMeansDone, RelockedOnReturn, Returned
  <1> QED
    BY <1>3, <1>4, <1>5 DEF ControllerInv

LEMMA LoopEndPreserves ==
    ASSUME ControllerInv, EraseDone \/ BytesDone PROVE ControllerInv'
  <1>1. /\ pc = "loop" /\ ~More(i) /\ Leave("OK") /\ UNCHANGED <<SR, mem, op, call, unit, i>>
        /\ CR' \in {CR, Locked(CR)} /\ (call.fn = "program_bytes" => CR' = Locked(CR))
    BY DEF EraseDone, BytesDone, hardware, place
  <1>2. /\ call \in Calls /\ i \in Nat /\ InLoop
        /\ call.fn = "erase_range" => StartsSector(FirstOf(call) + i)
    BY <1>1 DEF ControllerInv, Loop, InLoop
  <1>3. AllDone
    <2> SUFFICES ASSUME NEW a \in Target(call) PROVE mem[a] = Wanted(call)
      BY DEF AllDone
    <2>1. a \in Bytes /\ FirstOf(call) <= a /\ a < FirstOf(call) + i
      BY <1>1, <1>2, LoopCovers
    <2> QED
      BY <1>2, <2>1 DEF ControllerInv, PassedDone
  <1>4. op' = NoOp /\ Registers' /\ ~CR'.pg /\ ~CR'.ser /\ (call.fn = "program_bytes" => CR'.lock)
    BY <1>1 DEF ControllerInv, Registers, Disarmed, Locked
  <1> QED
    BY <1>1, <1>3, <1>4, LeavePreserves

LEMMA WordReturnedPreserves ==
    ASSUME ControllerInv, WordReturned PROVE ControllerInv'
  <1>1. /\ pc = "returned" /\ call.fn = "program_word" /\ Leave(status)
        /\ UNCHANGED <<CR, SR, mem, op, call, unit, i>>
    BY DEF WordReturned, hardware, place
  <1>2. call \in Calls /\ unit = "word" /\ i = 0
    BY <1>1 DEF ControllerInv, Loop, InLoop, InUnit
  <1>3. status = "OK" => AllDone
    <2> SUFFICES ASSUME status = "OK", NEW a \in Target(call) PROVE mem[a] = Wanted(call)
      BY DEF AllDone
    <2>1. a \in FirstOf(call) + i .. FirstOf(call) + i + Length(unit) - 1
      BY <1>1, <1>2, CallFacts, GeometryAssumption DEF Target, FirstOf, Length
    <2> QED
      BY <1>1, <2>1 DEF ControllerInv, UnitDone, ReadsBack
  <1>4. op' = NoOp /\ Registers' /\ ~CR'.pg /\ ~CR'.ser
    BY <1>1 DEF ControllerInv, Registers, Disarmed
  <1> QED
    BY <1>1, <1>3, <1>4, LeavePreserves

LEMMA LoopReturnPreserves ==
    ASSUME ControllerInv, SectorReturned \/ BytesWordReturned PROVE ControllerInv'
  <1>1. /\ pc = "returned" /\ call.fn \in {"erase_range", "program_bytes"}
        /\ UNCHANGED <<SR, mem, op>>
        /\ \/ /\ status # "OK" /\ Leave(status) /\ UNCHANGED <<call, unit, i>>
              /\ CR' = IF call.fn = "program_bytes" THEN Locked(CR) ELSE CR
           \/ status = "OK" /\ Advance /\ UNCHANGED CR
    BY DEF SectorReturned, BytesWordReturned, hardware, place
  <1>2. CASE status # "OK" /\ Leave(status) /\ UNCHANGED <<call, unit, i>>
             /\ CR' = IF call.fn = "program_bytes" THEN Locked(CR) ELSE CR
    <2>1. op' = NoOp /\ Registers' /\ ~CR'.pg /\ ~CR'.ser /\ (call.fn = "program_bytes" => CR'.lock)
      BY <1>1, <1>2 DEF ControllerInv, Registers, Disarmed, Locked
    <2> QED
      BY <1>1, <1>2, <2>1, LeavePreserves
  <1>3. CASE status = "OK" /\ Advance /\ UNCHANGED CR
    <2>1. op' = NoOp /\ Registers' /\ ~CR'.pg /\ ~CR'.ser /\ ReadsBack
      BY <1>1, <1>3 DEF ControllerInv, Registers, Disarmed, UnitDone
    <2> QED
      BY <1>1, <1>3, <2>1, AdvancePreserves DEF InUnit
  <1> QED
    BY <1>1, <1>2, <1>3

LEMMA CompletesPreserves ==
    ASSUME ControllerInv, Completes PROVE ControllerInv'
  <1>1. /\ op # NoOp /\ op' = NoOp /\ UNCHANGED <<CR, call, pc, unit, i, status, result>>
        /\ \/ /\ mem' = [a \in Bytes |-> IF a \in Cells(op) THEN After(op, a) ELSE mem[a]]
              /\ SR' = [SR EXCEPT !.bsy = FALSE]
           \/ /\ SR' = [bsy |-> FALSE, err |-> TRUE] \/ SR' = [SR EXCEPT !.bsy = FALSE]
              /\ \E a \in Cells(op) : mem' = [mem EXCEPT ![a] = Spoilt]
    BY DEF Completes, driver, place
  <1>2. pc \in {"during", "finish"} /\ InLoop
    BY <1>1 DEF ControllerInv, Disarmed, Loop, InLoop, InUnit
  <1>3. \A a \in Bytes \ Cells(op) : mem'[a] = mem[a]
    BY <1>1 DEF ControllerInv, Registers
  <1>4. mem' = [a \in Bytes |-> mem'[a]]
    BY <1>1 DEF ControllerInv, Registers
  <1>5. Registers'
    <2>1. SR' \in [bsy : BOOLEAN, err : BOOLEAN]
      <3> DEFINE bits == [bsy : BOOLEAN, err : BOOLEAN]
      <3>1. [SR EXCEPT !.bsy = FALSE] \in bits /\ [bsy |-> FALSE, err |-> TRUE] \in bits
        BY DEF ControllerInv, Registers
      <3>2. SR' \in {[SR EXCEPT !.bsy = FALSE], [bsy |-> FALSE, err |-> TRUE]}
        BY <1>1
      <3> QED
        BY <3>1, <3>2
    <2> QED
      BY <1>1, <1>4, <2>1 DEF ControllerInv, Registers
  <1>6. PassedDone'
    <2> SUFFICES ASSUME NEW a \in Bytes, FirstOf(call) <= a, a < FirstOf(call) + i
                 PROVE  mem'[a] = Wanted(call)
      BY <1>1 DEF PassedDone, FirstOf, Wanted
    <2>1. a \in Int /\ i \in Nat /\ FirstOf(call) \in Nat /\ Length(unit) \in Nat
      BY <1>2, CallFacts, LengthFacts, GeometryAssumption DEF ControllerInv, Loop, InLoop, InUnit, Bytes, Size
    <2>2. Cells(op) = FirstOf(call) + i .. FirstOf(call) + i + Length(unit) - 1
      BY <1>1, <1>2 DEF ControllerInv, AtUnit, Cells
    <2>3. a \notin Cells(op)
      BY <2>1, <2>2
    <2> QED
      BY <1>2, <1>3, <2>3 DEF ControllerInv, PassedDone
  <1>7. Loop' /\ Disarmed' /\ AtUnit'
    BY <1>1 DEF ControllerInv, Loop, InLoop, InUnit, Disarmed, AtUnit, FirstOf
  <1>8. UnitDone' /\ OkMeansDone' /\ RelockedOnReturn'
    BY <1>1, <1>2 DEF UnitDone, OkMeansDone, RelockedOnReturn, Returned
  <1> QED
    BY <1>5, <1>6, <1>7, <1>8 DEF ControllerInv

LEMMA ResetPreserves ==
    ASSUME ControllerInv, Reset PROVE ControllerInv'
  <1>1. /\ CR' = ResetCR /\ SR' = Quiet /\ op' = NoOp
        /\ pc' = "idle" /\ result' = NoResult
        /\ mem' = mem \/ \E a \in Cells(op) : mem' = [mem EXCEPT ![a] = Spoilt]
        /\ UNCHANGED <<unit, i>>
    BY DEF Reset
  <1>2. mem' = [a \in Bytes |-> mem'[a]]
    BY <1>1 DEF ControllerInv, Registers
  <1>3. Registers' /\ Disarmed'
    BY <1>1, <1>2 DEF Registers, Disarmed, ResetCR, Quiet
  <1>4. Loop' /\ AtUnit' /\ PassedDone'
    BY <1>1 DEF ControllerInv, Loop, InLoop, InUnit, AtUnit, PassedDone
  <1>5. UnitDone' /\ OkMeansDone' /\ RelockedOnReturn'
    BY <1>1 DEF UnitDone, OkMeansDone, RelockedOnReturn, Returned
  <1> QED
    BY <1>3, <1>4, <1>5 DEF ControllerInv

LEMMA StepPreserves == ControllerInv /\ [Next]_vars => ControllerInv'
  <1> SUFFICES ASSUME ControllerInv, [Next]_vars PROVE ControllerInv'
    OBVIOUS
  <1>1. ASSUME NEW c \in Calls, Invoke(c) PROVE ControllerInv'
    BY <1>1, InvokePreserves
  <1>2. CASE Driver
    BY <1>2, RefuseUnalignedPreserves, WaitBeforePreserves, UnlockRefusedPreserves, BeginPreserves,
       WaitDuringPreserves, FinishUnitPreserves, BytesOut, ByteStoredPreserves,
       BytesUnlockPreserves, NextUnitPreserves, LoopEndPreserves, WordReturnedPreserves,
       LoopReturnPreserves DEF Driver, Unit, Loops
  <1>3. CASE Completes
    BY <1>3, CompletesPreserves
  <1>4. CASE Reset
    BY <1>4, ResetPreserves
  <1>5. CASE UNCHANGED vars
    <2>1. UNCHANGED <<CR, SR, mem, op, call, pc, unit, i, status, result>>
      BY <1>5 DEF vars, hardware, driver, place
    <2>2. Registers' /\ Disarmed' /\ RelockedOnReturn'
      BY <2>1 DEF ControllerInv, Registers, Disarmed, RelockedOnReturn, Returned
    <2>3. Loop' /\ AtUnit' /\ PassedDone'
      BY <2>1 DEF ControllerInv, Loop, InLoop, InUnit, AtUnit, PassedDone, FirstOf, Wanted
    <2>4. UnitDone' /\ OkMeansDone'
      BY <2>1 DEF ControllerInv, UnitDone, ReadsBack, FirstOf, OkMeansDone, Returned, Target, Wanted
    <2> QED
      BY <2>2, <2>3, <2>4 DEF ControllerInv
  <1> QED
    BY <1>1, <1>2, <1>3, <1>4, <1>5 DEF Next

LEMMA Invariance == Spec => []ControllerInv
  BY InitInv, StepPreserves, PTL DEF Spec

-----------------------------------------------------------------------------
(* What a caller of the driver may rely on.                                *)

\* OkMeansDone: when flash_erase_range(), flash_program_word() or
\* flash_program_bytes() returns FLASH_OK, every byte of the range holds what
\* was asked for, whatever the controller did or reported on the way.
THEOREM OkIsDone == Spec => []OkMeansDone
  <1>1. ControllerInv => OkMeansDone
    BY DEF ControllerInv
  <1> QED
    BY <1>1, Invariance, PTL

\* CleanBetweenCalls: every way out of the driver clears PG and SER and leaves
\* no operation running, those after an error or a timeout included.
THEOREM LeavesNothingArmed == Spec => []CleanBetweenCalls
  <1>1. ControllerInv => CleanBetweenCalls
    BY DEF ControllerInv, Disarmed, CleanBetweenCalls
  <1> QED
    BY <1>1, Invariance, PTL

\* RelockedOnReturn: each of the six ways out of flash_program_bytes() leaves the
\* flash locked, the refused unlock included.
THEOREM LocksAgain == Spec => []RelockedOnReturn
  <1>1. ControllerInv => RelockedOnReturn
    BY DEF ControllerInv
  <1> QED
    BY <1>1, Invariance, PTL

-----------------------------------------------------------------------------
(* Types.                                                                  *)

\* A unit begins in the range of the call, and a word of the word phase ends in it.
Within ==
    InUnit => /\ FirstOf(call) + i < call.addr + call.size
              /\ unit = "word" /\ call.fn = "program_bytes" => i + WordBytes <= call.size

LEMMA SizeFacts == Size \in Nat /\ SectorBytes \in Nat \ {0} /\ WordBytes \in Nat \ {0}
  BY GeometryAssumption DEF Size

LEMMA Multiples ==
    ASSUME NEW d \in Nat \ {0}, NEW j \in Nat, NEW k \in Nat
    PROVE  /\ d * j < d * k => d * j + d <= d * k
           /\ d * j + d = d * (j + 1) /\ d * j + d * k = d * (j + k)
  <1>1. d * j \in Nat /\ d * k \in Nat
    OBVIOUS
  <1>2. d * (j + 1) = d * j + d
    OBVIOUS
  <1>3. d * (j + k) = d * j + d * k
    OBVIOUS
  <1>4. ASSUME d * j < d * k PROVE d * j + d <= d * k
    <2>1. j < k
      <3> SUFFICES ASSUME k <= j PROVE FALSE
        OBVIOUS
      <3>1. d * k <= d * j
        BY SMT
      <3> QED
        BY <1>1, <1>4, <3>1
    <2>2. d * (j + 1) <= d * k
      BY <2>1, SMT
    <2> QED
      BY <1>2, <2>2
  <1> QED
    BY <1>2, <1>3, <1>4

\* So that no store leaves the flash, nor the loop the call.
LEMMA UnitInside ==
    ASSUME ControllerInv, Within, InUnit
    PROVE  /\ call \in Calls /\ i \in Nat /\ FirstOf(call) \in Nat
           /\ Length(unit) \in Nat \ {0} /\ FirstOf(call) + i + Length(unit) <= Size
  <1>1. /\ call \in Calls /\ i \in Nat /\ FirstOf(call) \in Nat /\ unit \in Units
        /\ FirstOf(call) + i < call.addr + call.size /\ Length(unit) \in Nat \ {0}
    BY CallFacts, LengthFacts DEF InUnit, ControllerInv, Loop, Within
  <1>2. CASE call.fn = "erase_range"
    <2>1. unit = "sector" /\ StartsSector(FirstOf(call) + i) /\ Length(unit) = SectorBytes
      BY <1>2, LengthFacts DEF InLoop, ControllerInv, Loop, Units
    <2>2. PICK k \in Nat : FirstOf(call) + i = SectorBytes * k
      BY <2>1 DEF StartsSector
    <2>3. SectorBytes * k < SectorBytes * Sectors
      BY <1>1, <2>2, CallFacts, SizeFacts DEF Size
    <2>4. FirstOf(call) + i + SectorBytes <= Size
      BY <2>2, <2>3, Multiples, GeometryAssumption DEF Size
    <2> QED
      BY <1>1, <2>1, <2>4
  <1>3. CASE call.fn = "program_word"
    BY <1>1, <1>3, CallFacts, SizeFacts DEF ControllerInv, Loop, InLoop, Length
  <1>4. CASE call.fn = "program_bytes" /\ unit = "word"
    BY <1>1, <1>4, CallFacts, SizeFacts DEF Within, Length
  <1>5. CASE call.fn = "program_bytes" /\ unit = "byte"
    BY <1>1, <1>5, CallFacts, SizeFacts DEF Length
  <1>6. unit # "sector" \/ call.fn = "erase_range"
    BY <1>1, CallFacts DEF ControllerInv, Loop, InLoop, InUnit
  <1> QED
    BY <1>1, <1>2, <1>3, <1>4, <1>5, <1>6, CallFacts DEF Units

LEMMA WithinStep ==
    ASSUME ControllerInv, Within, [Next]_vars PROVE Within'
  <1>1. ASSUME NEW c \in Calls, Invoke(c) PROVE Within'
    <2>1. call' = c /\ i' = 0 /\ (pc' = "before" \/ ~InUnit') /\ unit' = UnitAt(c, 0, "word")
          /\ (pc' = "before" => c.fn = "program_word")
      BY <1>1, CallFacts DEF Invoke, InUnit
    <2> QED
      BY <2>1, CallFacts DEF Within, InUnit
  <1>2. CASE NextUnit
    <2>1. /\ pc = "loop" /\ More(i) /\ unit' = UnitAt(call, i, unit) /\ UNCHANGED <<call, i>>
          /\ call \in Calls /\ i \in Nat
      BY <1>2 DEF NextUnit, ControllerInv, Loop
    <2>2. FirstOf(call) + i < call.addr + call.size
      BY <2>1, CallFacts DEF More, RangeEnd
    <2>3. unit' = "word" /\ call.fn = "program_bytes" => i + WordBytes <= call.size
      BY <2>1 DEF UnitAt
    <2> QED
      BY <2>1, <2>2, <2>3 DEF Within, FirstOf
  <1>3. CASE pc' \notin {"before", "begin", "during", "finish", "returned"}
    BY <1>3 DEF Within, InUnit
  <1>4. CASE UNCHANGED <<call, unit, i>> /\ (InUnit' => InUnit)
    BY <1>4 DEF Within, FirstOf
  <1>5. CASE Driver /\ ~NextUnit
    <2>1. CASE RefuseUnaligned \/ UnlockRefused \/ FinishUnit
      BY <1>4, <2>1 DEF RefuseUnaligned, UnlockRefused, FinishUnit, Finishing, UnitReturns, InUnit, place
    <2>2. CASE WaitBefore \/ Begin \/ WaitDuring
      BY <1>4, <2>2 DEF WaitBefore, Begin, WaitDuring, InUnit, place
    <2>3. CASE ByteFails \/ ByteDiffers \/ ByteStored
      BY <1>3, <2>3 DEF ByteFails, ByteDiffers, ByteStored, Leave, Advance
    <2>4. CASE BytesUnlock \/ EraseDone \/ BytesDone
      BY <1>3, <2>4 DEF BytesUnlock, EraseDone, BytesDone, Leave
    <2>5. CASE WordReturned \/ SectorReturned \/ BytesWordReturned
      BY <1>3, <2>5 DEF WordReturned, SectorReturned, BytesWordReturned, Leave, Advance
    <2> QED
      BY <1>5, <2>1, <2>2, <2>3, <2>4, <2>5 DEF Driver, Unit, Loops
  <1>6. CASE Reset
    BY <1>3, <1>6 DEF Reset
  <1>7. CASE Completes \/ UNCHANGED vars
    BY <1>4, <1>7 DEF Completes, vars, driver, place, InUnit
  <1> QED
    BY <1>1, <1>2, <1>5, <1>6, <1>7 DEF Next

LEMMA FaultType ==
    ASSUME faults \in 0 .. MaxFaults, NEW kind, Fault(kind) PROVE faults' \in 0 .. MaxFaults
  BY FlashFaultsAssumption DEF Fault

\* The steps of the driver that no register and no operation concerns: where
\* the driver goes, and what it returns.
LEMMA DriverType ==
    ASSUME TypeOK, NEW s \in Status, Leave(s) \/ UnitReturns(s)
    PROVE  /\ status' \in Status /\ result' \in Status \cup {NoResult}
           /\ pc' \in {"idle", "returned"}
  BY DEF Leave, UnitReturns, TypeOK

\* What an operation leaves in the flash.
LEMMA MemType ==
    ASSUME TypeOK, op # NoOp
    PROVE  /\ [a \in Bytes |-> IF a \in Cells(op) THEN After(op, a) ELSE mem[a]]
                \in [Bytes -> Values \cup {Erased, Spoilt}]
           /\ \A a : [mem EXCEPT ![a] = Spoilt] \in [Bytes -> Values \cup {Erased, Spoilt}]
  <1>1. op.value \in Values /\ mem \in [Bytes -> Values \cup {Erased, Spoilt}]
    BY DEF TypeOK, Op
  <1>2. \A a : After(op, a) \in Values \cup {Erased, Spoilt}
    BY <1>1 DEF After
  <1> QED
    BY <1>1, <1>2

LEMMA TypeInit == Init => ControllerInv /\ TypeOK /\ Within
  <1> SUFFICES ASSUME Init PROVE TypeOK /\ Within
    BY InitInv
  <1>1. faults \in 0 .. MaxFaults /\ i \in 0 .. Size
    BY SizeFacts, FlashFaultsAssumption DEF Init
  <1>2. gaveup \in BOOLEAN
    BY DEF Init
  <1> QED
    BY <1>1, <1>2 DEF Init, TypeOK, Within, InUnit, ResetCR, Quiet, Units, Status

LEMMA TypeStep ==
    ASSUME ControllerInv, TypeOK, Within, [Next]_vars PROVE TypeOK'
  <1>0. /\ CR' \in [lock : BOOLEAN, pg : BOOLEAN, ser : BOOLEAN, psize : {"word", "byte"}]
        /\ SR' \in [bsy : BOOLEAN, err : BOOLEAN]
    BY StepPreserves DEF ControllerInv, Registers
  <1>1. ASSUME NEW c \in Calls, Invoke(c) PROVE TypeOK'
    <2>1. UnitAt(c, 0, "word") \in Units
      BY UnitFacts
    <2>2. c \in Call
      BY CallsAssumption
    <2>3. pc' \in {"unlock", "loop", "before"}
      BY <1>1, CallFacts DEF Invoke
    <2>4. /\ call' = c /\ i' = 0 /\ unit' = UnitAt(c, 0, "word") /\ status' = "OK"
          /\ result' = NoResult /\ UNCHANGED <<mem, op, faults, gaveup>>
      BY <1>1 DEF Invoke, hardware
    <2>5. i' \in 0 .. Size /\ status' \in Status
      BY <2>4, SizeFacts DEF Status
    <2> QED
      BY <1>0, <2>1, <2>2, <2>3, <2>4, <2>5 DEF TypeOK
  <1>2. CASE RefuseUnaligned \/ UnlockRefused
    <2>1. faults' \in 0 .. MaxFaults
      BY <1>2, FaultType DEF RefuseUnaligned, UnlockRefused, KeysRefused, TypeOK
    <2>2. \E s \in Status : UnitReturns(s)
      BY <1>2 DEF RefuseUnaligned, UnlockRefused, Status
    <2> QED
      BY <1>0, <1>2, <2>1, <2>2, DriverType DEF RefuseUnaligned, UnlockRefused, hardware, place, TypeOK
  <1>3. CASE WaitBefore
    <2>1. UNCHANGED faults /\ gaveup' = FALSE
      BY <1>3 DEF WaitBefore, ReadyWithoutErr, ErrorFlagged
    <2>2. status' \in Status /\ result' \in Status \cup {NoResult} /\ pc' \in {"begin", "returned", "idle"}
      BY <1>3, DriverType DEF WaitBefore, TypeOK, Status
    <2> QED
      BY <1>0, <1>3, <2>1, <2>2 DEF WaitBefore, place, TypeOK
  <1>4. CASE Begin
    <2> DEFINE o == [unit |-> unit, at |-> FirstOf(call) + i, value |-> call.value]
    <2>1. /\ call \in Calls /\ FirstOf(call) + i \in Nat
          /\ Length(unit) \in Nat \ {0} /\ FirstOf(call) + i + Length(unit) <= Size
      BY <1>4, UnitInside DEF Begin, InUnit
    <2>2. FirstOf(call) + i \in Bytes
      BY <2>1, SizeFacts DEF Bytes
    <2>3. o \in Op
      BY <2>1, <2>2, CallsAssumption DEF TypeOK, Op, Call
    <2>4. op' \in {NoOp, o}
      BY <1>4 DEF Begin, Starts
    <2> QED
      BY <1>0, <1>4, <2>3, <2>4 DEF Begin, place, TypeOK
  <1>5. CASE WaitDuring
    <2>1. faults' \in 0 .. MaxFaults /\ gaveup' \in BOOLEAN
      BY <1>5, FaultType DEF WaitDuring, ReadyWithoutErr, ErrorFlagged, BusyTooLong, TypeOK
    <2>2. status' \in Status
      BY <1>5 DEF WaitDuring, Status
    <2> QED
      BY <1>0, <1>5, <2>1, <2>2 DEF WaitDuring, place, TypeOK
  <1>6. CASE FinishUnit \/ ByteFails \/ ByteDiffers
    <2>1. \E s \in Status : Leave(s) \/ UnitReturns(s)
      BY <1>6 DEF FinishUnit, ByteFails, ByteDiffers, TypeOK, Status
    <2> QED
      BY <1>0, <1>6, <2>1, DriverType DEF FinishUnit, ByteFails, ByteDiffers, Finishing, place, TypeOK
  <1>7. ASSUME InUnit, Advance, UNCHANGED <<mem, op, faults, gaveup>> PROVE TypeOK'
    <2>1. i + Length(unit) \in 0 .. Size
      BY <1>7, UnitInside, SizeFacts
    <2> QED
      BY <1>0, <1>7, <2>1 DEF Advance, TypeOK
  <1>8. CASE ByteStored
    BY <1>7, <1>8 DEF ByteStored, Finishing, InUnit
  <1>9. CASE BytesUnlock
    <2>1. faults' \in 0 .. MaxFaults
      BY <1>9, FaultType DEF BytesUnlock, KeysRefused, TypeOK
    <2>2. status' \in Status /\ result' \in Status \cup {NoResult} /\ pc' \in {"loop", "idle"}
      BY <1>9 DEF BytesUnlock, Leave, TypeOK, Status
    <2> QED
      BY <1>0, <1>9, <2>1, <2>2 DEF BytesUnlock, place, TypeOK
  <1>10. CASE NextUnit
    <2>1. UnitAt(call, i, unit) \in Units
      BY <1>10, UnitFacts DEF NextUnit, ControllerInv, Loop
    <2> QED
      BY <1>0, <1>10, <2>1 DEF NextUnit, hardware, TypeOK
  <1>11. CASE EraseDone \/ BytesDone \/ WordReturned
    <2>1. \E s \in Status : Leave(s)
      BY <1>11 DEF EraseDone, BytesDone, WordReturned, TypeOK, Status
    <2> QED
      BY <1>0, <1>11, <2>1, DriverType DEF EraseDone, BytesDone, WordReturned, hardware, place, TypeOK
  <1>12. CASE SectorReturned \/ BytesWordReturned
    <2>1. pc = "returned" /\ UNCHANGED <<mem, op, faults, gaveup>>
      BY <1>12 DEF SectorReturned, BytesWordReturned, hardware
    <2>2. CASE Leave(status) /\ UNCHANGED <<call, unit, i>>
      BY <1>0, <2>1, <2>2 DEF Leave, TypeOK
    <2>3. CASE Advance
      BY <1>7, <2>1, <2>3 DEF InUnit
    <2> QED
      BY <1>12, <2>2, <2>3 DEF SectorReturned, BytesWordReturned, place
  <1>13. CASE Completes
    <2>1. mem' \in [Bytes -> Values \cup {Erased, Spoilt}]
      BY <1>13, MemType DEF Completes
    <2>2. faults' \in 0 .. MaxFaults
      BY <1>13, FaultType DEF Completes, TypeOK
    <2> QED
      BY <1>0, <1>13, <2>1, <2>2 DEF Completes, driver, place, TypeOK
  <1>14. CASE Reset
    <2>1. mem' \in [Bytes -> Values \cup {Erased, Spoilt}]
      BY <1>14, MemType DEF Reset, TypeOK
    <2>2. faults' \in 0 .. MaxFaults
      BY <1>14, FaultType DEF Reset, TypeOK
    <2> QED
      BY <1>0, <1>14, <2>1, <2>2 DEF Reset, TypeOK, Status
  <1>15. CASE UNCHANGED vars
    BY <1>15 DEF vars, hardware, driver, place, TypeOK
  <1> QED
    BY <1>1, <1>2, <1>3, <1>4, <1>5, <1>6, <1>8, <1>9, <1>10, <1>11, <1>12, <1>13, <1>14, <1>15
    DEF Next, Driver, Unit, Loops

TypedInv == ControllerInv /\ TypeOK /\ Within

\* TypeOK: the offset of the loop never leaves the call's range, nor a store the
\* flash, whatever unit the loop takes next.
THEOREM TypeCorrect == Spec => []TypeOK
  <1>1. Init => TypedInv
    BY TypeInit DEF TypedInv
  <1>2. TypedInv /\ [Next]_vars => TypedInv'
    BY StepPreserves, WithinStep, TypeStep DEF TypedInv
  <1>3. TypedInv => TypeOK
    BY DEF TypedInv
  <1> QED
    BY <1>1, <1>2, <1>3, PTL DEF Spec

-----------------------------------------------------------------------------
(* Failures that are not the call's own.                                   *)

StartsWord(n) == \E k \in Nat : n = WordBytes * k

\* Nothing has gone wrong since the call was made, and it is one that can succeed.
Sound == faults = entry.faults /\ entry.fits /\ ~entry.timedout /\ WholeWords(call)

\* Adverse events are only counted up.
EntryInv == entry.faults \in Nat /\ entry.faults <= faults

\* Whole words never get to the byte phase.
WordLoop ==
    pc # "idle" /\ WholeWords(call) /\ call.fn # "erase_range" => unit = "word" /\ StartsWord(i)

StillFits ==
    pc # "idle" /\ Sound /\ call.fn # "erase_range"
        => \A a \in Target(call) : mem[a] \in {Erased, call.value}

\* An error flag is one of the operation that is waited for, or of one that
\* wait_busy() gave up on.
FlagsInv ==
    /\ SR.bsy => pc \in {"during", "finish"}
    /\ pc # "during" /\ ~gaveup => ~SR.err /\ ~SR.bsy
    /\ pc \in {"begin", "during"} => ~gaveup

Succeeds ==
    Sound =>
        /\ pc # "idle" => ~gaveup
        /\ pc = "during" => /\ ~SR.err
                            /\ op # NoOp => op.value = call.value
                            /\ ~SR.bsy => ReadsBack
        /\ pc = "finish" => status = "OK" /\ ReadsBack
        /\ pc = "returned" => status = "OK"
        /\ Returned => result = "OK"

StaleInv == TypedInv /\ EntryInv /\ WordLoop /\ StillFits /\ FlagsInv /\ Succeeds

LEMMA AlignedWord ==
    ASSUME NEW n \in Nat PROVE WordAligned(n) <=> StartsWord(n)
  <1> DEFINE q == n \div WordBytes
  <1>1. q \in Nat /\ n % WordBytes \in 0 .. WordBytes - 1 /\ n = WordBytes * q + (n % WordBytes)
    BY DivMod, SizeFacts
  <1>2. WordBytes * q \in Nat
    BY <1>1, SizeFacts
  <1> HIDE DEF q
  <1>3. ASSUME WordAligned(n) PROVE StartsWord(n)
    BY <1>1, <1>2, <1>3 DEF WordAligned, StartsWord
  <1>4. ASSUME NEW k \in Nat, n = WordBytes * k PROVE WordAligned(n)
    <2>1. WordBytes * k \in Nat /\ WordBytes \in Nat /\ WordBytes > 0
      BY <1>4, SizeFacts
    <2>2. ~(WordBytes * q < WordBytes * k)
      <3> SUFFICES ASSUME WordBytes * q < WordBytes * k PROVE FALSE
        OBVIOUS
      <3>1. WordBytes * q + WordBytes <= WordBytes * k
        BY <1>1, Multiples, SizeFacts
      <3> QED
        BY <1>1, <1>2, <1>4, <2>1, <3>1
    <2> QED
      BY <1>1, <1>2, <1>4, <2>1, <2>2 DEF WordAligned
  <1> QED
    BY <1>3, <1>4 DEF StartsWord

\* Before the end of a range of whole words there is room for one more.
LEMMA WordFacts ==
    ASSUME NEW n \in Nat, NEW m \in Nat, StartsWord(n), StartsWord(m)
    PROVE  /\ n < m => n + WordBytes <= m
           /\ StartsWord(n + WordBytes) /\ StartsWord(n + m)
  <1>1. PICK j \in Nat : n = WordBytes * j
    BY DEF StartsWord
  <1>2. PICK k \in Nat : m = WordBytes * k
    BY DEF StartsWord
  <1>3. n + WordBytes = WordBytes * (j + 1) /\ n + m = WordBytes * (j + k)
    BY <1>1, <1>2, Multiples, SizeFacts
  <1>4. n < m => n + WordBytes <= m
    BY <1>1, <1>2, Multiples, SizeFacts
  <1> QED
    BY <1>3, <1>4 DEF StartsWord

\* UnitAt() in a range of whole words.
LEMMA NextIsWord ==
    ASSUME NEW c \in Calls, WholeWords(c), c.fn # "erase_range",
           NEW n \in Nat, StartsWord(n), n < c.size
    PROVE  UnitAt(c, n, "word") = "word" /\ n + WordBytes <= c.size
  <1>1. StartsWord(c.addr) /\ StartsWord(c.size) /\ c.addr \in Nat /\ c.size \in Nat
    BY CallFacts, AlignedWord DEF WholeWords
  <1>2. n + WordBytes <= c.size
    BY <1>1, WordFacts
  <1>3. WordAligned(c.addr + n)
    BY <1>1, WordFacts, AlignedWord
  <1> QED
    BY <1>2, <1>3, CallFacts DEF UnitAt

UnitCells == FirstOf(call) + i .. FirstOf(call) + i + Length(unit) - 1

LEMMA CellsInside ==
    ASSUME StaleInv, InUnit
    PROVE  /\ UnitCells \subseteq Bytes
           /\ call.fn # "erase_range" /\ WholeWords(call)
                => UnitCells \subseteq Target(call) /\ Target(call) \subseteq Bytes
  <1>1. /\ call \in Calls /\ i \in Nat /\ FirstOf(call) \in Nat
        /\ Length(unit) \in Nat \ {0} /\ FirstOf(call) + i + Length(unit) <= Size
    BY UnitInside DEF StaleInv, TypedInv
  <1>2. UnitCells \subseteq Bytes
    BY <1>1, SizeFacts DEF UnitCells, Bytes
  <1>3. ASSUME call.fn # "erase_range", WholeWords(call)
        PROVE  UnitCells \subseteq Target(call) /\ Target(call) \subseteq Bytes
    <2>1. unit = "word" /\ Length(unit) = WordBytes /\ FirstOf(call) = call.addr
      BY <1>1, <1>3, CallFacts DEF InUnit, StaleInv, WordLoop, Length
    <2>2. i + WordBytes <= call.size
      BY <1>1, <1>3, <2>1, CallFacts, SizeFacts
      DEF StaleInv, TypedInv, Within, ControllerInv, Loop, InLoop
    <2> QED
      BY <1>1, <1>3, <2>1, <2>2, CallFacts, SizeFacts DEF UnitCells, Bytes, Target
  <1> QED
    BY <1>2, <1>3

Stale == EntryInv /\ WordLoop /\ StillFits /\ FlagsInv /\ Succeeds

\* An adverse event is the end of Sound.
LEMMA FaultNotSound ==
    ASSUME StaleInv, UNCHANGED <<call, entry>>
    PROVE  /\ UNCHANGED faults => Sound' = Sound /\ EntryInv'
           /\ \A kind : Fault(kind) => ~Sound' /\ EntryInv'
  <1>1. faults \in Nat /\ entry.faults \in Nat /\ entry.faults <= faults
    BY DEF StaleInv, TypedInv, TypeOK, EntryInv
  <1> QED
    BY <1>1 DEF Sound, WholeWords, Fault, EntryInv

LEMMA InvokeStale ==
    ASSUME StaleInv, NEW c \in Calls, Invoke(c) PROVE Stale'
  <1>1. /\ pc = "idle" /\ pc' \in {"unlock", "loop", "before"} /\ i' = 0 /\ call' = c
        /\ unit' = UnitAt(c, 0, "word")
        /\ result' = NoResult /\ UNCHANGED <<SR, mem, faults, gaveup>>
        /\ entry' = [faults |-> faults, fits |-> Fits(c), timedout |-> gaveup]
    BY CallFacts DEF Invoke, hardware
  <1>2. EntryInv'
    BY <1>1 DEF EntryInv, StaleInv, TypedInv, TypeOK
  <1>3. WordLoop'
    <2> SUFFICES ASSUME WholeWords(c), c.fn # "erase_range"
                 PROVE  UnitAt(c, 0, "word") = "word" /\ StartsWord(0)
      BY <1>1 DEF WordLoop
    <2>1. StartsWord(0)
      BY SizeFacts DEF StartsWord
    <2> QED
      BY <2>1, CallFacts, NextIsWord
  <1>4. StillFits'
    BY <1>1 DEF StillFits, Sound, Fits, Target
  <1>5. FlagsInv'
    BY <1>1 DEF FlagsInv, StaleInv
  <1>6. Succeeds'
    BY <1>1 DEF Succeeds, Sound, Returned
  <1> QED
    BY <1>2, <1>3, <1>4, <1>5, <1>6 DEF Stale

\* The steps that neither move the loop nor store anything.
LEMMA InPlaceStale ==
    ASSUME StaleInv, pc # "idle", UNCHANGED <<mem, call, unit, i, entry>>,
           UNCHANGED faults \/ \E kind : Fault(kind)
    PROVE  /\ EntryInv' /\ WordLoop' /\ StillFits'
           /\ Sound' => Sound /\ UNCHANGED faults
  <1>1. EntryInv' /\ (Sound' => Sound /\ UNCHANGED faults)
    BY FaultNotSound
  <1>2. WordLoop' /\ StillFits'
    BY <1>1 DEF StaleInv, WordLoop, StillFits, WholeWords, Target
  <1> QED
    BY <1>1, <1>2

LEMMA RefuseUnalignedStale ==
    ASSUME StaleInv, RefuseUnaligned PROVE Stale'
  <1>1. /\ pc = "before" /\ unit = "word" /\ ~WordAligned(call.addr + i)
        /\ pc' = "returned"
        /\ UNCHANGED <<SR, mem, op, call, unit, i, faults, gaveup, entry>>
    BY DEF RefuseUnaligned, UnitReturns, hardware, place
  <1>2. EntryInv' /\ WordLoop' /\ StillFits' /\ (Sound' => Sound)
    BY <1>1, InPlaceStale
  <1>3. FlagsInv'
    BY <1>1 DEF StaleInv, FlagsInv
  <1>4. ~Sound
    <2> SUFFICES ASSUME Sound PROVE FALSE
      OBVIOUS
    <2>1. call \in Calls /\ i \in Nat /\ call.fn # "erase_range" /\ WholeWords(call)
      BY <1>1 DEF StaleInv, TypedInv, ControllerInv, Loop, InLoop, InUnit, Sound
    <2>2. call.addr \in Nat /\ StartsWord(call.addr) /\ StartsWord(i)
      BY <1>1, <2>1, CallFacts, AlignedWord DEF WholeWords, StaleInv, WordLoop
    <2> QED
      BY <1>1, <2>1, <2>2, WordFacts, AlignedWord
  <1> QED
    BY <1>2, <1>3, <1>4 DEF Stale, Succeeds

LEMMA WaitBeforeStale ==
    ASSUME StaleInv, WaitBefore PROVE Stale'
  <1>1. pc = "before" /\ UNCHANGED <<mem, call, unit, i, entry, faults>> /\ gaveup' = FALSE
    BY DEF WaitBefore, place, ReadyWithoutErr, ErrorFlagged
  <1>2. EntryInv' /\ WordLoop' /\ StillFits' /\ (Sound' => Sound)
    BY <1>1, InPlaceStale
  <1>3. CASE ReadyWithoutErr /\ pc' = "begin"
    BY <1>1, <1>2, <1>3 DEF ReadyWithoutErr, Stale, FlagsInv, Succeeds, Returned
  <1>4. CASE ErrorFlagged /\ pc' \in {"returned", "idle"}
    <2>1. ~Sound
      BY <1>1, <1>4 DEF ErrorFlagged, StaleInv, FlagsInv, Succeeds
    <2> QED
      BY <1>1, <1>2, <1>4, <2>1 DEF ErrorFlagged, Stale, FlagsInv, Succeeds, Quiet
  <1> QED
    BY <1>3, <1>4 DEF WaitBefore, Leave, UnitReturns

LEMMA UnlockRefusedStale ==
    ASSUME StaleInv, UnlockRefused PROVE Stale'
  <1>1. /\ pc = "begin" /\ pc' = "returned" /\ Fault("locked")
        /\ UNCHANGED <<SR, mem, op, call, unit, i, gaveup, entry>>
    BY DEF UnlockRefused, KeysRefused, UnitReturns, hardware, place
  <1>2. EntryInv' /\ WordLoop' /\ StillFits' /\ ~Sound'
    BY <1>1, InPlaceStale, FaultNotSound
  <1> QED
    BY <1>1, <1>2 DEF Stale, StaleInv, FlagsInv, Succeeds

LEMMA BeginStale ==
    ASSUME StaleInv, Begin PROVE Stale'
  <1> DEFINE o == [unit |-> unit, at |-> FirstOf(call) + i, value |-> call.value]
  <1>1. /\ pc = "begin" /\ pc' = "during" /\ CR' = Configured /\ Starts(o)
        /\ UNCHANGED <<mem, call, unit, i, status, result, faults, gaveup, entry>>
    BY DEF Begin, place
  <1>2. EntryInv' /\ WordLoop' /\ StillFits' /\ (Sound' => Sound)
    BY <1>1, InPlaceStale
  <1>3. FlagsInv'
    BY <1>1 DEF FlagsInv, StaleInv
  <1>4. ASSUME Sound PROVE SR' = [SR EXCEPT !.bsy = TRUE] /\ op' = o /\ ~SR.err
    <2>1. unit \in {"sector", "word"}
      BY <1>1, <1>4 DEF Sound, InLoop, InUnit, StaleInv, TypedInv, ControllerInv, Loop, WordLoop
    <2> QED
      BY <1>1, <2>1 DEF Starts, Configured, StaleInv, FlagsInv
  <1>5. SR \in [bsy : BOOLEAN, err : BOOLEAN]
    BY DEF StaleInv, TypedInv, TypeOK
  <1>6. Succeeds'
    BY <1>1, <1>2, <1>4, <1>5 DEF Succeeds, StaleInv, Returned
  <1> QED
    BY <1>2, <1>3, <1>6 DEF Stale

LEMMA WaitDuringStale ==
    ASSUME StaleInv, WaitDuring PROVE Stale'
  <1>1. pc = "during" /\ pc' = "finish" /\ UNCHANGED <<mem, call, unit, i, entry>>
    BY DEF WaitDuring, place
  <1>2. /\ EntryInv' /\ WordLoop' /\ StillFits'
        /\ Sound' => Sound /\ ~BusyTooLong
    BY <1>1, InPlaceStale, FaultNotSound DEF WaitDuring, ReadyWithoutErr, ErrorFlagged, BusyTooLong
  <1>3. FlagsInv'
    BY <1>1 DEF WaitDuring, ReadyWithoutErr, ErrorFlagged, BusyTooLong, FlagsInv, Quiet
  <1>4. Succeeds'
    <2> SUFFICES ASSUME Sound' PROVE status' = "OK" /\ ReadsBack' /\ ~gaveup'
      BY <1>1 DEF Succeeds, Returned
    <2>1. ~SR.err /\ (~SR.bsy => ReadsBack)
      BY <1>1, <1>2 DEF StaleInv, Succeeds
    <2>2. ReadyWithoutErr /\ status' = "OK"
      BY <1>2, <2>1 DEF WaitDuring, ErrorFlagged
    <2> QED
      BY <1>1, <2>1, <2>2 DEF ReadyWithoutErr, ReadsBack, FirstOf, Wanted
  <1> QED
    BY <1>2, <1>3, <1>4 DEF Stale

\* After the wait no flag is left but of an operation that was given up, and what
\* was stored in a call that goes well reads back.
LEMMA FinishingStale ==
    ASSUME StaleInv, Finishing, UNCHANGED <<call, unit>>
    PROVE  /\ pc = "finish" /\ ~SR.bsy /\ InUnit
           /\ UNCHANGED <<SR, mem, op, faults, gaveup, entry>>
           /\ Sound' = Sound /\ EntryInv'
           /\ Sound => status = "OK" /\ ReadsBack /\ ~gaveup
           /\ ~gaveup => ~SR.err
  <1>1. pc = "finish" /\ ~SR.bsy /\ UNCHANGED <<SR, mem, op, faults, gaveup, entry>>
    BY DEF Finishing
  <1> QED
    BY <1>1, FaultNotSound DEF InUnit, StaleInv, Succeeds, FlagsInv

LEMMA FinishOut ==
    ASSUME StaleInv, FinishUnit \/ ByteFails \/ ByteDiffers PROVE Stale'
  <1>1. Finishing /\ UNCHANGED <<call, unit, i>>
    BY DEF FinishUnit, ByteFails, ByteDiffers, place
  <1>2. /\ pc = "finish" /\ ~SR.bsy /\ UNCHANGED <<SR, mem, op, faults, gaveup, entry>>
        /\ Sound' = Sound /\ EntryInv'
        /\ Sound => status = "OK" /\ ReadsBack /\ ~gaveup
        /\ ~gaveup => ~SR.err
    BY <1>1, FinishingStale
  <1>3. EntryInv' /\ WordLoop' /\ StillFits'
    BY <1>1, <1>2, InPlaceStale
  <1>4. CASE FinishUnit
    <2>1. pc' = "returned" /\ (Sound => status' = "OK")
      BY <1>2, <1>4 DEF FinishUnit, UnitReturns
    <2> QED
      BY <1>2, <1>3, <2>1 DEF Stale, FlagsInv, Succeeds, Returned
  <1>5. CASE ByteFails \/ ByteDiffers
    <2>1. pc' = "idle" /\ ~Sound
      BY <1>2, <1>5 DEF ByteFails, ByteDiffers, Leave
    <2> QED
      BY <1>2, <1>3, <2>1 DEF Stale, FlagsInv, Succeeds
  <1> QED
    BY <1>4, <1>5

\* The loop goes on, with whole words if the call is for whole words.
LEMMA AdvanceStale ==
    ASSUME StaleInv, InUnit, ~SR.bsy, Advance,
           ~gaveup => ~SR.err, Sound => ~gaveup,
           UNCHANGED <<SR, mem, faults, gaveup, entry>>
    PROVE  Stale'
  <1>1. pc' = "loop" /\ i' = i + Length(unit) /\ UNCHANGED <<call, unit>> /\ pc # "idle"
    BY DEF Advance, InUnit
  <1>2. Sound' = Sound /\ EntryInv'
    BY <1>1, FaultNotSound
  <1>3. WordLoop'
    <2> SUFFICES ASSUME WholeWords(call), call.fn # "erase_range"
                 PROVE  unit = "word" /\ StartsWord(i + Length(unit))
      BY <1>1 DEF WordLoop, WholeWords
    <2>1. unit = "word" /\ StartsWord(i) /\ i \in Nat /\ Length(unit) = WordBytes
      BY <1>1 DEF StaleInv, WordLoop, TypedInv, ControllerInv, Loop, Length
    <2> QED
      BY <2>1, WordFacts
  <1>4. StillFits'
    BY <1>1, <1>2 DEF StaleInv, StillFits, Target
  <1>5. FlagsInv' /\ Succeeds'
    BY <1>1, <1>2 DEF FlagsInv, Succeeds, Returned
  <1> QED
    BY <1>2, <1>3, <1>4, <1>5 DEF Stale

LEMMA ByteStoredStale ==
    ASSUME StaleInv, ByteStored PROVE Stale'
  <1>1. Finishing /\ Advance /\ UNCHANGED <<call, unit>>
    BY DEF ByteStored, Advance
  <1> QED
    BY <1>1, FinishingStale, AdvanceStale

LEMMA BytesUnlockStale ==
    ASSUME StaleInv, BytesUnlock PROVE Stale'
  <1>1. /\ pc = "unlock" /\ UNCHANGED <<SR, mem, op, call, unit, i, gaveup, entry>>
        /\ \/ pc' = "loop" /\ UNCHANGED faults
           \/ pc' = "idle" /\ Fault("locked")
    BY DEF BytesUnlock, KeysRefused, Leave, place
  <1>2. EntryInv' /\ WordLoop' /\ StillFits' /\ (Sound' => Sound /\ UNCHANGED faults)
    BY <1>1, InPlaceStale
  <1>3. FlagsInv'
    BY <1>1 DEF FlagsInv, StaleInv
  <1>4. pc' = "idle" => ~Sound'
    BY <1>1, FaultNotSound
  <1>5. Succeeds'
    BY <1>1, <1>2, <1>4 DEF Succeeds, StaleInv, Returned
  <1> QED
    BY <1>2, <1>3, <1>5 DEF Stale

LEMMA NextUnitStale ==
    ASSUME StaleInv, NextUnit PROVE Stale'
  <1>1. /\ pc = "loop" /\ More(i) /\ pc' = "before" /\ unit' = UnitAt(call, i, unit)
        /\ UNCHANGED <<SR, mem, call, i, faults, gaveup, entry>>
    BY DEF NextUnit, hardware
  <1>2. Sound' = Sound /\ EntryInv'
    BY <1>1, FaultNotSound
  <1>3. call \in Calls /\ i \in Nat
    BY <1>1 DEF StaleInv, TypedInv, ControllerInv, Loop
  <1>4. WordLoop'
    <2> SUFFICES ASSUME WholeWords(call), call.fn # "erase_range"
                 PROVE  UnitAt(call, i, unit) = "word" /\ StartsWord(i)
      BY <1>1 DEF WordLoop, WholeWords
    <2>1. unit = "word" /\ StartsWord(i) /\ i < call.size
      BY <1>1 DEF StaleInv, WordLoop, More, RangeEnd
    <2> QED
      BY <1>3, <2>1, NextIsWord
  <1>5. StillFits'
    BY <1>1, <1>2 DEF StaleInv, StillFits, Target
  <1>6. FlagsInv' /\ Succeeds'
    BY <1>1, <1>2 DEF StaleInv, FlagsInv, Succeeds, Returned
  <1> QED
    BY <1>2, <1>4, <1>5, <1>6 DEF Stale

LEMMA LoopEndStale ==
    ASSUME StaleInv, EraseDone \/ BytesDone PROVE Stale'
  <1>1. /\ pc = "loop" /\ pc' = "idle" /\ result' = "OK"
        /\ UNCHANGED <<SR, mem, call, unit, i, faults, gaveup, entry>>
    BY DEF EraseDone, BytesDone, Leave, hardware, place
  <1>2. EntryInv' /\ WordLoop' /\ StillFits'
    BY <1>1, InPlaceStale
  <1> QED
    BY <1>1, <1>2 DEF StaleInv, Stale, FlagsInv, Succeeds, Returned

LEMMA ReturnedStale ==
    ASSUME StaleInv, WordReturned \/ SectorReturned \/ BytesWordReturned PROVE Stale'
  <1>1. pc = "returned" /\ UNCHANGED <<SR, mem, faults, gaveup, entry>>
    BY DEF WordReturned, SectorReturned, BytesWordReturned, hardware
  <1>2. CASE Leave(status) /\ UNCHANGED <<call, unit, i>>
    <2>1. pc' = "idle" /\ result' = status
      BY <1>2 DEF Leave
    <2>2. EntryInv' /\ WordLoop' /\ StillFits' /\ (Sound' => Sound)
      BY <1>1, <1>2, InPlaceStale
    <2> QED
      BY <1>1, <2>1, <2>2 DEF StaleInv, Stale, FlagsInv, Succeeds, Returned
  <1>3. CASE Advance
    <2>1. ~SR.bsy /\ (~gaveup => ~SR.err) /\ (Sound => ~gaveup)
      BY <1>1 DEF StaleInv, FlagsInv, Succeeds
    <2> QED
      BY <1>1, <1>3, <2>1, AdvanceStale DEF InUnit
  <1> QED
    BY <1>2, <1>3 DEF WordReturned, SectorReturned, BytesWordReturned, place

LEMMA CompletesStale ==
    ASSUME StaleInv, Completes PROVE Stale'
  <1>1. /\ op # NoOp /\ op' = NoOp
        /\ UNCHANGED <<call, pc, unit, i, status, result, gaveup, entry>>
        /\ \/ /\ mem' = [a \in Bytes |-> IF a \in Cells(op) THEN After(op, a) ELSE mem[a]]
              /\ SR' = [SR EXCEPT !.bsy = FALSE]
              /\ UNCHANGED faults
           \/ \E kind : Fault(kind)
        /\ ~SR'.bsy
    BY DEF Completes, driver, place, StaleInv, TypedInv, TypeOK
  <1>2. SR.bsy /\ pc \in {"during", "finish"}
    BY <1>1 DEF StaleInv, TypedInv, ControllerInv, Registers, FlagsInv
  <1>3. pc = "finish" => gaveup
    BY <1>2 DEF StaleInv, FlagsInv
  <1>4. EntryInv' /\ (Sound' => Sound /\ UNCHANGED faults)
    BY <1>1, FaultNotSound
  <1>5. WordLoop'
    BY <1>1 DEF StaleInv, WordLoop, WholeWords
  <1>6. FlagsInv'
    BY <1>1, <1>2, <1>3 DEF StaleInv, FlagsInv
  <1>7. ASSUME Sound' PROVE StillFits' /\ Succeeds'
    <2>1. /\ mem' = [a \in Bytes |-> IF a \in Cells(op) THEN After(op, a) ELSE mem[a]]
          /\ SR' = [SR EXCEPT !.bsy = FALSE] /\ Sound
      BY <1>1, <1>4, <1>7, FaultNotSound
    <2>2. pc = "during" /\ op.value = call.value /\ ~SR.err /\ ~gaveup
      BY <1>1, <1>2, <1>3, <2>1 DEF StaleInv, Succeeds
    <2>3. InUnit /\ WholeWords(call) /\ op.unit = unit /\ Cells(op) = UnitCells
      BY <1>1, <2>1, <2>2
      DEF InLoop, InUnit, Sound, StaleInv, TypedInv, ControllerInv, AtUnit, Cells, UnitCells
    <2>4. ASSUME call.fn # "erase_range", NEW a \in Target(call)
          PROVE  mem'[a] \in {Erased, call.value} /\ (a \in UnitCells => mem'[a] = call.value)
      <3>1. unit = "word" /\ mem[a] \in {Erased, call.value} /\ a \in Bytes
        BY <2>1, <2>2, <2>3, <2>4, CellsInside DEF StaleInv, WordLoop, StillFits
      <3> QED
        BY <2>1, <2>2, <2>3, <3>1 DEF After
    <2>5. StillFits'
      BY <1>1, <2>4 DEF StillFits, Target
    <2>6. \A a \in UnitCells : mem'[a] = Wanted(call)
      <3> SUFFICES ASSUME NEW a \in UnitCells PROVE mem'[a] = Wanted(call)
        OBVIOUS
      <3>1. a \in Bytes /\ (call.fn # "erase_range" => a \in Target(call))
        BY <2>3, CellsInside
      <3>2. CASE call.fn = "erase_range"
        <4>1. unit = "sector"
          BY <2>3, <3>2 DEF StaleInv, TypedInv, ControllerInv, Loop, InLoop
        <4> QED
          BY <2>1, <2>3, <3>1, <3>2, <4>1 DEF After, Wanted
      <3>3. CASE call.fn # "erase_range"
        BY <2>4, <3>1, <3>3 DEF Wanted
      <3> QED
        BY <3>2, <3>3
    <2>7. ReadsBack'
      BY <1>1, <2>6 DEF ReadsBack, UnitCells, FirstOf, Wanted
    <2>8. ~SR'.err
      BY <2>1, <2>2 DEF StaleInv, TypedInv, TypeOK
    <2> QED
      BY <1>1, <2>2, <2>5, <2>7, <2>8 DEF Succeeds, Returned
  <1>8. ~Sound' => StillFits' /\ Succeeds'
    BY DEF StillFits, Succeeds
  <1> QED
    BY <1>4, <1>5, <1>6, <1>7, <1>8 DEF Stale

LEMMA ResetStale ==
    ASSUME StaleInv, Reset PROVE Stale'
  <1>1. /\ pc' = "idle" /\ SR' = Quiet /\ result' = NoResult /\ UNCHANGED entry
        /\ Fault("reset") /\ gaveup' = FALSE
    BY DEF Reset
  <1>2. EntryInv'
    BY <1>1 DEF Fault, EntryInv, StaleInv, TypedInv, TypeOK
  <1> QED
    BY <1>1, <1>2 DEF Stale, WordLoop, StillFits, FlagsInv, Succeeds, Returned, Quiet

LEMMA StaleStep ==
    ASSUME StaleInv, [Next]_vars PROVE Stale'
  <1>1. ASSUME NEW c \in Calls, Invoke(c) PROVE Stale'
    BY <1>1, InvokeStale
  <1>2. CASE Driver
    BY <1>2, RefuseUnalignedStale, WaitBeforeStale, UnlockRefusedStale, BeginStale, WaitDuringStale,
       FinishOut, ByteStoredStale, BytesUnlockStale, NextUnitStale, LoopEndStale, ReturnedStale
    DEF Driver, Unit, Loops
  <1>3. CASE Completes
    BY <1>3, CompletesStale
  <1>4. CASE Reset
    BY <1>4, ResetStale
  <1>5. CASE UNCHANGED vars
    <2>1. UNCHANGED <<SR, mem, op, call, pc, unit, i, status, result, faults, gaveup, entry>>
      BY <1>5 DEF vars, hardware, driver, place
    <2>2. Sound' = Sound /\ EntryInv'
      BY <2>1, FaultNotSound
    <2>3. ReadsBack' = ReadsBack
      BY <2>1 DEF ReadsBack, FirstOf, Wanted
    <2> QED
      BY <2>1, <2>2, <2>3
      DEF StaleInv, Stale, WordLoop, StillFits, WholeWords, Target, FlagsInv, Succeeds, Returned
  <1> QED
    BY <1>1, <1>2, <1>3, <1>4, <1>5 DEF Next

\* NoStaleFailure: a call on whole words that meets no adverse event of its own
\* succeeds, in whatever state earlier failures, timeouts and resets have left the
\* control bits and the error flags of the controller.
THEOREM EarlierFailuresDoNoHarm == Spec => []NoStaleFailure
  <1>1. Init => StaleInv
    <2> SUFFICES ASSUME Init PROVE StaleInv
      OBVIOUS
    <2>1. TypedInv
      BY TypeInit DEF TypedInv
    <2> QED
      BY <2>1
      DEF Init, StaleInv, EntryInv, WordLoop, StillFits, FlagsInv, Succeeds, Returned, Quiet
  <1>2. StaleInv /\ [Next]_vars => StaleInv'
    <2> SUFFICES ASSUME StaleInv, [Next]_vars PROVE StaleInv'
      OBVIOUS
    <2>1. TypedInv'
      BY StepPreserves, WithinStep, TypeStep DEF StaleInv, TypedInv
    <2>2. Stale'
      BY StaleStep
    <2> QED
      BY <2>1, <2>2 DEF StaleInv, Stale
  <1>3. StaleInv => NoStaleFailure
    BY DEF StaleInv, Succeeds, Sound, NoStaleFailure, FaultFreeCallSucceeds
  <1> QED
    BY <1>1, <1>2, <1>3, PTL DEF Spec
=============================================================================
