------------------------------ MODULE ConfigStore ------------------------------
(***************************************************************************)
(* boot_config_save() of bootloader/src/boot_config.c, word by word: the   *)
(* erase, the words of the record in order, the CRC word last, and the     *)
(* readback, with a reset or a failure of the flash at any of them.        *)
(*                                                                         *)
(* The CRC is ideal: the CRC of a body is told from that of any other, and *)
(* from whatever an interrupted operation leaves.                          *)
(***************************************************************************)
EXTENDS Integers

CONSTANTS
    BodyWords,   \* words before the CRC word, CFG_CRC_OFFSET / 4; 5 in the code
    Word,        \* what a word of a record may be
    Magic,       \* BOOT_CONFIG_MAGIC
    Erased,      \* a word with all bits set
    Garbage,     \* a word that an erase or a program has left half done
    Torn, NoSave, NoResult,
    Faults, MaxFaults

CrcWord  == BodyWords + 1
Body     == 1 .. BodyWords
Cells    == 1 .. CrcWord

ASSUME WordsAssumption == BodyWords \in Nat \ {0} /\ Magic \in Word

\* BootConfig_t without its CRC; the magic number is its last word.
BootConfig_t == {body \in [Body -> Word] : body[BodyWords] = Magic}

\* crc32() over the body.
crc32(body) == <<"crc", body>>
Content     == Word \cup {Erased, Garbage}
Crc         == {crc32(body) : body \in [Body -> Content]}

\* No word of a record is all ones: versions, the slot's name, a boot counter.
ASSUME SpecialsAssumption ==
    /\ Erased \notin Word \cup Crc /\ Garbage \notin Word \cup Crc /\ Erased # Garbage
    /\ Torn \notin BootConfig_t /\ NoSave \notin BootConfig_t /\ NoResult \notin BOOLEAN
ASSUME StoreFaultsAssumption == Faults \subseteq {"reset", "flash"} /\ MaxFaults \in Nat

VARIABLES
    sector,   \* flash: the words of the record
    pc,       \* "idle", or the step of boot_config_save()
    buf,      \* the record that it saves
    i,        \* the next word of the body to program
    result,   \* what it returned, NoResult if it did not
    faults

vars == <<sector, pc, buf, i, result, faults>>

TypeOK ==
    /\ sector \in [Cells -> Content \cup Crc]
    /\ \A c \in Body : sector[c] \in Content
    /\ sector[CrcWord] \in Crc \cup {Erased, Garbage}
    /\ pc \in {"idle", "erase", "body", "crc", "readback"}
    /\ buf \in BootConfig_t \cup {NoSave}
    /\ i \in 1 .. CrcWord
    /\ result \in BOOLEAN \cup {NoResult}
    /\ faults \in 0 .. MaxFaults

-----------------------------------------------------------------------------
(* What the flash does.                                                    *)

\* Programming clears bits, it cannot set them.
Programmed(old, new) == IF old = Erased \/ old = new THEN new ELSE Garbage

\* A failed or interrupted program of one word, and erase of the sector.
HalfProgrammed(c, new) ==
    \E left \in {sector[c], Garbage, Programmed(sector[c], new)} :
        sector' = [sector EXCEPT ![c] = left]
HalfErased ==
    \E untouched \in SUBSET Cells : \E erased \in SUBSET (Cells \ untouched) :
        sector' = [c \in Cells |-> IF c \in untouched THEN sector[c]
                                   ELSE IF c \in erased THEN Erased ELSE Garbage]

Fault(kind) == kind \in Faults /\ faults < MaxFaults /\ faults' = faults + 1

-----------------------------------------------------------------------------
(* boot_config_validate() and boot_config_load().                          *)

StoredBody == [c \in Body |-> sector[c]]
ValidByMagic == sector[BodyWords] = Magic                                 \* mutated form
Valid        == sector[BodyWords] = Magic /\ sector[CrcWord] = crc32(StoredBody)

Stored == IF Valid THEN StoredBody ELSE Torn

-----------------------------------------------------------------------------
(* boot_config_save().                                                     *)

\* A save is called with the RAM copy of the record, always with its magic
\* number: from flash, or from boot_config_default().
Save(record) ==
    /\ pc = "idle"
    /\ buf' = record
    /\ pc' = "erase" /\ i' = 1 /\ result' = NoResult
    /\ UNCHANGED <<sector, faults>>

Returns(ok) == pc' = "idle" /\ buf' = NoSave /\ i' = 1 /\ result' = ok

EraseStepUnchecked ==                                                     \* mutated form
    /\ pc = "erase"
    /\ pc' = "body"
    /\ \/ sector' = [c \in Cells |-> Erased] /\ UNCHANGED faults
       \/ Fault("flash") /\ HalfErased
    /\ UNCHANGED <<buf, i, result>>
EraseStep ==
    /\ pc = "erase"
    /\ \/ /\ sector' = [c \in Cells |-> Erased]
          /\ pc' = "body"
          /\ UNCHANGED <<buf, i, result, faults>>
       \/ /\ Fault("flash")
          /\ HalfErased
          /\ Returns(FALSE)

\* flash_program_word(): what it finds afterwards decides.
ProgramStep(c, new, next) ==
    \/ /\ sector' = [sector EXCEPT ![c] = Programmed(@, new)]
       /\ IF sector'[c] = new
          THEN pc' = next /\ UNCHANGED <<buf, result>>
          ELSE pc' = "idle" /\ buf' = NoSave /\ result' = FALSE
       /\ UNCHANGED faults
    \/ /\ Fault("flash")
       /\ HalfProgrammed(c, new)
       /\ pc' = "idle" /\ buf' = NoSave /\ result' = FALSE

\* One word of flash_program_bytes(), which stops at the first that fails.
BodyStep ==
    /\ pc = "body"
    /\ ProgramStep(i, buf[i], IF i = BodyWords THEN "crc" ELSE "body")
    /\ i' = IF pc' = "idle" THEN 1 ELSE i + 1

CrcStep ==
    /\ pc = "crc"
    /\ ProgramStep(CrcWord, crc32(buf), "readback")
    /\ i' = IF pc' = "idle" THEN 1 ELSE i

ReadbackStep ==
    /\ pc = "readback"
    /\ Returns(StoredBody = buf /\ sector[CrcWord] = crc32(buf))
    /\ UNCHANGED <<sector, faults>>

\* A reset or a power loss, between two operations of the flash or in one.
Reset ==
    /\ Fault("reset")
    /\ \/ UNCHANGED sector
       \/ pc = "erase" /\ HalfErased
       \/ pc = "body" /\ HalfProgrammed(i, buf[i])
       \/ pc = "crc" /\ HalfProgrammed(CrcWord, crc32(buf))
    /\ pc' = "idle" /\ buf' = NoSave /\ i' = 1 /\ result' = NoResult

Init ==
    /\ \/ sector = [c \in Cells |-> Erased]
       \/ \E body \in BootConfig_t :
             sector = [c \in Cells |-> IF c = CrcWord THEN crc32(body) ELSE body[c]]
    /\ pc = "idle" /\ buf = NoSave /\ i = 1 /\ result = NoResult
    /\ faults = 0

SaveSteps == EraseStep \/ BodyStep \/ CrcStep \/ ReadbackStep

Next == \/ \E record \in BootConfig_t : Save(record)
        \/ SaveSteps
        \/ Reset

Spec == Init /\ [][Next]_vars

-----------------------------------------------------------------------------
(* Properties.                                                             *)

\* What boot_config_load() finds is a register (ConfigRegister): the record
\* of the last save that got through or none, never the old record after the
\* new one was begun to be written, never a mixture, and a save that returns
\* true is there.
Register == INSTANCE ConfigRegister WITH Records <- BootConfig_t, reg <- Stored,
                                         saving <- buf
ImplementsRegister == Register!Spec

\* Every word that boot_config_save() is about to program is blank, and what
\* it has programmed is the new record, so that the CRC word, the last, never
\* completes a record that is not the new one.
WrittenSoFar ==
    /\ \A c \in Body : c < i /\ pc # "idle" => sector[c] = buf[c]
    /\ pc = "readback" => sector[CrcWord] = crc32(buf)
BlankFromHere ==
    /\ pc \in {"body", "crc"} => \A c \in i .. CrcWord : sector[c] = Erased
Phase ==
    /\ pc \in {"idle", "erase"} => i = 1
    /\ pc = "body" => i \in Body
    /\ pc \in {"crc", "readback"} => i = CrcWord
    /\ (pc = "idle") = (buf = NoSave)
    /\ pc # "idle" => result = NoResult

\* Where a CRC is left, the body is the record it was computed of, as far as
\* no erase has touched it: an erase that stops half way, after others that
\* did, never completes an older record again.
CrcOfARecord ==
    sector[CrcWord] \notin {Erased, Garbage} =>
        \E record \in BootConfig_t :
            /\ sector[CrcWord] = crc32(record)
            /\ \A c \in Body : sector[c] \in {record[c], Erased, Garbage}

StoreInv == TypeOK /\ Phase /\ WrittenSoFar /\ BlankFromHere /\ CrcOfARecord
=============================================================================
