--------------------------- MODULE ConfigStoreProofs ---------------------------
(***************************************************************************)
(* boot_config_save() implements the register of ConfigRegister, for every *)
(* length of the record, every content of its words and every number of    *)
(* resets and flash failures.                                              *)
(***************************************************************************)
EXTENDS ConfigStore, TLAPS

\* The CRC word comes after the body, and there is a body.
LEMMA Geometry ==
    /\ BodyWords \in Body /\ CrcWord \in Cells /\ CrcWord \notin Body
    /\ Body \subseteq Cells /\ Cells = Body \cup {CrcWord}
    /\ 1 \in Body
  BY WordsAssumption DEF Body, Cells, CrcWord

LEMMA IndexBounds ==
    1 \in 1 .. CrcWord /\ CrcWord \in 1 .. CrcWord
    /\ \A n \in Body : n \in 1 .. CrcWord /\ n + 1 \in 1 .. CrcWord
  BY WordsAssumption DEF Body, CrcWord

\* A record, and the CRC of one, is neither an erased nor a spoilt word.
LEMMA RecordWords ==
    ASSUME NEW r \in BootConfig_t
    PROVE  /\ r \in [Body -> Word] /\ r[BodyWords] = Magic
           /\ crc32(r) \in Crc /\ crc32(r) \notin {Erased, Garbage}
           /\ \A c \in Body : r[c] \notin {Erased, Garbage}
  <1>1. r \in [Body -> Word] /\ r[BodyWords] = Magic
    BY DEF BootConfig_t
  <1>2. r \in [Body -> Content]
    BY <1>1 DEF Content
  <1>3. crc32(r) \in Crc
    BY <1>2 DEF Crc
  <1> QED
    BY <1>1, <1>3, SpecialsAssumption

\* The ideal CRC tells bodies apart.
LEMMA CrcInjective ==
    ASSUME NEW a, NEW b, crc32(a) = crc32(b) PROVE a = b
  BY DEF crc32

-----------------------------------------------------------------------------
(* The inductive invariant.                                                *)

\* A half-erased sector keeps its type, and the CRC its record.
LEMMA HalfErasedKeeps ==
    ASSUME TypeOK, CrcOfARecord, HalfErased
    PROVE  /\ sector' \in [Cells -> Content \cup Crc]
           /\ \A c \in Cells : sector'[c] \in {sector[c], Erased, Garbage}
           /\ \A c \in Body : sector'[c] \in Content
           /\ sector'[CrcWord] \in Crc \cup {Erased, Garbage}
           /\ CrcOfARecord'
  <1>1. /\ sector' \in [Cells -> Content \cup Crc]
        /\ \A c \in Cells : sector'[c] \in {sector[c], Erased, Garbage}
    BY DEF HalfErased, TypeOK, Content
  <1>2. \A c \in Body : sector'[c] \in Content
    BY <1>1, Geometry DEF TypeOK, Content
  <1>3. sector'[CrcWord] \in Crc \cup {Erased, Garbage}
    BY <1>1, Geometry DEF TypeOK
  <1>4. ASSUME sector'[CrcWord] \notin {Erased, Garbage} PROVE CrcOfARecord'
    <2>1. sector'[CrcWord] = sector[CrcWord]
      BY <1>1, <1>4, Geometry
    <2>2. PICK r \in BootConfig_t :
             /\ sector[CrcWord] = crc32(r)
             /\ \A c \in Body : sector[c] \in {r[c], Erased, Garbage}
      BY <1>4, <2>1 DEF CrcOfARecord
    <2>3. \A c \in Body : sector'[c] \in {r[c], Erased, Garbage}
      BY <1>1, <2>2, Geometry
    <2>4. CrcWord' = CrcWord
      BY DEF CrcWord
    <2> QED
      BY <2>1, <2>2, <2>3 DEF CrcOfARecord, CrcWord
  <1> QED
    BY <1>1, <1>2, <1>3, <1>4 DEF CrcOfARecord

\* So does a sector whose CRC word is blank or spoilt, whatever its body.
LEMMA NoCrcNoRecord ==
    ASSUME sector'[CrcWord] \in {Erased, Garbage} PROVE CrcOfARecord'
  BY DEF CrcOfARecord, CrcWord

\* Programming a blank word of the body, entirely or in part.
LEMMA BodyProgrammed ==
    ASSUME StoreInv, pc = "body",
           NEW left \in {sector[i], Garbage, Programmed(sector[i], buf[i])},
           sector' = [sector EXCEPT ![i] = left]
    PROVE  /\ sector' \in [Cells -> Content \cup Crc]
           /\ \A c \in Body : sector'[c] \in Content
           /\ sector'[CrcWord] = Erased
           /\ Programmed(sector[i], buf[i]) = buf[i]
           /\ CrcOfARecord'
  <1>1. i \in Body /\ i # CrcWord /\ buf \in BootConfig_t
    BY Geometry DEF StoreInv, Phase, TypeOK
  <1>2. buf[i] \in Word
    BY <1>1, RecordWords
  <1>3. sector[i] = Erased /\ sector[CrcWord] = Erased
    BY <1>1, WordsAssumption DEF StoreInv, BlankFromHere, Body, CrcWord
  <1>4. Programmed(sector[i], buf[i]) = buf[i]
    BY <1>3 DEF Programmed
  <1>5. left \in Content
    BY <1>2, <1>3, <1>4 DEF Content
  <1>6. sector' \in [Cells -> Content \cup Crc] /\ \A c \in Body : sector'[c] \in Content
    BY <1>1, <1>5, Geometry DEF StoreInv, TypeOK
  <1>7. sector'[CrcWord] = Erased
    BY <1>1, <1>3, Geometry DEF StoreInv, TypeOK
  <1> QED
    BY <1>4, <1>6, <1>7, NoCrcNoRecord

\* Programming the blank CRC word after the whole body.
LEMMA CrcProgrammed ==
    ASSUME StoreInv, pc = "crc",
           NEW left \in {sector[CrcWord], Garbage, Programmed(sector[CrcWord], crc32(buf))},
           sector' = [sector EXCEPT ![CrcWord] = left]
    PROVE  /\ sector' \in [Cells -> Content \cup Crc]
           /\ \A c \in Body : sector'[c] = buf[c] /\ sector'[c] = sector[c]
           /\ sector[CrcWord] = Erased
           /\ sector'[CrcWord] = left /\ left \in {Erased, Garbage, crc32(buf)}
           /\ Programmed(sector[CrcWord], crc32(buf)) = crc32(buf)
           /\ crc32(buf) \in Crc
           /\ CrcOfARecord'
  <1>1. i = CrcWord /\ buf \in BootConfig_t
    BY DEF StoreInv, Phase, TypeOK
  <1>2. sector[CrcWord] = Erased
    BY <1>1, WordsAssumption DEF StoreInv, BlankFromHere, CrcWord
  <1>3. Programmed(sector[CrcWord], crc32(buf)) = crc32(buf) /\ crc32(buf) \in Crc
    BY <1>1, <1>2, RecordWords DEF Programmed
  <1>4. left \in {Erased, Garbage, crc32(buf)}
    BY <1>2, <1>3
  <1>5. /\ sector' \in [Cells -> Content \cup Crc]
        /\ sector'[CrcWord] = left
        /\ \A c \in Body : sector'[c] = sector[c]
    BY <1>3, <1>4, Geometry DEF StoreInv, TypeOK, Content
  <1>6. \A c \in Body : sector[c] = buf[c]
    BY <1>1, WordsAssumption DEF StoreInv, WrittenSoFar, Body, CrcWord
  <1>7. CrcOfARecord'
    BY <1>1, <1>4, <1>5, <1>6 DEF CrcOfARecord, CrcWord
  <1> QED
    BY <1>2, <1>3, <1>4, <1>5, <1>6, <1>7

LEMMA InitInv == Init => StoreInv
  <1> SUFFICES ASSUME Init PROVE StoreInv
    OBVIOUS
  <1>1. CASE sector = [c \in Cells |-> Erased]
    <2>1. TypeOK
      BY <1>1, Geometry, StoreFaultsAssumption, WordsAssumption
      DEF Init, TypeOK, Content, CrcWord
    <2> QED
      BY <1>1, <2>1, Geometry, SpecialsAssumption
      DEF Init, StoreInv, Phase, WrittenSoFar, BlankFromHere, CrcOfARecord
  <1>2. ASSUME NEW body \in BootConfig_t,
               sector = [c \in Cells |-> IF c = CrcWord THEN crc32(body) ELSE body[c]]
        PROVE  StoreInv
    <2>1. sector[CrcWord] = crc32(body) /\ \A c \in Body : sector[c] = body[c]
      BY <1>2, Geometry
    <2>2. crc32(body) \in Crc /\ \A c \in Body : body[c] \in Content
      BY RecordWords DEF Content
    <2>3. sector \in [Cells -> Content \cup Crc]
      BY <1>2, <2>2, Geometry
    <2>4. TypeOK
      BY <2>1, <2>2, <2>3, StoreFaultsAssumption, WordsAssumption
      DEF Init, TypeOK, CrcWord
    <2>5. CrcOfARecord
      BY <2>1 DEF CrcOfARecord
    <2> QED
      BY <2>4, <2>5, SpecialsAssumption
      DEF Init, StoreInv, Phase, WrittenSoFar, BlankFromHere
  <1> QED
    BY <1>1, <1>2 DEF Init

LEMMA FaultKeepsType ==
    ASSUME TypeOK, NEW kind, Fault(kind) PROVE faults' \in 0 .. MaxFaults
  BY StoreFaultsAssumption DEF Fault, TypeOK

LEMMA SavePreserves ==
    ASSUME StoreInv, NEW record \in BootConfig_t, Save(record) PROVE StoreInv'
  BY WordsAssumption, SpecialsAssumption, RecordWords
  DEF Save, StoreInv, TypeOK, Phase, WrittenSoFar, BlankFromHere, CrcOfARecord,
      CrcWord, Body

LEMMA ErasePreserves == ASSUME StoreInv, EraseStep PROVE StoreInv'
  <1>1. CASE /\ pc = "erase"
             /\ sector' = [c \in Cells |-> Erased]
             /\ pc' = "body"
             /\ UNCHANGED <<buf, i, result, faults>>
    <2>1. TypeOK'
      BY <1>1, Geometry DEF StoreInv, TypeOK, Content, CrcWord, Cells, Body
    <2>2. Phase' /\ WrittenSoFar' /\ BlankFromHere'
      BY <1>1, Geometry DEF StoreInv, Phase, WrittenSoFar, BlankFromHere, Body, Cells, CrcWord
    <2>3. CrcOfARecord'
      BY <1>1, Geometry, NoCrcNoRecord
    <2> QED
      BY <2>1, <2>2, <2>3 DEF StoreInv
  <1>2. CASE pc = "erase" /\ Fault("flash") /\ HalfErased /\ Returns(FALSE)
    <2>1. faults' \in 0 .. MaxFaults
      BY <1>2, FaultKeepsType DEF StoreInv
    <2>2. TypeOK' /\ CrcOfARecord'
      BY <1>2, <2>1, HalfErasedKeeps, IndexBounds DEF StoreInv, TypeOK, Returns
    <2>3. Phase' /\ WrittenSoFar' /\ BlankFromHere'
      BY <1>2 DEF Returns, Phase, WrittenSoFar, BlankFromHere, Body
    <2> QED
      BY <2>2, <2>3 DEF StoreInv
  <1> QED
    BY <1>1, <1>2 DEF EraseStep

LEMMA BodyPreserves == ASSUME StoreInv, BodyStep PROVE StoreInv'
  <1> USE DEF StoreInv
  <1>1. pc = "body" /\ i \in Body /\ i' = IF pc' = "idle" THEN 1 ELSE i + 1
    BY DEF BodyStep, Phase
  <1>2. CASE /\ sector' = [sector EXCEPT ![i] = Programmed(@, buf[i])]
             /\ pc' = IF i = BodyWords THEN "crc" ELSE "body"
             /\ UNCHANGED <<buf, result, faults>>
    <2>1. /\ sector' \in [Cells -> Content \cup Crc]
          /\ \A c \in Body : sector'[c] \in Content
          /\ sector'[CrcWord] = Erased
          /\ sector'[i] = buf[i]
          /\ CrcOfARecord'
      BY <1>1, <1>2, BodyProgrammed, Geometry DEF TypeOK
    <2>2. i' = i + 1
      BY <1>1, <1>2
    <2>3. TypeOK'
      BY <1>1, <1>2, <2>1, <2>2, IndexBounds DEF TypeOK
    <2>4. \A c \in Cells : c # i => sector'[c] = sector[c]
      BY <1>2 DEF TypeOK
    <2>5. Phase'
      BY <1>1, <1>2, <2>2, WordsAssumption DEF Phase, CrcWord, Body
    <2>6. WrittenSoFar'
      <3>1. ASSUME NEW c \in Body, c < i' PROVE sector'[c] = buf'[c]
        BY <1>1, <1>2, <2>1, <2>2, <2>4, <3>1, Geometry DEF WrittenSoFar, Body
      <3> QED
        BY <1>2, <3>1 DEF WrittenSoFar, Body
    <2>7. BlankFromHere'
      BY <1>1, <2>2, <2>4, WordsAssumption DEF BlankFromHere, CrcWord, Cells, Body
    <2> QED
      BY <2>1, <2>3, <2>5, <2>6, <2>7
  <1>3. Fault("flash") => faults' \in 0 .. MaxFaults
    BY FaultKeepsType
  <1>4. CASE pc' = "idle" /\ buf' = NoSave /\ result' = FALSE /\ Fault("flash")
             /\ HalfProgrammed(i, buf[i])
    <2>1. /\ sector' \in [Cells -> Content \cup Crc]
          /\ \A c \in Body : sector'[c] \in Content
          /\ sector'[CrcWord] = Erased
          /\ CrcOfARecord'
      BY <1>1, <1>4, BodyProgrammed DEF HalfProgrammed
    <2>2. TypeOK'
      BY <1>1, <1>4, <2>1, <1>3, IndexBounds DEF TypeOK
    <2> QED
      BY <1>1, <1>4, <2>1, <2>2 DEF Phase, WrittenSoFar, BlankFromHere, Body
  <1>5. sector' = [sector EXCEPT ![i] = Programmed(@, buf[i])] => sector'[i] = buf[i]
    BY <1>1, BodyProgrammed, Geometry DEF TypeOK
  <1> QED
    BY <1>1, <1>2, <1>4, <1>5 DEF BodyStep, ProgramStep

LEMMA CrcPreserves == ASSUME StoreInv, CrcStep PROVE StoreInv'
  <1> USE DEF StoreInv
  <1>1. pc = "crc" /\ i = CrcWord /\ i' = IF pc' = "idle" THEN 1 ELSE i
    BY DEF CrcStep, Phase
  <1>2. CASE /\ sector' = [sector EXCEPT ![CrcWord] = Programmed(@, crc32(buf))]
             /\ pc' = "readback"
             /\ UNCHANGED <<buf, result, faults>>
    <2>1. /\ sector' \in [Cells -> Content \cup Crc]
          /\ \A c \in Body : sector'[c] = sector[c] /\ sector'[c] = buf[c]
          /\ sector'[CrcWord] = crc32(buf) /\ crc32(buf) \in Crc
          /\ CrcOfARecord'
      BY <1>1, <1>2, CrcProgrammed
    <2>2. TypeOK'
      BY <1>1, <1>2, <2>1 DEF TypeOK, CrcWord, Cells, Body
    <2>3. Phase' /\ WrittenSoFar' /\ BlankFromHere'
      BY <1>1, <1>2, <2>1 DEF Phase, WrittenSoFar, BlankFromHere, CrcWord, Body
    <2> QED
      BY <2>1, <2>2, <2>3
  <1>3. Fault("flash") => faults' \in 0 .. MaxFaults
    BY FaultKeepsType
  <1>4. CASE pc' = "idle" /\ buf' = NoSave /\ result' = FALSE /\ Fault("flash")
             /\ HalfProgrammed(CrcWord, crc32(buf))
    <2>1. /\ sector' \in [Cells -> Content \cup Crc]
          /\ \A c \in Body : sector'[c] = sector[c]
          /\ sector'[CrcWord] \in Crc \cup {Erased, Garbage}
          /\ CrcOfARecord'
      BY <1>1, <1>4, CrcProgrammed DEF HalfProgrammed
    <2>2. TypeOK'
      BY <1>1, <1>4, <2>1, <1>3, IndexBounds DEF TypeOK
    <2> QED
      BY <1>1, <1>4, <2>1, <2>2 DEF Phase, WrittenSoFar, BlankFromHere, Body
  <1>5. sector' = [sector EXCEPT ![CrcWord] = Programmed(@, crc32(buf))]
           => sector'[CrcWord] = crc32(buf)
    BY <1>1, CrcProgrammed
  <1> QED
    BY <1>1, <1>2, <1>4, <1>5 DEF CrcStep, ProgramStep

LEMMA ReadbackPreserves == ASSUME StoreInv, ReadbackStep PROVE StoreInv'
  <1>1. /\ pc = "readback" /\ pc' = "idle" /\ buf' = NoSave /\ i' = 1
        /\ result' \in BOOLEAN /\ sector' = sector /\ faults' = faults
    BY DEF ReadbackStep, Returns
  <1> QED
    BY <1>1, WordsAssumption
    DEF StoreInv, TypeOK, Phase, WrittenSoFar, BlankFromHere, CrcOfARecord,
        CrcWord, Cells, Body

LEMMA ResetPreserves == ASSUME StoreInv, Reset PROVE StoreInv'
  <1>1. pc' = "idle" /\ buf' = NoSave /\ i' = 1 /\ result' = NoResult
        /\ faults' \in 0 .. MaxFaults
    BY FaultKeepsType DEF Reset, StoreInv
  <1>2. /\ sector' \in [Cells -> Content \cup Crc]
        /\ \A c \in Body : sector'[c] \in Content
        /\ sector'[CrcWord] \in Crc \cup {Erased, Garbage}
        /\ CrcOfARecord'
    <2>1. CASE UNCHANGED sector
      BY <2>1 DEF StoreInv, TypeOK, CrcOfARecord, CrcWord, Body, Cells, Content, Crc
    <2>2. CASE HalfErased
      BY <2>2, HalfErasedKeeps DEF StoreInv
    <2>3. CASE pc = "body" /\ HalfProgrammed(i, buf[i])
      BY <2>3, BodyProgrammed DEF HalfProgrammed
    <2>4. CASE pc = "crc" /\ HalfProgrammed(CrcWord, crc32(buf))
      BY <2>4, CrcProgrammed DEF HalfProgrammed, StoreInv, TypeOK
    <2> QED
      BY <2>1, <2>2, <2>3, <2>4 DEF Reset
  <1>3. TypeOK'
    BY <1>1, <1>2, WordsAssumption DEF TypeOK, CrcWord, Cells, Body
  <1> QED
    BY <1>1, <1>2, <1>3 DEF StoreInv, Phase, WrittenSoFar, BlankFromHere, Body

LEMMA NextPreserves == ASSUME StoreInv, [Next]_vars PROVE StoreInv'
  <1>1. CASE UNCHANGED vars
    BY <1>1 DEF vars, StoreInv, TypeOK, Phase, WrittenSoFar, BlankFromHere, CrcOfARecord
  <1> QED
    BY <1>1, SavePreserves, ErasePreserves, BodyPreserves, CrcPreserves,
       ReadbackPreserves, ResetPreserves DEF Next, SaveSteps

\* StoreInv: when a save programs a word the word is blank, what it has
\* programmed is the new record, and the CRC word belongs to a record that
\* nothing but an erase has touched since.
THEOREM StoreCorrect == Spec => []StoreInv
  <1>1. Init => StoreInv
    BY InitInv
  <1>2. StoreInv /\ [Next]_vars => StoreInv'
    BY NextPreserves
  <1> QED
    BY <1>1, <1>2, PTL DEF Spec

-----------------------------------------------------------------------------
(* Refinement.                                                             *)

\* boot_config_load() finds a record only under its own CRC.
LEMMA StoredIs ==
    ASSUME StoreInv
    PROVE  /\ Stored = Torn \/ (Valid /\ Stored = StoredBody)
           /\ sector[CrcWord] \in {Erased, Garbage} => Stored = Torn
           /\ Valid => Stored \in BootConfig_t
  <1>1. Stored = Torn \/ (Valid /\ Stored = StoredBody)
    BY DEF Stored
  <1>2. StoredBody \in [Body -> Content]
    BY DEF StoreInv, TypeOK, StoredBody
  <1>3. Valid => sector[CrcWord] \notin {Erased, Garbage}
    BY <1>2, SpecialsAssumption DEF Valid, Crc
  <1>4. ASSUME Valid PROVE Stored \in BootConfig_t
    <2>1. PICK r \in BootConfig_t : sector[CrcWord] = crc32(r)
      BY <1>3, <1>4 DEF StoreInv, CrcOfARecord
    <2> QED
      BY <1>4, <2>1, CrcInjective DEF Valid, Stored
  <1> QED
    BY <1>1, <1>3, <1>4 DEF Stored

\* An erase that stops half way leaves the record or none.
LEMMA HalfErasedStored ==
    ASSUME StoreInv, HalfErased PROVE Stored' \in {Stored, Torn}
  <1> SUFFICES ASSUME Valid' PROVE Stored' = Stored
    BY DEF Stored
  <1>1. /\ \A c \in Cells : sector'[c] \in {sector[c], Erased, Garbage}
        /\ \A c \in Body : sector'[c] \in Content
    BY HalfErasedKeeps DEF StoreInv
  <1>2. sector'[CrcWord] = crc32(StoredBody') /\ StoredBody' \in [Body -> Content]
    BY <1>1 DEF Valid, StoredBody, CrcWord, Body, Content
  <1>3. sector'[CrcWord] = sector[CrcWord] /\ sector[CrcWord] \notin {Erased, Garbage}
    BY <1>1, <1>2, Geometry, SpecialsAssumption DEF Crc
  <1>4. PICK r \in BootConfig_t :
           /\ sector[CrcWord] = crc32(r)
           /\ \A c \in Body : sector[c] \in {r[c], Erased, Garbage}
    BY <1>3 DEF StoreInv, CrcOfARecord
  <1>5. StoredBody' = r
    BY <1>2, <1>3, <1>4, CrcInjective
  <1>6. \A c \in Body : sector'[c] = r[c]
    BY <1>5 DEF StoredBody, Body
  <1>7. \A c \in Body : sector[c] = r[c]
    BY <1>1, <1>4, <1>6, Geometry, RecordWords
  <1>8. StoredBody = r
    BY <1>4, <1>7, RecordWords DEF StoredBody
  <1>9. Valid
    BY <1>4, <1>7, <1>8, Geometry, RecordWords DEF Valid
  <1> QED
    BY <1>5, <1>8, <1>9 DEF Stored

\* Until the CRC word is programmed there is no record.
LEMMA BodyStored ==
    ASSUME StoreInv, StoreInv', pc = "body",
           NEW left \in {sector[i], Garbage, Programmed(sector[i], buf[i])},
           sector' = [sector EXCEPT ![i] = left]
    PROVE  Stored = Torn /\ Stored' = Torn
  <1>1. sector[CrcWord] = Erased
    BY WordsAssumption DEF StoreInv, Phase, BlankFromHere, CrcWord, Body
  <1>2. sector'[CrcWord] = Erased
    BY BodyProgrammed
  <1>3. StoredBody' \in [Body -> Content]
    BY BodyProgrammed DEF StoredBody, Body, Content
  <1>4. ~Valid'
    BY <1>2, <1>3, SpecialsAssumption DEF Valid, Crc, CrcWord
  <1> QED
    BY <1>1, <1>4, StoredIs DEF Stored

\* The CRC word makes the new record of no record, or leaves none.
LEMMA CrcStored ==
    ASSUME StoreInv, pc = "crc",
           NEW left \in {sector[CrcWord], Garbage, Programmed(sector[CrcWord], crc32(buf))},
           sector' = [sector EXCEPT ![CrcWord] = left]
    PROVE  /\ Stored = Torn
           /\ left = crc32(buf) => Stored' = buf
           /\ Stored' \in {Torn, buf}
  <1>1. Stored = Torn
    BY CrcProgrammed, StoredIs
  <1>2. buf \in BootConfig_t /\ buf \in [Body -> Word] /\ buf[BodyWords] = Magic
    BY RecordWords DEF StoreInv, TypeOK, Phase
  <1>3. StoredBody' = buf
    BY <1>2, CrcProgrammed DEF StoredBody, Body
  <1>4. sector'[BodyWords] = Magic
    BY <1>2, CrcProgrammed, Geometry
  <1>5. Valid' = (left = crc32(buf))
    BY <1>3, <1>4, CrcProgrammed DEF Valid, CrcWord
  <1> QED
    BY <1>1, <1>3, <1>5 DEF Stored

LEMMA SameSectorSameStored == ASSUME UNCHANGED sector PROVE Stored' = Stored
  BY DEF Stored, Valid, StoredBody, Body, CrcWord, crc32

LEMMA InitMaps == Init => Register!Init
  <1> SUFFICES ASSUME Init PROVE Register!Init
    OBVIOUS
  <1>1. Stored \in BootConfig_t \cup {Torn}
    BY InitInv, StoredIs
  <1> QED
    BY <1>1 DEF Init, Register!Init

LEMMA StepMaps ==
    ASSUME StoreInv, StoreInv', Next PROVE [Register!Next]_Register!vars
  <1> USE DEF Register!Next, Register!vars
  <1>1. ASSUME NEW record \in BootConfig_t, Save(record) PROVE Register!Begin(record)
    BY <1>1, SameSectorSameStored DEF Save, StoreInv, Phase, Register!Begin
  <1>2. ASSUME EraseStep PROVE Register!Progress \/ Register!Return(FALSE)
    <2>1. pc = "erase" /\ buf # NoSave
      BY <1>2 DEF EraseStep, StoreInv, Phase
    <2>2. CASE sector' = [c \in Cells |-> Erased] /\ UNCHANGED <<buf, i, result, faults>>
      <3>1. Stored' = Torn
        BY <2>2, Geometry, WordsAssumption, SpecialsAssumption DEF Stored, Valid
      <3> QED
        BY <2>1, <2>2, <3>1 DEF Register!Progress, Register!Lose
    <2>3. CASE HalfErased /\ Returns(FALSE)
      BY <2>1, <2>3, HalfErasedStored DEF Returns, Register!Return, Register!Lose
    <2> QED
      BY <1>2, <2>2, <2>3 DEF EraseStep
  <1>3. ASSUME BodyStep PROVE UNCHANGED Register!vars \/ Register!Return(FALSE)
    <2>1. pc = "body" /\ buf # NoSave
      BY <1>3 DEF BodyStep, StoreInv, Phase
    <2>2. Stored' = Stored
      BY <1>3, <2>1, BodyStored DEF BodyStep, ProgramStep, HalfProgrammed
    <2> QED
      BY <1>3, <2>1, <2>2 DEF BodyStep, ProgramStep, Register!Return
  <1>4. ASSUME CrcStep PROVE Register!Progress \/ Register!Return(FALSE)
    <2>1. pc = "crc" /\ buf # NoSave
      BY <1>4 DEF CrcStep, StoreInv, Phase
    <2>2. Stored = Torn /\ Stored' \in {Torn, buf}
      BY <1>4, <2>1, CrcStored DEF CrcStep, ProgramStep, HalfProgrammed
    <2>3. CASE UNCHANGED <<buf, result>>
      BY <2>1, <2>2, <2>3 DEF Register!Progress, Register!Lose, Register!Store
    <2>4. CASE buf' = NoSave /\ result' = FALSE
      BY <2>1, <2>2, <2>4 DEF Register!Return, Register!Store
    <2> QED
      BY <1>4, <2>3, <2>4 DEF CrcStep, ProgramStep
  <1>5. ASSUME ReadbackStep PROVE Register!Return(TRUE)
    <2>1. pc = "readback" /\ buf \in BootConfig_t /\ buf # NoSave
      BY <1>5 DEF ReadbackStep, StoreInv, Phase, TypeOK
    <2>2. \A c \in Body : sector[c] = buf[c]
      BY <2>1, WordsAssumption DEF StoreInv, WrittenSoFar, Phase, CrcWord, Body
    <2>3. StoredBody = buf /\ sector[CrcWord] = crc32(buf) /\ buf[BodyWords] = Magic
      BY <2>1, <2>2, RecordWords DEF StoredBody, StoreInv, WrittenSoFar
    <2>4. Stored = buf
      BY <2>2, <2>3, Geometry DEF Stored, Valid
    <2> QED
      BY <1>5, <2>1, <2>3, <2>4, SameSectorSameStored
      DEF ReadbackStep, Returns, Register!Return
  <1>6. ASSUME Reset PROVE Register!Reset
    <2>1. Stored' = Stored \/ (buf # NoSave /\ Stored' = Torn)
             \/ (buf # NoSave /\ Stored = Torn /\ Stored' = buf)
      <3>1. CASE UNCHANGED sector
        BY <3>1, SameSectorSameStored
      <3>2. CASE pc = "erase" /\ HalfErased
        BY <3>2, HalfErasedStored DEF StoreInv, Phase
      <3>3. CASE pc = "body" /\ HalfProgrammed(i, buf[i])
        BY <3>3, BodyStored DEF HalfProgrammed
      <3>4. CASE pc = "crc" /\ HalfProgrammed(CrcWord, crc32(buf))
        BY <3>4, CrcStored DEF HalfProgrammed, StoreInv, Phase
      <3> QED
        BY <1>6, <3>1, <3>2, <3>3, <3>4 DEF Reset
    <2> QED
      BY <1>6, <2>1 DEF Reset, Register!Reset, Register!Lose, Register!Store
  <1> QED
    BY <1>1, <1>2, <1>3, <1>4, <1>5, <1>6 DEF Next, SaveSteps

\* ImplementsRegister: whatever resets and failures come, boot_config_load()
\* finds the record of the last save that got through or none, and a save that
\* returned true is what it finds.
THEOREM StoreIsRegister == Spec => ImplementsRegister
  <1>1. Init => Register!Init
    BY InitMaps
  <1>2. StoreInv /\ StoreInv' /\ [Next]_vars => [Register!Next]_Register!vars
    <2>1. CASE UNCHANGED vars
      BY <2>1, SameSectorSameStored DEF vars, Register!vars
    <2> QED
      BY <2>1, StepMaps
  <1> QED
    BY <1>1, <1>2, StoreCorrect, PTL DEF Spec, ImplementsRegister, Register!Spec
=============================================================================
