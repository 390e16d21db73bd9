--------------------------- MODULE DeltaPatchProofs ---------------------------
(***************************************************************************)
(* The tail of the slot and the image in front of it, for every slot size, *)
(* every set of files and every number of failures.                        *)
(***************************************************************************)
EXTENDS DeltaPatch, TLAPS

-----------------------------------------------------------------------------
(* The inductive invariant.                                                *)

\* What START and START_DELTA have accepted fits.
Accepted(f) == IF f.kind = "DELTA" THEN AcceptsDelta(f) ELSE InRange(f.len)

Transfer ==
    /\ g_state.active => Accepted(g_state.file)
    /\ g_state.active /\ host # NoFile => host = g_state.file
    /\ step # "frames" => /\ host # NoFile /\ g_state.active
                          /\ g_state.written = g_state.file.len

\* END reads a sound patch, and has written the image as far as it is made.
Patching ==
    /\ step \in {"open", "unpack", "patch"} => g_state.file.kind = "DELTA"
    /\ step = "open" => stream = NoStream /\ L = 0
    /\ step \in {"unpack", "patch"} => /\ stream.sound
                                      /\ g_state.file.newSize = g_state.file.newTotal
                                      /\ L = stream.made /\ L <= g_state.file.newTotal

\* A cell is blank, or holds what is to be programmed into it, or a part.
Ready(p, new) == slot[p] \in {Erased, new, [new EXCEPT !.whole = FALSE]}

\* The two parts of the slot, while the host goes on with the transfer.
Tail(f) ==
    f.kind = "DELTA" =>
        \A i \in 1 .. f.len : /\ Ready(patch_tail_base(f) + i, Sent(f, i, TRUE))
                              /\ i <= g_state.written => HoldsPatch(f, i)
Front(f) ==
    IF f.kind = "DELTA"
    THEN \A i \in 1 .. f.newTotal : Ready(i, Made(f, i, TRUE))
    ELSE \A i \in 1 .. f.len : Ready(i, Sent(f, i, TRUE))

SlotInv == host # NoFile /\ g_state.active => Tail(g_state.file) /\ Front(g_state.file)

DeltaInv == TypeOK /\ Transfer /\ Patching /\ SlotInv /\ NothingSpoilt

-----------------------------------------------------------------------------
(* Files, places and cells.                                                *)

LEMMA FileFacts ==
    ASSUME NEW f \in Files
    PROVE  f.kind \in {"FULL", "DELTA"} /\ f.len \in Nat /\ f.newTotal \in Nat
           /\ f.newSize \in Nat
  BY FilesAssumption DEF File

\* The patch lies behind the image that it makes.
LEMMA Apart ==
    ASSUME NEW f \in Files, Accepted(f), f.kind = "DELTA"
    PROVE  /\ \A i \in 1 .. f.len : /\ patch_tail_base(f) + i \in Places
                                    /\ patch_tail_base(f) + i > f.newTotal
           /\ \A i \in 1 .. f.newTotal : i \in Places
           /\ f.len <= Span /\ f.newTotal <= Span
  BY FileFacts, SpanAssumption DEF Accepted, AcceptsDelta, InRange, patch_tail_base, Places

LEMMA Within ==
    ASSUME NEW f \in Files, Accepted(f), f.kind # "DELTA"
    PROVE  f.len <= Span /\ \A i \in 1 .. f.len : i \in Places
  BY FileFacts, SpanAssumption DEF Accepted, InRange, Places

LEMMA Cells ==
    ASSUME NEW f \in Files, NEW i \in Places
    PROVE  /\ Sent(f, i, TRUE) \in Content /\ Made(f, i, TRUE) \in Content
           /\ Sent(f, i, TRUE).whole /\ Made(f, i, TRUE).whole
  BY DEF Sent, Made, Content

\* Programming a place that is ready for it spoils nothing, there or elsewhere.
LEMMA Programs ==
    ASSUME TypeOK, NothingSpoilt, NEW p \in Places, NEW new \in Content, new.whole,
           Ready(p, new), Program(p, new) \/ ProgramFails(p, new)
    PROVE  /\ slot' \in [Places -> Cell]
           /\ NothingSpoilt'
           /\ \A q \in Places : q # p => slot'[q] = slot[q]
           /\ slot'[p] \in {Erased, new, [new EXCEPT !.whole = FALSE]}
           /\ Program(p, new) \/ slot[p] = new => slot'[p] = new
  <1>1. [new EXCEPT !.whole = FALSE] \in Content
    BY DEF Content
  <1>2. new # Spoilt /\ [new EXCEPT !.whole = FALSE] # Spoilt /\ new # Erased
    BY <1>1, CellsAssumption
  <1>3. slot \in [Places -> Cell]
    BY DEF TypeOK
  <1>4. PICK c \in {slot[p], new, [new EXCEPT !.whole = FALSE]} :
           /\ slot' = [slot EXCEPT ![p] = c]
           /\ Program(p, new) \/ slot[p] = new => c = new
    <2>1. CASE Program(p, new)
      BY <2>1 DEF Program, Ready
    <2>2. CASE ~Program(p, new) /\ UNCHANGED slot
      BY <1>3, <2>2
    <2>3. CASE ~Program(p, new) /\ slot[p] = Erased
               /\ slot' = [slot EXCEPT ![p] = [new EXCEPT !.whole = FALSE]]
      BY <1>2, <2>3
    <2> QED
      BY <2>1, <2>2, <2>3 DEF ProgramFails
  <1>5. c \in {Erased, new, [new EXCEPT !.whole = FALSE]} /\ c \in Cell /\ c # Spoilt
    BY <1>1, <1>2, <1>3, <1>4, CellsAssumption DEF Ready, Cell
  <1> QED
    BY <1>3, <1>4, <1>5 DEF NothingSpoilt

LEMMA FaultKeepsType ==
    ASSUME TypeOK, NEW kind, Fault(kind) PROVE faults' \in 0 .. MaxFaults
  BY DeltaFaultsAssumption DEF Fault, TypeOK

-----------------------------------------------------------------------------
(* Each step keeps the invariant.                                          *)

LEMMA InitInv == Init => DeltaInv
  BY SpanAssumption, DeltaFaultsAssumption, CellsAssumption
  DEF Init, DeltaInv, TypeOK, Transfer, Patching, SlotInv, NothingSpoilt, Cleared,
      ota_state_t, NoStream, Cell

LEMMA StartPreserves ==
    ASSUME DeltaInv, NEW f \in Files, HandleStart(f) PROVE DeltaInv'
  <1> USE DEF DeltaInv
  <1>1. PICK upto \in 0 .. Span :
           /\ slot' = WipedTo(upto)
           /\ \/ ErasesFor(f, upto) /\ Started(f) /\ host' = f /\ UNCHANGED faults
              \/ Fault("flash") /\ UNCHANGED g_state /\ host' = NoFile
    BY DEF HandleStart
  <1>2. step = "frames" /\ Accepted(f) /\ pushes' \in 0 .. MaxPushes
        /\ UNCHANGED <<step, stream, L, installed>>
    BY DeltaFaultsAssumption DEF HandleStart, Accepted, TypeOK
  <1>3. slot' \in [Places -> Cell] /\ NothingSpoilt'
    BY <1>1, CellsAssumption DEF TypeOK, NothingSpoilt, WipedTo, Cell
  <1>4. Patching'
    BY <1>2 DEF Patching
  <1>5. CASE Fault("flash") /\ UNCHANGED g_state /\ host' = NoFile
    <2>1. TypeOK'
      <3>1. faults' \in 0 .. MaxFaults
        BY <1>5, FaultKeepsType
      <3> QED
        BY <1>2, <1>3, <1>5, <3>1 DEF TypeOK
    <2> QED
      BY <1>2, <1>3, <1>4, <1>5, <2>1 DEF Transfer, SlotInv
  <1>6. CASE ErasesFor(f, upto) /\ Started(f) /\ host' = f /\ UNCHANGED faults
    <2>1. f # NoFile /\ f.len \in Nat /\ f.len <= Span
      BY <1>2, FilesAssumption, FileFacts, Apart, Within
    <2>2. TypeOK'
      BY <1>2, <1>3, <1>6, <2>1, SpanAssumption DEF TypeOK, Started, ota_state_t
    <2>3. Transfer'
      BY <1>2, <1>6 DEF Transfer, Started
    <2>4. Tail(f)' /\ Front(f)'
      <3>1. CASE f.kind = "DELTA"
        <4>1. \A p \in Places : slot'[p] = Erased
          BY <1>1, <1>6, <3>1, FileFacts DEF ErasesFor, WipedTo, Places
        <4>2. g_state'.written = 0
          BY <1>6 DEF Started
        <4>3. \A i \in 1 .. f.len : ~(i <= 0)
          BY FileFacts
        <4>4. Tail(f)'
          BY <1>2, <3>1, <4>1, <4>2, <4>3, Apart DEF Tail, Ready, HoldsPatch, patch_tail_base
        <4>5. Front(f)'
          BY <1>2, <3>1, <4>1, Apart DEF Front, Ready
        <4> QED
          BY <4>4, <4>5
      <3>2. CASE f.kind # "DELTA"
        <4>1. \A p \in 1 .. f.len : slot'[p] = Erased
          BY <1>1, <1>2, <1>6, <2>1, <3>2, FileFacts, Within DEF ErasesFor, WipedTo, Places
        <4> QED
          BY <3>2, <4>1 DEF Tail, Front, Ready
      <3> QED
        BY <3>1, <3>2
    <2> QED
      BY <1>3, <1>4, <1>6, <2>2, <2>3, <2>4 DEF SlotInv, Started
  <1> QED
    BY <1>1, <1>5, <1>6

LEMMA DataPreserves == ASSUME DeltaInv, HandleData PROVE DeltaInv'
  <1> USE DEF DeltaInv
  <1> DEFINE f    == g_state.file
             n    == g_state.written + 1
             dest == IF f.kind = "DELTA" THEN patch_tail_base(f) + n ELSE n
             new  == Sent(f, n, TRUE)
  <1>1. /\ step = "frames" /\ host # NoFile /\ g_state.active
        /\ n <= f.len
        /\ \/ Program(dest, new) /\ g_state' = [g_state EXCEPT !.written = n]
              /\ UNCHANGED faults
           \/ ProgramFails(dest, new) /\ Fault("flash") /\ UNCHANGED g_state
        /\ UNCHANGED <<host, step, stream, L, installed, pushes>>
    BY DEF HandleData, Fits
  <1>2. f \in Files /\ Accepted(f) /\ g_state.written \in 0 .. Span /\ n \in 1 .. f.len
        /\ f.len \in Nat /\ f.newTotal \in Nat
    BY <1>1, FileFacts DEF TypeOK, Transfer, ota_state_t
  <1>3. dest \in Places /\ n \in Places
    BY <1>2, Apart, Within, SpanAssumption DEF Places
  <1>4. new \in Content /\ new.whole
    BY <1>2, <1>3, Cells
  <1>5. Ready(dest, new)
    BY <1>1, <1>2 DEF SlotInv, Tail, Front
  <1>6. /\ slot' \in [Places -> Cell] /\ NothingSpoilt'
        /\ \A q \in Places : q # dest => slot'[q] = slot[q]
        /\ slot'[dest] \in {Erased, new, [new EXCEPT !.whole = FALSE]}
        /\ Program(dest, new) \/ slot[dest] = new => slot'[dest] = new
    <2> HIDE DEF f, n, dest, new
    <2> QED
      BY <1>1, <1>3, <1>4, <1>5, Programs
  <1>7. /\ g_state' \in ota_state_t /\ g_state'.active /\ g_state'.file = f
        /\ g_state'.written <= f.len
        /\ \/ g_state'.written = g_state.written
           \/ g_state'.written = n /\ slot'[dest] = new
    <2>1. g_state \in ota_state_t /\ n \in 0 .. Span /\ g_state.written <= f.len
      BY <1>1, <1>3 DEF TypeOK, Places
    <2>2. CASE Program(dest, new) /\ g_state' = [g_state EXCEPT !.written = n]
      <3> HIDE DEF n, dest, new
      <3>1. slot'[dest] = new
        BY <1>6, <2>2
      <3> QED
        BY <1>1, <2>1, <2>2, <3>1 DEF ota_state_t
    <2>3. CASE UNCHANGED g_state
      BY <1>1, <2>1, <2>3
    <2> QED
      BY <1>1, <2>2, <2>3
  <1>8. TypeOK'
    <2>1. faults' \in 0 .. MaxFaults
      BY <1>1, FaultKeepsType DEF TypeOK
    <2> QED
      BY <1>1, <1>2, <1>6, <1>7, <2>1 DEF TypeOK
  <1>9. Transfer' /\ Patching'
    BY <1>1, <1>7 DEF Transfer, Patching
  <1>10. Tail(f)'
    <2> SUFFICES ASSUME f.kind = "DELTA", NEW i \in 1 .. f.len
                 PROVE  /\ slot'[patch_tail_base(f) + i]
                              \in {Erased, Sent(f, i, TRUE),
                                   [Sent(f, i, TRUE) EXCEPT !.whole = FALSE]}
                        /\ i <= g_state'.written =>
                              slot'[patch_tail_base(f) + i] = Sent(f, i, TRUE)
      BY <1>7 DEF Tail, Ready, HoldsPatch, patch_tail_base
    <2>1. patch_tail_base(f) + i \in Places /\ patch_tail_base(f) \in Int
      BY <1>2, Apart, SpanAssumption DEF patch_tail_base
    <2>2. /\ Ready(patch_tail_base(f) + i, Sent(f, i, TRUE))
          /\ i <= g_state.written => HoldsPatch(f, i)
      BY <1>1 DEF SlotInv, Tail
    <2>3. CASE i = n
      <3>1. dest = patch_tail_base(f) + i /\ new = Sent(f, i, TRUE)
        BY <2>3
      <3>2. i <= g_state'.written => slot'[dest] = new
        <4> HIDE DEF f, dest, new
        <4> QED
          BY <1>2, <1>7, <2>3
      <3> QED
        BY <1>6, <3>1, <3>2
    <2>4. CASE i # n
      <3>1. slot'[patch_tail_base(f) + i] = slot[patch_tail_base(f) + i]
        BY <1>2, <1>6, <2>1, <2>4
      <3>2. i <= g_state'.written => i <= g_state.written
        <4> HIDE DEF f, dest, new
        <4> QED
          BY <1>2, <1>7, <2>4
      <3> QED
        BY <2>2, <3>1, <3>2 DEF Ready, HoldsPatch
    <2> QED
      BY <2>3, <2>4
  <1>11. Front(f)'
    <2>1. CASE f.kind = "DELTA"
      <3>1. \A i \in 1 .. f.newTotal : slot'[i] = slot[i]
        BY <1>2, <1>6, <2>1, Apart
      <3>2. \A i \in 1 .. f.newTotal : Ready(i, Made(f, i, TRUE))
        BY <1>1, <2>1 DEF SlotInv, Front
      <3>3. \A i \in 1 .. f.newTotal :
               slot'[i] \in {Erased, Made(f, i, TRUE), [Made(f, i, TRUE) EXCEPT !.whole = FALSE]}
        BY <3>1, <3>2 DEF Ready
      <3> QED
        BY <1>7, <2>1, <3>3 DEF Front, Ready
    <2>2. CASE f.kind # "DELTA"
      <3>1. \A i \in 1 .. f.len : i # n => slot'[i] = slot[i]
        BY <1>2, <1>6, <2>2, Within
      <3>2. \A i \in 1 .. f.len : Ready(i, Sent(f, i, TRUE))
        BY <1>1, <2>2 DEF SlotInv, Front
      <3>3. \A i \in 1 .. f.len :
               slot'[i] \in {Erased, Sent(f, i, TRUE), [Sent(f, i, TRUE) EXCEPT !.whole = FALSE]}
        BY <1>6, <2>2, <3>1, <3>2 DEF Ready
      <3> QED
        BY <1>7, <2>2, <3>3 DEF Front, Ready
    <2> QED
      BY <2>1, <2>2
  <1> QED
    BY <1>6, <1>7, <1>8, <1>9, <1>10, <1>11 DEF SlotInv

LEMMA SlotKept ==
    ASSUME SlotInv, NothingSpoilt, UNCHANGED <<host, slot, g_state>>
    PROVE  SlotInv' /\ NothingSpoilt'
  BY DEF SlotInv, Tail, Front, Ready, HoldsPatch, patch_tail_base, Sent, Made, NothingSpoilt

LEMMA HandleEndPreserves == ASSUME DeltaInv, HandleEnd PROVE DeltaInv'
  <1> USE DEF DeltaInv
  <1>1. /\ step = "frames" /\ host # NoFile
        /\ g_state.active /\ g_state.written = g_state.file.len
        /\ step' = IF g_state.file.kind = "DELTA" THEN "open" ELSE "verify"
        /\ stream' = NoStream /\ L' = 0
        /\ UNCHANGED <<host, slot, g_state, installed, pushes, faults>>
    BY DEF HandleEnd, Complete
  <1>2. TypeOK'
    BY <1>1, SpanAssumption DEF TypeOK, NoStream
  <1>3. Transfer' /\ Patching'
    BY <1>1 DEF Transfer, Patching
  <1> QED
    BY <1>1, <1>2, <1>3, SlotKept

\* While END reads, the patch is there.
LEMMA ReadsSound ==
    ASSUME DeltaInv, step \in {"open", "unpack", "patch"}, stream.sound,
           NEW upto \in Places, ReadAhead(upto)
    PROVE  /\ stream' \in [pos : 0 .. Span, made : 0 .. Span, sound : BOOLEAN]
           /\ stream'.sound /\ stream'.made = stream.made
  <1>1. /\ stream \in [pos : 0 .. Span, made : 0 .. Span, sound : BOOLEAN]
        /\ g_state.file \in Files /\ g_state.file.len \in Nat
    BY FileFacts DEF DeltaInv, TypeOK, Transfer, ota_state_t
  <1>2. \A i \in 1 .. g_state.file.len : HoldsPatch(g_state.file, i)
    <2>1. /\ host # NoFile /\ g_state.active /\ g_state.file.kind = "DELTA"
          /\ g_state.written = g_state.file.len
      BY DEF DeltaInv, Transfer, Patching
    <2>2. Tail(g_state.file)
      BY <2>1 DEF DeltaInv, SlotInv
    <2>3. \A i \in 1 .. g_state.file.len : i <= g_state.written
      BY <1>1, <2>1
    <2> QED
      BY <2>1, <2>2, <2>3 DEF Tail
  <1>3. \A i \in stream.pos + 1 .. upto : i \in 1 .. g_state.file.len
    BY <1>1 DEF ReadAhead, Places
  <1>4. stream' = [stream EXCEPT !.pos = upto, !.sound = TRUE]
    BY <1>2, <1>3 DEF ReadAhead
  <1>5. upto \in 0 .. Span
    BY DEF Places
  <1>6. /\ stream'.pos = upto /\ stream'.made = stream.made /\ stream'.sound = TRUE
        /\ stream' \in [pos : 0 .. Span, made : 0 .. Span, sound : BOOLEAN]
    BY <1>1, <1>4, <1>5
  <1> QED
    BY <1>6

LEMMA OpenPreserves == ASSUME DeltaInv, Open PROVE DeltaInv'
  <1> USE DEF DeltaInv
  <1>1. /\ step = "open" /\ step' \in {"unpack", "frames"}
        /\ step' = "unpack" => g_state.file.newSize = g_state.file.newTotal
        /\ UNCHANGED <<host, slot, g_state, L, installed, pushes, faults>>
    BY DEF Open, EndFails
  <1>2. stream = NoStream /\ L = 0 /\ g_state.file.kind = "DELTA" /\ g_state.file \in Files
    BY <1>1 DEF Patching, Transfer, TypeOK, ota_state_t
  <1>3. /\ stream' \in [pos : 0 .. Span, made : 0 .. Span, sound : BOOLEAN]
        /\ stream'.sound /\ stream'.made = 0
    BY <1>1, <1>2, ReadsSound, SpanAssumption DEF Open, NoStream, Places
  <1>4. TypeOK'
    BY <1>1, <1>3 DEF TypeOK
  <1>5. Transfer' /\ Patching'
    BY <1>1, <1>2, <1>3, FileFacts DEF Transfer, Patching
  <1> QED
    BY <1>1, <1>4, <1>5, SlotKept

\* Reading on, and a step that goes back to the frames.
LEMMA ReadingPreserves ==
    ASSUME DeltaInv, step \in {"unpack", "patch"}, step' \in {step, "patch", "frames"},
           UNCHANGED stream \/ (\E upto \in Places : ReadAhead(upto)),
           UNCHANGED <<host, slot, g_state, L, installed, pushes, faults>>
    PROVE  DeltaInv'
  <1> USE DEF DeltaInv
  <1>1. /\ stream \in [pos : 0 .. Span, made : 0 .. Span, sound : BOOLEAN]
        /\ stream.sound
    BY DEF TypeOK, Patching
  <1>2. /\ stream' \in [pos : 0 .. Span, made : 0 .. Span, sound : BOOLEAN]
        /\ stream'.sound /\ stream'.made = stream.made
    BY <1>1, ReadsSound
  <1>3. TypeOK'
    BY <1>2 DEF TypeOK
  <1>4. Transfer' /\ Patching'
    BY <1>2 DEF Transfer, Patching
  <1> QED
    BY <1>3, <1>4, SlotKept

LEMMA UnpackPreserves == ASSUME DeltaInv, Unpack PROVE DeltaInv'
  BY ReadingPreserves DEF Unpack, EndFails

LEMMA ReadDiffPreserves == ASSUME DeltaInv, ReadDiff PROVE DeltaInv'
  BY ReadingPreserves DEF ReadDiff, EndFails

LEMMA ReadOldRefusedPreserves == ASSUME DeltaInv, ReadOldRefused PROVE DeltaInv'
  BY ReadingPreserves DEF ReadOldRefused, EndFails

LEMMA WriteNewPreserves == ASSUME DeltaInv, WriteNew PROVE DeltaInv'
  <1> USE DEF DeltaInv
  <1> DEFINE f   == g_state.file
             n   == stream.made + 1
             new == Made(f, n, TRUE)
  <1>1. /\ step = "patch" /\ g_state.active /\ host # NoFile
        /\ f \in Files /\ Accepted(f) /\ f.kind = "DELTA" /\ f.newSize = f.newTotal
        /\ f.len \in Nat /\ f.newTotal \in Nat /\ f.newTotal <= Span
        /\ stream \in [pos : 0 .. Span, made : 0 .. Span, sound : BOOLEAN]
        /\ stream.sound /\ L = stream.made
    BY FileFacts, Apart DEF WriteNew, Transfer, Patching, TypeOK, ota_state_t
  <1>2. /\ n \in 1 .. f.newTotal /\ L + 1 = n /\ L < f.newTotal /\ n \in Places
        /\ stream' = [stream EXCEPT !.made = n]
        /\ UNCHANGED <<host, pushes>>
    <2>1. /\ n <= f.newSize /\ stream' = [stream EXCEPT !.made = n]
          /\ UNCHANGED <<host, pushes>>
      BY DEF WriteNew
    <2>2. stream.made \in Nat /\ Span \in Nat
      BY <1>1, SpanAssumption
    <2>3. n \in 1 .. f.newTotal /\ n <= Span /\ L + 1 = n /\ L < f.newTotal
      <3> HIDE DEF f
      <3> QED
        BY <1>1, <2>1, <2>2
    <2> QED
      BY <2>1, <2>2, <2>3 DEF Places
  <1>3. \/ L' = n /\ Program(n, new) /\ UNCHANGED <<g_state, step, installed, faults>>
        \/ ProgramFails(n, new) /\ Fault("flash") /\ EndFails /\ UNCHANGED L
    BY <1>1, <1>2 DEF WriteNew
  <1>4. new \in Content /\ new.whole /\ Ready(n, new)
    BY <1>1, <1>2, Cells DEF SlotInv, Front
  <1>5. /\ slot' \in [Places -> Cell] /\ NothingSpoilt'
        /\ \A q \in Places : q # n => slot'[q] = slot[q]
        /\ slot'[n] \in {Erased, new, [new EXCEPT !.whole = FALSE]}
    <2> HIDE DEF n, new
    <2> QED
      BY <1>2, <1>3, <1>4, Programs
  <1>6. UNCHANGED <<host, g_state, installed, pushes>> /\ faults' \in 0 .. MaxFaults
    BY <1>2, <1>3, FaultKeepsType DEF EndFails, TypeOK
  <1>7. stream' \in [pos : 0 .. Span, made : 0 .. Span, sound : BOOLEAN]
        /\ stream'.sound /\ stream'.made = n /\ n \in 0 .. Span
    BY <1>1, <1>2 DEF Places
  <1>8. TypeOK'
    BY <1>1, <1>2, <1>3, <1>5, <1>6, <1>7 DEF TypeOK, EndFails
  <1>9. Transfer' /\ Patching'
    <2>1. step' = "frames" \/ (step' = "patch" /\ L' = n /\ n <= f.newTotal)
      <3> HIDE DEF n, new
      <3> QED
        BY <1>1, <1>2, <1>3 DEF EndFails
    <2>2. f' = f
      BY <1>6
    <2> QED
      BY <1>1, <1>6, <1>7, <2>1, <2>2 DEF Transfer, Patching
  <1>10. Tail(f)'
    <2>1. \A i \in 1 .. f.len : slot'[patch_tail_base(f) + i] = slot[patch_tail_base(f) + i]
      BY <1>1, <1>2, <1>5, Apart
    <2>2. \A i \in 1 .. f.len : /\ Ready(patch_tail_base(f) + i, Sent(f, i, TRUE))
                                /\ i <= g_state.written => HoldsPatch(f, i)
      BY <1>1 DEF SlotInv, Tail
    <2> QED
      BY <1>6, <2>1, <2>2 DEF Tail, Ready, HoldsPatch, patch_tail_base
  <1>11. Front(f)'
    <2>1. \A i \in 1 .. f.newTotal : Ready(i, Made(f, i, TRUE))
      BY <1>1 DEF SlotInv, Front
    <2>2. \A i \in 1 .. f.newTotal : i # n => slot'[i] = slot[i]
      BY <1>1, <1>5, Apart
    <2>3. \A i \in 1 .. f.newTotal :
             slot'[i] \in {Erased, Made(f, i, TRUE), [Made(f, i, TRUE) EXCEPT !.whole = FALSE]}
      BY <1>5, <2>1, <2>2 DEF Ready
    <2> QED
      BY <1>1, <1>6, <2>3 DEF Front, Ready
  <1> QED
    BY <1>5, <1>6, <1>8, <1>9, <1>10, <1>11 DEF SlotInv

LEMMA PatchDonePreserves == ASSUME DeltaInv, PatchDone PROVE DeltaInv'
  <1> USE DEF DeltaInv
  <1>1. /\ step = "patch" /\ step' \in {"verify", "frames"}
        /\ UNCHANGED <<host, slot, g_state, stream, L, installed, pushes, faults>>
    BY DEF PatchDone, EndFails
  <1>2. TypeOK' /\ Transfer' /\ Patching'
    BY <1>1 DEF TypeOK, Transfer, Patching
  <1> QED
    BY <1>1, <1>2, SlotKept

LEMMA VerifyPreserves == ASSUME DeltaInv, Verify PROVE DeltaInv'
  <1> USE DEF DeltaInv
  <1>1. step = "verify" /\ step' = "frames" /\ UNCHANGED <<host, slot, stream, L, pushes>>
    BY DEF Verify, EndFails
  <1>2. faults' \in 0 .. MaxFaults
    BY FaultKeepsType DEF Verify, TypeOK
  <1>3. CASE installed' = g_state.file /\ g_state' = Cleared
    <2>1. TypeOK' /\ Transfer' /\ Patching'
      BY <1>1, <1>2, <1>3, SpanAssumption
      DEF TypeOK, Transfer, Patching, Cleared, ota_state_t
    <2> QED
      BY <1>1, <1>3, <2>1 DEF SlotInv, Cleared, NothingSpoilt
  <1>4. CASE UNCHANGED <<g_state, installed>>
    <2>1. TypeOK' /\ Transfer' /\ Patching'
      BY <1>1, <1>2, <1>4 DEF TypeOK, Transfer, Patching
    <2> QED
      BY <1>1, <1>4, <2>1, SlotKept
  <1> QED
    BY <1>3, <1>4 DEF Verify, EndFails

LEMMA AbandonPreserves == ASSUME DeltaInv, Abandon PROVE DeltaInv'
  <1>1. faults' \in 0 .. MaxFaults
    BY FaultKeepsType DEF Abandon, DeltaInv
  <1> QED
    BY <1>1, SpanAssumption
    DEF Abandon, DeltaInv, TypeOK, Transfer, Patching, SlotInv, NothingSpoilt, Cleared,
        ota_state_t

LEMMA NextPreserves == ASSUME DeltaInv, [Next]_vars PROVE DeltaInv'
  <1>1. CASE UNCHANGED vars
    <2>1. TypeOK' /\ Transfer' /\ Patching'
      BY <1>1 DEF vars, DeltaInv, TypeOK, Transfer, Patching
    <2> QED
      BY <1>1, <2>1, SlotKept DEF vars, DeltaInv
  <1> QED
    BY <1>1, StartPreserves, DataPreserves, HandleEndPreserves, OpenPreserves,
       UnpackPreserves, ReadDiffPreserves, ReadOldRefusedPreserves, WriteNewPreserves, PatchDonePreserves, VerifyPreserves,
       AbandonPreserves DEF Next, End

LEMMA Invariance == Spec => []DeltaInv
  <1>1. Init => DeltaInv
    BY InitInv
  <1>2. DeltaInv /\ [Next]_vars => DeltaInv'
    BY NextPreserves
  <1> QED
    BY <1>1, <1>2, PTL DEF Spec

-----------------------------------------------------------------------------
(* Theorems.                                                               *)

\* TypeOK: no write and no read leaves the slot, and no transfer holds more than
\* its announced size.
THEOREM TypeCorrect == Spec => []TypeOK
  <1>1. DeltaInv => TypeOK
    BY DEF DeltaInv
  <1> QED
    BY <1>1, Invariance, PTL

\* PatchIntact: the patched image never reaches the patch that it is made from,
\* whatever the sizes, and however often END is repeated.
THEOREM PatchStaysIntact == Spec => []PatchIntact
  <1>1. DeltaInv => PatchIntact
    <2> SUFFICES ASSUME DeltaInv, NEW f \in Files, host = f, f.kind = "DELTA", g_state.active,
                        NEW i \in 1 .. g_state.written
                 PROVE  HoldsPatch(f, i)
      BY DEF PatchIntact
    <2>1. host # NoFile /\ f = g_state.file /\ f.len \in Nat
      BY FilesAssumption, FileFacts DEF DeltaInv, Transfer
    <2>2. g_state.written \in Nat /\ g_state.written <= f.len
      BY <2>1 DEF DeltaInv, TypeOK, ota_state_t
    <2>3. Tail(f)
      BY <2>1 DEF DeltaInv, SlotInv
    <2>4. i \in 1 .. f.len /\ i <= g_state.written
      BY <2>1, <2>2
    <2> QED
      BY <2>3, <2>4 DEF Tail
  <1> QED
    BY <1>1, Invariance, PTL

\* NothingSpoilt: nothing is programmed over anything but itself, by an END that
\* is repeated or by the files of several hosts one after another.
THEOREM NeverOverwrites == Spec => []NothingSpoilt
  <1>1. DeltaInv => NothingSpoilt
    BY DEF DeltaInv
  <1> QED
    BY <1>1, Invariance, PTL
=============================================================================
