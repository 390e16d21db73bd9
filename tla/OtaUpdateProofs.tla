---------------------------- MODULE OtaUpdateProofs ----------------------------
(***************************************************************************)
(* What the update protocol promises, for all images, any number of runs   *)
(* of the host tool and any number of adverse events.                      *)
(***************************************************************************)
EXTENDS OtaUpdate, SequenceTheorems, TLAPS

-----------------------------------------------------------------------------
(* Types.                                                                  *)

\* A DATA frame carries a chunk, so what HandleData programs is a cell.
Carries(x)  == x.op = "DATA" => x.chunk \in Chunk
CarriersInv == /\ \A j \in 1 .. Len(h2d) : Carries(h2d[j])
               /\ rx # NoFrame => Carries(rx)
TypeInv == TypeOK /\ CarriersInv

LEMMA TailFacts ==
    ASSUME NEW S, NEW s \in Seq(S), s # <<>>
    PROVE  /\ Tail(s) \in Seq(S) /\ Head(s) \in S /\ Head(s) = s[1]
           /\ Len(s) \in Nat \ {0} /\ Len(Tail(s)) = Len(s) - 1
           /\ \A j \in 1 .. Len(Tail(s)) : Tail(s)[j] = s[j + 1] /\ j + 1 \in 1 .. Len(s)
  BY HeadTailProperties, EmptySeq

LEMMA AppendFacts ==
    ASSUME NEW S, NEW s \in Seq(S), NEW e \in S
    PROVE  /\ Append(s, e) \in Seq(S)
           /\ Len(s) \in Nat /\ Len(Append(s, e)) = Len(s) + 1
           /\ Append(s, e)[Len(s) + 1] = e
           /\ \A j \in 1 .. Len(s) : Append(s, e)[j] = s[j]
  OBVIOUS

LEMMA ImageFacts ==
    ASSUME NEW img \in Images
    PROVE  /\ NumChunks[img] \in Nat \ {0} /\ NumChunks[img] \in Places
           /\ LastFrame(img) = NumChunks[img] + 2 /\ LastFrame(img) \in Nat
  BY NumChunksAssumption DEF LastFrame, Places

\* A START without a size is refused.
LEMMA NoSizeNotInRange == ~InRange(0)
  BY NumChunksAssumption DEF InRange, Places

LEMMA SeqType ==
    /\ \A f \in Nat : SeqOf(f) \in 0 .. SeqMod - 1
    /\ 0 \in 0 .. SeqMod - 1
  BY SeqModAssumption DEF SeqOf

LEMMA ResponseType ==
    ASSUME NEW seq \in 0 .. SeqMod - 1 PROVE ACK(seq) \in Response /\ NAK(seq) \in Response
  BY DEF ACK, NAK, Response

LEMMA PushType ==
    ASSUME NEW img \in Images, NEW f \in 1 .. LastFrame(img)
    PROVE  PushFrame(img, f) \in Frame /\ Carries(PushFrame(img, f))
  <1>1. SeqOf(f) \in 0 .. SeqMod - 1 /\ f \in Nat /\ NumChunks[img] \in Nat
    BY SeqType, ImageFacts
  <1>2. ASSUME f # 1 PROVE [img |-> img, i |-> f - 1] \in Chunk
    BY <1>1, <1>2 DEF Chunk
  <1> QED
    BY <1>1, <1>2 DEF PushFrame, build_frame, Frame, Ops, Carries

LEMMA OperatorType ==
    ASSUME NEW op \in {"START", "ABORT", "OTHER"}
    PROVE  /\ build_frame(op, SeqOf(1), 0, NoChunk) \in Frame
           /\ Carries(build_frame(op, SeqOf(1), 0, NoChunk))
  <1>1. SeqOf(1) \in 0 .. SeqMod - 1
    BY SeqType
  <1> QED
    BY <1>1 DEF build_frame, Frame, Ops, Carries

LEMMA FaultType ==
    ASSUME faults \in 0 .. MaxFaults, NEW kind, Fault(kind) PROVE faults' \in 0 .. MaxFaults
  BY WireFaultsAssumption DEF Fault

LEMMA CountErrorType ==
    ASSUME ReceiverTypeOK, CountError
    PROVE  /\ consec_errs' \in 0 .. MAX_CONSEC_ERRS - 1
           /\ mode' \in {mode, "menu"}
  BY ReceiverAssumption DEF ReceiverTypeOK, CountError

\* What a step may put on the line to the device ...
H2dStep ==
    \/ h2d' = h2d
    \/ h2d # <<>> /\ h2d' = Tail(h2d)
    \/ h2d' = Append(h2d, PushFrame(image', frame'))
    \/ h2d' = <<PushFrame(image', frame')>>
    \/ \E op \in {"START", "ABORT", "OTHER"} : h2d' = <<build_frame(op, SeqOf(1), 0, NoChunk)>>

\* ... and on the line to the host.
D2hStep ==
    \/ d2h' = d2h \/ d2h' = <<>>
    \/ d2h # <<>> /\ d2h' = Tail(d2h)
    \/ \E seq \in 0 .. SeqMod - 1 : d2h' = Append(d2h, ACK(seq)) \/ d2h' = Append(d2h, NAK(seq))

LEMMA HandleType ==
    ASSUME TypeInv, Handle
    PROVE  /\ ReceiverTypeOK' /\ rx' = NoFrame /\ h2d' = h2d /\ D2hStep
           /\ faults' \in 0 .. MaxFaults
  <1> USE DEF TypeInv, TypeOK, WireTypeOK, ReceiverTypeOK
  <1>1. /\ rx \in Frame /\ rx.seq \in 0 .. SeqMod - 1 /\ rx.total \in Nat /\ rx' = NoFrame
        /\ h2d' = h2d
    BY DEF Handle, Handled, HandleStart, HandleData, HandleEnd, HandleAbort, HandleOther, Frame
  <1>2. D2hStep
    BY <1>1
    DEF Handle, HandleStart, HandleData, HandleEnd, HandleAbort, HandleOther, Accept, Refuse, D2hStep
  <1>3. faults' \in 0 .. MaxFaults
    BY FaultType
    DEF Handle, HandleStart, HandleData, HandleEnd, HandleAbort, HandleOther
  <1>4. consec_errs' \in 0 .. MAX_CONSEC_ERRS - 1 /\ mode' \in {mode, "menu", "booted"}
    <2>1. ASSUME CountError
          PROVE  consec_errs' \in 0 .. MAX_CONSEC_ERRS - 1 /\ mode' \in {mode, "menu", "booted"}
      BY <2>1, CountErrorType
    <2>2. 0 \in 0 .. MAX_CONSEC_ERRS - 1
      BY ReceiverAssumption
    <2>3. CASE HandleStart
      BY <2>1, <2>2, <2>3 DEF HandleStart, Accept, Refuse
    <2>4. CASE HandleData
      BY <2>1, <2>2, <2>4 DEF HandleData, Accept, Refuse
    <2>5. CASE HandleEnd
      BY <2>1, <2>2, <2>5 DEF HandleEnd, Accept, Refuse
    <2>6. CASE HandleAbort \/ HandleOther
      BY <2>1, <2>2, <2>6 DEF HandleAbort, HandleOther, Accept, Refuse
    <2> QED
      BY <2>3, <2>4, <2>5, <2>6 DEF Handle
  <1>5. slot' \in [Places -> Cell]
    <2>1. CASE HandleStart
      BY <2>1 DEF HandleStart, WipedTo, Cell
    <2>2. CASE HandleData
      <3>1. rx.chunk \in Chunk
        BY <1>1, <2>2 DEF HandleData, Handled, CarriersInv, Carries
      <3>2. Programmed(rx.chunk, TRUE) \in Cell /\ Programmed(rx.chunk, FALSE) \in Cell
            /\ Spoilt \in Cell
        BY <3>1 DEF Chunk, Cell, Programmed
      <3>3. \A p, x : x \in Cell => [slot EXCEPT ![p] = x] \in [Places -> Cell]
        OBVIOUS
      <3> QED
        BY <2>2, <3>2, <3>3 DEF HandleData
    <2>3. CASE HandleEnd \/ HandleAbort \/ HandleOther
      BY <2>3 DEF HandleEnd, HandleAbort, HandleOther
    <2> QED
      BY <2>1, <2>2, <2>3 DEF Handle
  <1>6. g_state' \in ota_state_t
    <2>0. /\ g_state.expected_seq + 1 \in Nat /\ rx.seq + 1 \in Nat
          /\ g_state.written + 1 \in Nat
      BY <1>1, SeqModAssumption DEF ota_state_t
    <2>1. /\ (rx.seq + 1) % SeqMod \in 0 .. SeqMod - 1
          /\ (g_state.expected_seq + 1) % SeqMod \in 0 .. SeqMod - 1
      BY ONLY <2>0, SeqModAssumption
    <2>2. Cleared \in ota_state_t
      BY SeqType DEF Cleared, ota_state_t
    <2>3. CASE HandleStart
      <3>1. [active |-> TRUE, total |-> rx.total, written |-> 0,
                         expected_seq |-> (rx.seq + 1) % SeqMod] \in ota_state_t
        BY <1>1, <2>1 DEF ota_state_t
      <3> QED
        BY <2>3, <3>1 DEF HandleStart
    <2>4. CASE HandleData
      <3>1. [g_state EXCEPT !.written = @ + 1, !.expected_seq = (@ + 1) % SeqMod] \in ota_state_t
        BY <2>0, <2>1 DEF ota_state_t
      <3> QED
        BY <2>4, <3>1 DEF HandleData
    <2>5. CASE HandleEnd \/ HandleAbort \/ HandleOther
      BY <2>2, <2>5 DEF HandleEnd, HandleAbort, HandleOther
    <2> QED
      BY <2>3, <2>4, <2>5 DEF Handle
  <1>7. installed' \in Images \cup {NoInstall}
    BY DEF Handle, HandleStart, HandleData, HandleEnd, HandleAbort, HandleOther
  <1> QED
    BY <1>1, <1>2, <1>3, <1>4, <1>5, <1>6, <1>7

\* The other steps of the device.
LEMMA DeviceType ==
    ASSUME TypeInv,
           \/ ReadTimeout \/ ReadFrame \/ ReadBadFrame
           \/ MenuEatsFrame \/ BootedDropsFrame \/ MenuUpload \/ DeviceReset
    PROVE  /\ ReceiverTypeOK' /\ H2dStep /\ D2hStep /\ faults' \in 0 .. MaxFaults
           /\ rx' # NoFrame => rx' = rx \/ (h2d # <<>> /\ rx' = Head(h2d))
  <1> USE DEF TypeInv, TypeOK, WireTypeOK, ReceiverTypeOK
  <1>1. H2dStep
    BY DEF ReadTimeout, ReadFrame, ReadBadFrame, MenuEatsFrame, BootedDropsFrame, MenuUpload,
           DeviceReset, wire, H2dStep
  <1>2. D2hStep
    BY SeqType
    DEF ReadTimeout, ReadFrame, ReadBadFrame, MenuEatsFrame, BootedDropsFrame, MenuUpload,
        DeviceReset, wire, D2hStep
  <1>3. faults' \in 0 .. MaxFaults
    BY FaultType
    DEF ReadTimeout, ReadFrame, ReadBadFrame, MenuEatsFrame, BootedDropsFrame, MenuUpload, DeviceReset
  <1>4. rx' \in Frame \cup {NoFrame} /\ (rx' # NoFrame => rx' = rx \/ (h2d # <<>> /\ rx' = Head(h2d)))
    BY TailFacts
    DEF ReadTimeout, ReadFrame, ReadBadFrame, MenuEatsFrame, BootedDropsFrame, MenuUpload,
        DeviceReset, EnterReceive, Reset, receiver
  <1>5. Cleared \in ota_state_t /\ 0 \in 0 .. MAX_CONSEC_ERRS - 1
    BY SeqType, ReceiverAssumption DEF Cleared, ota_state_t
  <1>6. /\ mode' \in {mode, "menu", "receive", "booted"} /\ g_state' \in {g_state, Cleared}
        /\ consec_errs' \in 0 .. MAX_CONSEC_ERRS - 1
        /\ UNCHANGED <<slot, installed>>
    BY <1>5, CountErrorType
    DEF ReadTimeout, ReadFrame, ReadBadFrame, MenuEatsFrame, BootedDropsFrame, MenuUpload,
        DeviceReset, EnterReceive, Reset, receiver
  <1> QED
    BY <1>1, <1>2, <1>3, <1>4, <1>5, <1>6

\* The steps of the host.
HostStep ==
    \/ Acknowledged \/ NotAcknowledged
    \/ NoResponse /\ faults' \in 0 .. MaxFaults
    \/ RunTool \/ OperatorSends

LEMMA HostType ==
    ASSUME TypeInv, HostStep
    PROVE  HostTypeOK' /\ H2dStep /\ D2hStep /\ faults' \in 0 .. MaxFaults
  <1> USE DEF TypeInv, TypeOK, WireTypeOK, HostTypeOK
  <1>1. /\ image \in Images /\ NumChunks[image] \in Nat /\ frame \in 1 .. LastFrame(image)
        /\ 0 \in 0 .. ResponseTicks /\ 1 \in 1 .. RETRIES_PER_FRAME
    BY ImageFacts, HostAssumption DEF LastFrame
  <1>2. CASE Acknowledged
    <2>1. frame # LastFrame(image) => frame + 1 \in 1 .. LastFrame(image)
      BY <1>1, ImageFacts
    <2> QED
      BY <1>1, <1>2, <2>1 DEF Acknowledged, H2dStep, D2hStep, LastFrame
  <1>3. ASSUME Retry
        PROVE  /\ HostTypeOK' /\ H2dStep /\ UNCHANGED <<image, frame>>
    <2>1. attempt < RETRIES_PER_FRAME => attempt + 1 \in 1 .. RETRIES_PER_FRAME
      BY HostAssumption
    <2> QED
      BY <1>1, <1>3, <2>1 DEF Retry, H2dStep
  <1>4. CASE NotAcknowledged
    BY <1>3, <1>4 DEF NotAcknowledged, D2hStep
  <1>5. CASE NoResponse /\ faults' \in 0 .. MaxFaults
    BY <1>3, <1>5 DEF NoResponse, D2hStep
  <1>6. CASE RunTool
    <2>1. image' \in Images /\ 1 \in 1 .. NumChunks[image'] + 2
      BY <1>6, ImageFacts DEF RunTool
    <2> QED
      BY <1>1, <1>6, <2>1, HostAssumption DEF RunTool, H2dStep, D2hStep
  <1>7. CASE OperatorSends
    BY <1>1, <1>7, HostAssumption DEF OperatorSends, H2dStep, D2hStep
  <1> QED
    BY <1>2, <1>4, <1>5, <1>6, <1>7 DEF HostStep

LEMMA WireType ==
    ASSUME TypeInv, HostTypeOK', H2dStep, D2hStep, faults' \in 0 .. MaxFaults,
           rx' # NoFrame => rx' = rx \/ (h2d # <<>> /\ rx' = Head(h2d))
    PROVE  WireTypeOK' /\ CarriersInv'
  <1> USE DEF TypeInv, TypeOK, WireTypeOK
  <1>1. d2h' \in Seq(Response)
    <2>1. CASE d2h # <<>> /\ d2h' = Tail(d2h)
      BY <2>1, TailFacts
    <2>2. CASE \E seq \in 0 .. SeqMod - 1 : d2h' = Append(d2h, ACK(seq)) \/ d2h' = Append(d2h, NAK(seq))
      <3>1. PICK seq \in 0 .. SeqMod - 1 : d2h' = Append(d2h, ACK(seq)) \/ d2h' = Append(d2h, NAK(seq))
        BY <2>2
      <3>2. ACK(seq) \in Response /\ NAK(seq) \in Response
        BY ResponseType
      <3>3. \A r \in Response : Append(d2h, r) \in Seq(Response)
        BY AppendFacts
      <3> QED
        BY ONLY <3>1, <3>2, <3>3
    <2>3. <<>> \in Seq(Response) /\ d2h \in Seq(Response)
      BY EmptySeq
    <2> QED
      BY <2>1, <2>2, <2>3 DEF D2hStep
  <1>2. h2d' \in Seq(Frame) /\ \A j \in 1 .. Len(h2d') : Carries(h2d'[j])
    <2>1. CASE h2d' = h2d
      BY <2>1 DEF CarriersInv
    <2>2. CASE h2d # <<>> /\ h2d' = Tail(h2d)
      BY <2>2, TailFacts DEF CarriersInv
    <2>3. ASSUME NEW x \in Frame, Carries(x), h2d' = Append(h2d, x) \/ h2d' = <<x>>
          PROVE  h2d' \in Seq(Frame) /\ \A j \in 1 .. Len(h2d') : Carries(h2d'[j])
      <3>1. CASE h2d' = Append(h2d, x)
        BY <2>3, <3>1, AppendFacts DEF CarriersInv
      <3>2. CASE h2d' = <<x>>
        BY <2>3, <3>2
      <3> QED
        BY <2>3, <3>1, <3>2
    <2>4. PushFrame(image', frame') \in Frame /\ Carries(PushFrame(image', frame'))
      BY PushType DEF HostTypeOK, LastFrame
    <2> QED
      BY <2>1, <2>2, <2>3, <2>4, OperatorType DEF H2dStep
  <1>3. rx' # NoFrame => Carries(rx')
    BY TailFacts DEF CarriersInv
  <1> QED
    BY <1>1, <1>2, <1>3 DEF CarriersInv

LEMMA TypeStep == TypeInv /\ [Next]_vars => TypeInv'
  <1> SUFFICES ASSUME TypeInv, [Next]_vars PROVE TypeInv'
    OBVIOUS
  <1> USE DEF TypeInv, TypeOK
  <1>1. ASSUME ReceiverTypeOK', HostTypeOK', H2dStep, D2hStep, faults' \in 0 .. MaxFaults,
               rx' # NoFrame => rx' = rx \/ (h2d # <<>> /\ rx' = Head(h2d))
        PROVE  TypeInv'
    BY <1>1, WireType
  <1>2. ASSUME UNCHANGED hostvars PROVE HostTypeOK'
    BY <1>2 DEF HostTypeOK, hostvars
  <1>3. ASSUME UNCHANGED receiver PROVE ReceiverTypeOK' /\ rx' = rx
    BY <1>3 DEF ReceiverTypeOK, receiver
  <1>4. CASE Receiver \/ Unread \/ (MenuUpload /\ UNCHANGED hostvars) \/ (DeviceReset /\ UNCHANGED hostvars)
    <2>1. HostTypeOK'
      <3>1. CASE Tick
        <4>1. CASE host = "waiting"
          <5>1. waited + 1 \in 0 .. ResponseTicks /\ UNCHANGED <<host, image, frame, attempt, sessions>>
            BY <3>1, <4>1, HostAssumption DEF Tick, HostTypeOK
          <5> QED
            BY <3>1, <4>1, <5>1 DEF Tick, HostTypeOK
        <4>2. CASE host # "waiting"
          BY <1>2, <3>1, <4>2 DEF Tick
        <4> QED
          BY <4>1, <4>2
      <3>2. CASE ~Tick
        BY <1>2, <1>4, <3>2 DEF Receiver, Unread
      <3> QED
        BY <3>1, <3>2
    <2>2. CASE Handle
      BY <1>1, <2>1, <2>2, HandleType DEF H2dStep
    <2>3. CASE ~Handle
      <3>1. \/ ReadTimeout \/ ReadFrame \/ ReadBadFrame
            \/ MenuEatsFrame \/ BootedDropsFrame \/ MenuUpload \/ DeviceReset
        BY <1>4, <2>3 DEF Receiver, Tick, Unread
      <3>2. /\ ReceiverTypeOK' /\ H2dStep /\ D2hStep /\ faults' \in 0 .. MaxFaults
            /\ rx' # NoFrame => rx' = rx \/ (h2d # <<>> /\ rx' = Head(h2d))
        BY ONLY <3>1, TypeInv, DeviceType
      <3>3. ReceiverTypeOK' /\ H2dStep /\ D2hStep /\ faults' \in 0 .. MaxFaults
        BY ONLY <3>2
      <3> QED
        BY <1>1, <2>1, <3>2, <3>3
    <2> QED
      BY <2>2, <2>3
  <1>5. CASE Host \/ LateResponse \/ ((RunTool \/ OperatorSends) /\ UNCHANGED receiver)
    <2>1. faults \in 0 .. MaxFaults
      BY DEF WireTypeOK
    <2>2. HostStep /\ UNCHANGED receiver
      BY <1>5, <2>1, FaultType DEF Host, LateResponse, HostStep
    <2>3. HostTypeOK' /\ H2dStep /\ D2hStep /\ faults' \in 0 .. MaxFaults
      BY ONLY TypeInv, <2>2, HostType
    <2> QED
      BY <1>1, <1>3, <2>2, <2>3
  <1>6. CASE Noise
    <2>1. H2dStep /\ D2hStep /\ faults' \in 0 .. MaxFaults
      BY <1>6, FaultType DEF Noise, LoseFrame, LoseResponse, H2dStep, D2hStep, WireTypeOK
    <2> QED
      BY <1>1, <1>2, <1>3, <1>6, <2>1 DEF Noise
  <1>7. CASE UNCHANGED vars
    BY <1>7 DEF vars, wire, receiver, hostvars, WireTypeOK, ReceiverTypeOK, HostTypeOK, CarriersInv
  <1> QED
    BY <1>4, <1>5, <1>6, <1>7 DEF Next, Operator

LEMMA InitType == Init => TypeInv
  <1> SUFFICES ASSUME Init PROVE TypeInv
    OBVIOUS
  <1>1. WireTypeOK /\ CarriersInv
    BY WireFaultsAssumption DEF Init, WireInit, ReceiverInit, WireTypeOK, CarriersInv
  <1>2. ReceiverTypeOK
    BY SeqType, ReceiverAssumption
    DEF Init, ReceiverInit, ReceiverTypeOK, Cleared, ota_state_t, Cell
  <1>3. HostTypeOK
    BY ImageFacts, HostAssumption DEF Init, HostInit, HostTypeOK
  <1> QED
    BY <1>1, <1>2, <1>3 DEF TypeInv, TypeOK

\* TypeOK: sequence numbers, the error count and the counts of the host stay in
\* their ranges, and the slot holds only chunks, whatever is sent by whom.
THEOREM TypeCorrect == Spec => []TypeOK
  <1>1. TypeInv => TypeOK
    BY DEF TypeInv
  <1> QED
    BY <1>1, InitType, TypeStep, PTL DEF Spec

-----------------------------------------------------------------------------
(* Sequence numbers.                                                       *)

LEMMA Remainder ==
    ASSUME NEW m \in Nat \ {0}, NEW q \in Int, NEW r \in 0 .. m - 1
    PROVE  (m * q + r) % m = r
  <1> DEFINE a == m * q + r
             d == a \div m
             e == a % m
  <1>1. a \in Int /\ d \in Int /\ e \in 0 .. m - 1 /\ a = m * d + e
    OBVIOUS
  <1>2. m * (d - q) = r - e
    BY <1>1
  <1>3. CASE d - q >= 1
    <2>1. m * (d - q) >= m
      BY <1>1, <1>3
    <2> QED
      BY <1>1, <1>2, <2>1
  <1>4. CASE d - q <= -1
    <2>1. m * (d - q) <= -m
      BY <1>1, <1>4
    <2> QED
      BY <1>1, <1>2, <2>1
  <1>5. CASE d = q
    BY <1>1, <1>5
  <1> QED
    BY <1>1, <1>3, <1>4, <1>5

\* Counting on modulo SeqMod.
LEMMA NextRemainder ==
    ASSUME NEW m \in Nat, m >= 2, NEW a \in Nat
    PROVE  /\ (a + 1) % m # a % m
           /\ ((a % m) + 1) % m = (a + 1) % m
           /\ a < m => a % m = a
  <1> DEFINE q == a \div m
             r == a % m
  <1>1. q \in Int /\ r \in 0 .. m - 1 /\ a = m * q + r /\ m \in Nat \ {0}
    OBVIOUS
  <1> HIDE DEF q, r
  <1>2. CASE r + 1 < m
    <2>1. a + 1 = m * q + (r + 1) /\ r + 1 \in 0 .. m - 1
      BY <1>1, <1>2
    <2>2. (a + 1) % m = r + 1
      BY <1>1, <2>1, Remainder
    <2>3. (m * 0 + (r + 1)) % m = r + 1 /\ m * 0 + (r + 1) = r + 1
      BY <1>1, <2>1, Remainder
    <2> QED
      BY <1>1, <2>2, <2>3 DEF r
  <1>3. CASE r + 1 = m
    <2>1. a + 1 = m * (q + 1) + 0 /\ r + 1 = m * 1 + 0 /\ q + 1 \in Int /\ 0 \in 0 .. m - 1
      BY <1>1, <1>3
    <2>2. (a + 1) % m = 0
      BY <1>1, <2>1, Remainder
    <2>3. (r + 1) % m = 0
      BY <1>1, <2>1, Remainder
    <2> QED
      BY <1>1, <1>3, <2>2, <2>3 DEF r
  <1>4. a < m => a % m = a
    <2>1. SUFFICES ASSUME a < m PROVE a % m = a
      OBVIOUS
    <2>2. a = m * 0 + a /\ a \in 0 .. m - 1
      BY <1>1, <2>1
    <2> QED
      BY <1>1, <2>2, Remainder
  <1> QED
    BY <1>1, <1>2, <1>3, <1>4 DEF r

\* The sequence numbers of one image's frames do not come round: from the
\* first DATA frame to the last, none is START's.  Without it a DATA frame left
\* from an earlier run would be answered as START.
SeqOutlasts == \A img \in Images : NumChunks[img] < SeqMod

\* Two frames of one image have two numbers.
LEMMA SeqFacts ==
    ASSUME SeqOutlasts, NEW img \in Images
    PROVE  /\ SeqMod \in Nat /\ SeqMod >= 2
           /\ \A f \in Nat : SeqOf(f + 1) # SeqOf(f) /\ (SeqOf(f) + 1) % SeqMod = SeqOf(f + 1)
           /\ \A f \in 2 .. NumChunks[img] + 1 : SeqOf(f) # SeqOf(1)
  <1>1. SeqMod \in Nat /\ SeqMod >= 2 /\ NumChunks[img] \in Nat /\ NumChunks[img] < SeqMod
    BY SeqModAssumption, ImageFacts DEF SeqOutlasts
  <1>2. \A f \in Nat : SeqOf(f + 1) # SeqOf(f) /\ (SeqOf(f) + 1) % SeqMod = SeqOf(f + 1)
    BY <1>1, NextRemainder DEF SeqOf
  <1>3. ASSUME NEW f \in 2 .. NumChunks[img] + 1 PROVE SeqOf(f) # SeqOf(1)
    <2>1. SeqOf(1) = 1
      BY <1>1, NextRemainder DEF SeqOf
    <2>2. CASE f < SeqMod
      BY <1>1, <2>1, <2>2, NextRemainder DEF SeqOf
    <2>3. CASE f = SeqMod
      <3>1. f = SeqMod * 1 + 0 /\ 0 \in 0 .. SeqMod - 1
        BY <1>1, <2>3
      <3> QED
        BY <1>1, <2>1, <3>1, Remainder DEF SeqOf
    <2> QED
      BY <1>1, <2>2, <2>3
  <1> QED
    BY <1>1, <1>2, <1>3

\* A frame tells its place in the image.
LEMMA PushFacts ==
    ASSUME NEW img \in Images, NEW f \in 1 .. LastFrame(img)
    PROVE  /\ PushFrame(img, f).seq = SeqOf(f)
           /\ PushFrame(img, f).op = "START" <=> f = 1
           /\ PushFrame(img, f).op = "END" <=> f = LastFrame(img)
           /\ PushFrame(img, f).op \notin {"ABORT", "OTHER"}
           /\ f = 1 => PushFrame(img, f).total = NumChunks[img]
           /\ PushFrame(img, f).op = "DATA" =>
                  /\ f >= 2 /\ f - 1 \in 1 .. NumChunks[img]
                  /\ PushFrame(img, f).chunk = [img |-> img, i |-> f - 1]
           /\ PushFrame(img, f) # NoFrame
           /\ PushFrame(img, f).op = "START" => PushFrame(img, f).total # 0
  <1>1. NumChunks[img] \in Nat \ {0} /\ LastFrame(img) = NumChunks[img] + 2 /\ f \in Nat
    BY ImageFacts
  <1>2. PushFrame(img, f) # NoFrame
    BY PushType, ReceiverAssumption
  <1> QED
    BY <1>1, <1>2 DEF PushFrame, build_frame

-----------------------------------------------------------------------------
(* In step.                                                                *)

\* The frame that the host sends now, and the one it has had acknowledged.
Sent(f)    == PushFrame(image, f)
Newest(x)  == x = Sent(frame)
Older(x)   == frame > 1 /\ x = Sent(frame - 1)
Foreign(x) == \E op \in {"START", "ABORT", "OTHER"} : x = build_frame(op, SeqOf(1), 0, NoChunk)
Known(x)   == Foreign(x) \/ \E img \in Images : \E f \in 1 .. LastFrame(img) : x = PushFrame(img, f)

LEMMA ForeignFacts ==
    ASSUME NEW x, Foreign(x) PROVE x.op \in {"START", "ABORT", "OTHER"} /\ x.total = 0
  BY DEF Foreign, build_frame

LEMMA PushNotForeign ==
    ASSUME NEW img \in Images, NEW f \in 1 .. LastFrame(img) PROVE ~Foreign(PushFrame(img, f))
  <1>1. /\ PushFrame(img, f).op \notin {"ABORT", "OTHER"}
        /\ PushFrame(img, f).op = "START" => PushFrame(img, f).total # 0
    BY PushFacts
  <1>2. \A x : Foreign(x) => x.op \in {"START", "ABORT", "OTHER"} /\ x.total = 0
    BY ForeignFacts
  <1> QED
    BY <1>1, <1>2

\* What is on the line to the device is of this run, the older frames first.
OfThisRun(x) == Newest(x) \/ Older(x) \/ (host # "waiting" /\ Foreign(x))
LineInv ==
    /\ \A j \in 1 .. Len(h2d) : OfThisRun(h2d[j])
    /\ \A j, k \in 1 .. Len(h2d) : j < k /\ Newest(h2d[j]) => ~Older(h2d[k])

\* A frame of an earlier run is handled only as long as START is the frame sent.
NoOlder == (\A j \in 1 .. Len(h2d) : ~Older(h2d[j])) /\ ~Older(rx)
RxInv ==
    rx # NoFrame =>
        /\ mode = "receive" /\ Known(rx)
        /\ frame > 1 => OfThisRun(rx)
        /\ Newest(rx) => NoOlder

\* After the ACK that the host waits for comes no ACK of another frame.
Acked == host = "waiting" /\ \E j \in 1 .. Len(d2h) : d2h[j] = ACK(SeqOf(frame))
OrderInv ==
    host = "waiting" =>
        \A j, k \in 1 .. Len(d2h) :
            j < k /\ d2h[j] = ACK(SeqOf(frame)) /\ d2h[k].code = "ACK"
                => d2h[k].seq = SeqOf(frame)

\* The transfer as the host believes it to be.
Running == mode = "receive" /\ g_state.active
InSlot(i) == slot[i] = Programmed([img |-> image, i |-> i], TRUE)
Blank == \A i \in Places :
    /\ g_state.written + 1 < i /\ i <= g_state.total => slot[i] = Erased
    /\ g_state.written + 1 = i /\ i <= g_state.total
           => slot[i] \in {Erased, Programmed([img |-> image, i |-> i], FALSE)}
AtFrame == /\ g_state.expected_seq = SeqOf(g_state.written + 2)
           /\ \A i \in 1 .. g_state.written : InSlot(i)
           /\ Blank
TotalInv == g_state.active => \E img \in Images : g_state.total = NumChunks[img]
DeviceInv ==
    frame > 1 /\ Running =>
        /\ g_state.written \in {frame - 2, frame - 1}
        /\ g_state.written = frame - 1 => NoOlder
        /\ AtFrame

\* What the ACK says is so until the host has read it, and for the last frame ever after.
AckedInv ==
    Acked =>
        /\ NoOlder /\ (rx # NoFrame => Newest(rx))
        /\ Running => g_state.written = frame - 1 /\ AtFrame
        /\ frame = LastFrame(image) => mode = "booted" /\ installed = image
DoneInv == host = "done" => mode = "booted" /\ installed = image

ProtocolInv == /\ LineInv /\ RxInv /\ OrderInv /\ TotalInv /\ DeviceInv
               /\ AckedInv /\ DoneInv /\ ChunkFitsItsCell

LEMMA Basics ==
    ASSUME TypeInv
    PROVE  /\ image \in Images /\ NumChunks[image] \in Nat \ {0}
           /\ frame \in Nat /\ frame \in 1 .. LastFrame(image)
           /\ LastFrame(image) = NumChunks[image] + 2
           /\ h2d \in Seq(Frame) /\ d2h \in Seq(Response) /\ Len(h2d) \in Nat /\ Len(d2h) \in Nat
           /\ rx \in Frame \cup {NoFrame}
           /\ g_state \in ota_state_t
           /\ slot \in [Places -> Cell]
           /\ \A i \in 1 .. NumChunks[image] : i \in Places
  <1>1. image \in Images /\ frame \in 1 .. NumChunks[image] + 2
    BY DEF TypeInv, TypeOK, HostTypeOK
  <1>2. NumChunks[image] \in Nat \ {0} /\ LastFrame(image) = NumChunks[image] + 2
    BY <1>1, ImageFacts
  <1>3. \A i \in 1 .. NumChunks[image] : i \in Places
    BY <1>1 DEF Places
  <1> QED
    BY <1>1, <1>2, <1>3 DEF TypeInv, TypeOK, WireTypeOK, ReceiverTypeOK

\* The newest frame, the older one and those of another tool are told apart.
LEMMA Apart ==
    ASSUME TypeInv, SeqOutlasts
    PROVE  /\ frame > 1 => frame - 1 \in 1 .. LastFrame(image) /\ SeqOf(frame - 1) # SeqOf(frame)
           /\ \A x : Newest(x) => /\ x.seq = SeqOf(frame) /\ ~Older(x) /\ ~Foreign(x)
                                  /\ x # NoFrame /\ Known(x)
           /\ \A x : Older(x) => /\ frame > 1 /\ x.seq = SeqOf(frame - 1) /\ ~Foreign(x)
                                 /\ x # NoFrame /\ Known(x)
  <1>1. image \in Images /\ frame \in 1 .. LastFrame(image) /\ frame \in Nat /\ LastFrame(image) \in Nat
    BY Basics
  <1>2. frame > 1 => /\ frame - 1 \in Nat /\ frame = (frame - 1) + 1
                     /\ frame - 1 \in 1 .. LastFrame(image)
    BY <1>1
  <1>3. frame > 1 => SeqOf(frame - 1) # SeqOf(frame)
    BY <1>1, <1>2, SeqFacts
  <1>4. ~Foreign(Sent(frame)) /\ (frame > 1 => ~Foreign(Sent(frame - 1)))
    BY <1>1, <1>2, PushNotForeign DEF Sent
  <1>5. ASSUME NEW x, Newest(x)
        PROVE  x.seq = SeqOf(frame) /\ ~Foreign(x) /\ x # NoFrame /\ Known(x)
    BY <1>1, <1>4, <1>5, PushFacts DEF Newest, Sent, Known
  <1>6. ASSUME NEW x, Older(x)
        PROVE  x.seq = SeqOf(frame - 1) /\ ~Foreign(x) /\ x # NoFrame /\ Known(x) /\ frame > 1
    BY <1>1, <1>2, <1>4, <1>6, PushFacts DEF Older, Sent, Known
  <1> QED
    BY <1>2, <1>3, <1>5, <1>6

LEMMA NewestOp ==
    ASSUME TypeInv, NEW x, Newest(x)
    PROVE  /\ x.op = "START" <=> frame = 1
           /\ x.op = "END" <=> frame = LastFrame(image)
           /\ x.op \notin {"ABORT", "OTHER"}
           /\ x.op = "DATA" => /\ frame - 1 \in 1 .. NumChunks[image]
                               /\ x.chunk = [img |-> image, i |-> frame - 1]
  BY Basics, PushFacts DEF Newest, Sent

LEMMA OlderOp ==
    ASSUME TypeInv, SeqOutlasts, NEW x, Older(x)
    PROVE  /\ x.op = "START" <=> frame = 2
           /\ x.op \notin {"END", "ABORT", "OTHER"}
  <1>1. /\ image \in Images /\ frame \in 1 .. LastFrame(image) /\ LastFrame(image) \in Nat
        /\ frame > 1 /\ frame - 1 \in 1 .. LastFrame(image)
    BY Basics, Apart
  <1>2. /\ PushFrame(image, frame - 1).op = "START" <=> frame - 1 = 1
        /\ PushFrame(image, frame - 1).op = "END" <=> frame - 1 = LastFrame(image)
        /\ PushFrame(image, frame - 1).op \notin {"ABORT", "OTHER"}
    BY <1>1, PushFacts
  <1> QED
    BY <1>1, <1>2 DEF Older, Sent

\* What a frame that is read may be, by its opcode.
LEMMA StartRead ==
    ASSUME TypeInv, SeqOutlasts, RxInv, rx # NoFrame, rx.op = "START", InRange(rx.total)
    PROVE  /\ rx.seq = SeqOf(1) /\ \E img \in Images : rx.total = NumChunks[img]
           /\ frame > 1 => frame = 2 /\ Older(rx)
           /\ Newest(rx) => frame = 1
  <1>1. image \in Images /\ frame \in Nat /\ frame \in 1 .. LastFrame(image)
    BY Basics
  <1>2. ~Foreign(rx)
    BY ForeignFacts, NoSizeNotInRange
  <1>3. PICK img \in Images : \E f \in 1 .. LastFrame(img) : rx = PushFrame(img, f)
    BY <1>2 DEF RxInv, Known
  <1>4. PICK f \in 1 .. LastFrame(img) : rx = PushFrame(img, f)
    BY <1>3
  <1>5. f = 1 /\ rx.seq = SeqOf(1) /\ rx.total = NumChunks[img]
    <2>1. PushFrame(img, f).op = "START" <=> f = 1
      BY PushFacts
    <2>2. f = 1
      BY <1>4, <2>1
    <2>3. PushFrame(img, f).seq = SeqOf(f) /\ PushFrame(img, f).total = NumChunks[img]
      BY <2>2, PushFacts
    <2> QED
      BY <1>4, <2>2, <2>3
  <1>6. Newest(rx) => frame = 1
    BY NewestOp
  <1>7. Older(rx) => frame = 2
    BY OlderOp
  <1>8. frame > 1 => Older(rx)
    BY <1>1, <1>2, <1>6 DEF RxInv, OfThisRun
  <1> QED
    BY <1>3, <1>5, <1>6, <1>7, <1>8

\* The START of this run has the size of the image.
LEMMA StartSent ==
    ASSUME TypeInv, SeqOutlasts, Newest(rx) \/ Older(rx), rx.op = "START"
    PROVE  rx = PushFrame(image, 1) /\ rx.total = NumChunks[image] /\ InRange(rx.total)
  <1>1. image \in Images /\ frame \in Nat
    BY Basics
  <1>2. rx = PushFrame(image, 1)
    <2>1. CASE Newest(rx)
      <3>1. frame = 1
        BY <2>1, NewestOp
      <3> QED
        BY <2>1, <3>1 DEF Newest, Sent
    <2>2. CASE Older(rx)
      <3>1. frame = 2
        BY <2>2, OlderOp
      <3>2. frame - 1 = 1
        BY <3>1
      <3> QED
        BY <2>2, <3>2 DEF Older, Sent
    <2> QED
      BY <2>1, <2>2
  <1>3. rx.total = NumChunks[image]
    BY <1>2 DEF PushFrame, build_frame
  <1> QED
    BY <1>1, <1>2, <1>3, ImageFacts DEF InRange

\* A DATA frame that is in sequence is the newest, and the chunk after those in the slot.
LEMMA DataFits ==
    ASSUME TypeInv, SeqOutlasts, DeviceInv, Running, frame > 1,
           NEW x, OfThisRun(x), Older(x) => ~NoOlder,
           x.op = "DATA", x.seq = g_state.expected_seq
    PROVE  /\ Newest(x) /\ g_state.written = frame - 2 /\ g_state.written + 1 = frame - 1
           /\ g_state.written + 1 \in 1 .. NumChunks[image]
           /\ x.chunk = [img |-> image, i |-> g_state.written + 1]
           /\ frame # LastFrame(image)
  <1>1. image \in Images /\ frame \in Nat /\ frame \in 1 .. LastFrame(image)
    BY Basics
  <1>2. /\ g_state.written \in {frame - 2, frame - 1}
        /\ g_state.written = frame - 1 => NoOlder
        /\ x.seq = SeqOf(g_state.written + 2)
    BY DEF DeviceInv, AtFrame
  <1>3. ~Foreign(x)
    BY ForeignFacts
  <1>4. CASE Newest(x)
    <2>1. x.seq = SeqOf(frame)
      BY <1>4, Apart
    <2>2. SeqOf(frame + 1) # SeqOf(frame)
      BY <1>1, SeqFacts
    <2>3. g_state.written = frame - 2 /\ g_state.written + 1 = frame - 1
      <3>1. g_state.written = frame - 1 => g_state.written + 2 = frame + 1
        BY <1>1
      <3>2. g_state.written # frame - 1
        BY <1>2, <2>1, <2>2, <3>1
      <3> QED
        BY <1>1, <1>2, <3>2
    <2>4. /\ frame - 1 \in 1 .. NumChunks[image] /\ x.chunk = [img |-> image, i |-> frame - 1]
          /\ frame # LastFrame(image)
      BY <1>1, <1>4, NewestOp
    <2> QED
      BY <1>4, <2>3, <2>4
  <1>5. CASE Older(x)
    <2>1. x.seq = SeqOf(frame - 1) /\ SeqOf(frame - 1) # SeqOf(frame)
      BY <1>5, Apart
    <2>2. g_state.written = frame - 2
      BY <1>2, <1>5
    <2>3. g_state.written + 2 = frame
      BY <2>2, <1>1
    <2> QED
      BY <1>2, <2>1, <2>3
  <1> QED
    BY <1>3, <1>4, <1>5 DEF OfThisRun

\* One that an earlier run has left is not taken for START's acknowledgement.
LEMMA DataIsNotStart ==
    ASSUME TypeInv, SeqOutlasts, RxInv, rx # NoFrame, rx.op = "DATA", frame = 1
    PROVE  ~Newest(rx) /\ rx.seq # SeqOf(frame)
  <1>1. ~Foreign(rx)
    BY ForeignFacts
  <1>2. PICK img \in Images : \E f \in 1 .. LastFrame(img) : rx = PushFrame(img, f)
    BY <1>1 DEF RxInv, Known
  <1>3. PICK f \in 1 .. LastFrame(img) : rx = PushFrame(img, f)
    BY <1>2
  <1>4. f - 1 \in 1 .. NumChunks[img] /\ rx.seq = SeqOf(f) /\ NumChunks[img] \in Nat
    BY <1>3, PushFacts, ImageFacts
  <1>5. f \in 2 .. NumChunks[img] + 1
    BY <1>3, <1>4
  <1>6. ~Newest(rx)
    BY NewestOp
  <1> QED
    BY <1>4, <1>5, <1>6, SeqFacts

\* END and ABORT.
LEMMA EndRead ==
    ASSUME TypeInv, SeqOutlasts, RxInv, rx # NoFrame, rx.op = "END", frame > 1
    PROVE  Newest(rx) /\ frame = LastFrame(image)
  <1>1. ~Foreign(rx)
    BY ForeignFacts
  <1>2. ~Older(rx)
    BY OlderOp
  <1>3. Newest(rx)
    BY <1>1, <1>2 DEF RxInv, OfThisRun
  <1> QED
    BY <1>3, NewestOp

LEMMA AbortRead ==
    ASSUME TypeInv, SeqOutlasts, RxInv, rx # NoFrame, rx.op = "ABORT"
    PROVE  ~Newest(rx) /\ (frame > 1 => host # "waiting")
  <1>1. ~Newest(rx) /\ ~Older(rx)
    BY NewestOp, OlderOp
  <1> QED
    BY <1>1 DEF RxInv, OfThisRun

\* Steps that leave the host where it is.
Same == UNCHANGED <<host, image, frame>>
Takes == h2d' = h2d \/ (h2d # <<>> /\ h2d' = Tail(h2d))

\* What is newest and what is older is the same as long as the host stays.
LEMMA SameMeaning ==
    ASSUME Same
    PROVE  /\ SeqOf(frame)' = SeqOf(frame) /\ LastFrame(image)' = LastFrame(image)
           /\ \A x : /\ (Newest(x))' <=> Newest(x)
                     /\ (Older(x))' <=> Older(x)
                     /\ (OfThisRun(x))' <=> OfThisRun(x)
                     /\ (Known(x))' <=> Known(x)
  BY DEF Same, SeqOf, LastFrame, Newest, Older, Foreign, OfThisRun, Known, Sent, PushFrame, build_frame

LEMMA LineKept ==
    ASSUME TypeInv, LineInv, Same, Takes
    PROVE  /\ LineInv'
           /\ \A j \in 1 .. Len(h2d') : \E k \in 1 .. Len(h2d) : h2d'[j] = h2d[k]
  <1>1. CASE h2d' = h2d
    BY <1>1, SameMeaning DEF LineInv
  <1>2. CASE h2d # <<>> /\ h2d' = Tail(h2d)
    <2>1. /\ Len(h2d') \in Nat /\ Len(h2d) \in Nat
          /\ \A j \in 1 .. Len(h2d') : h2d'[j] = h2d[j + 1] /\ j + 1 \in 1 .. Len(h2d)
      BY <1>2, TailFacts, Basics
    <2>2. \A j \in 1 .. Len(h2d') : OfThisRun(h2d'[j])
      BY <2>1 DEF LineInv
    <2>3. \A j, k \in 1 .. Len(h2d') : j < k /\ Newest(h2d'[j]) => ~Older(h2d'[k])
      <3>1. SUFFICES ASSUME NEW j \in 1 .. Len(h2d'), NEW k \in 1 .. Len(h2d'), j < k, Newest(h2d'[j])
                     PROVE  ~Older(h2d'[k])
        OBVIOUS
      <3>2. j + 1 \in 1 .. Len(h2d) /\ k + 1 \in 1 .. Len(h2d) /\ j + 1 < k + 1
        BY <2>1, <3>1
      <3> QED
        BY <2>1, <3>1, <3>2 DEF LineInv
    <2> QED
      BY <2>1, <2>2, <2>3, SameMeaning DEF LineInv
  <1> QED
    BY <1>1, <1>2 DEF Takes

LEMMA NoOlderKept ==
    ASSUME TypeInv, SeqOutlasts, LineInv, Same, Takes, rx' \in {rx, NoFrame}, NoOlder
    PROVE  NoOlder'
  <1>1. ~Older(NoFrame)
    BY Apart
  <1> QED
    BY <1>1, LineKept, SameMeaning DEF NoOlder

\* Responses that are read or lost, and NAKs, change nothing of what the ACKs say.
NoNewAck == \/ d2h' = d2h
            \/ d2h # <<>> /\ d2h' = Tail(d2h)
            \/ \E seq \in 0 .. SeqMod - 1 : d2h' = Append(d2h, NAK(seq))

LEMMA AcksKept ==
    ASSUME TypeInv, OrderInv, NoNewAck, frame' = frame, host = "waiting"
    PROVE  OrderInv' /\ (Acked' => Acked)
  <1>1. d2h \in Seq(Response) /\ Len(d2h) \in Nat /\ SeqOf(frame)' = SeqOf(frame)
    BY Basics DEF SeqOf
  <1>2. CASE d2h' = d2h
    BY <1>1, <1>2 DEF OrderInv, Acked, ACK
  <1>3. CASE d2h # <<>> /\ d2h' = Tail(d2h)
    <2>1. /\ Len(d2h') \in Nat
          /\ \A j \in 1 .. Len(d2h') : d2h'[j] = d2h[j + 1] /\ j + 1 \in 1 .. Len(d2h)
      BY <1>1, <1>3, TailFacts
    <2>2. Acked' => Acked
      BY <1>1, <2>1 DEF Acked, ACK
    <2>3. ASSUME NEW j \in 1 .. Len(d2h'), NEW k \in 1 .. Len(d2h'), j < k,
                 d2h'[j] = ACK(SeqOf(frame)), d2h'[k].code = "ACK"
          PROVE  d2h'[k].seq = SeqOf(frame)
      <3>1. j + 1 \in 1 .. Len(d2h) /\ k + 1 \in 1 .. Len(d2h) /\ j + 1 < k + 1
        BY <2>1, <2>3
      <3> QED
        BY <2>1, <2>3, <3>1 DEF OrderInv
    <2> QED
      BY <1>1, <2>2, <2>3 DEF OrderInv, ACK
  <1>4. CASE \E seq \in 0 .. SeqMod - 1 : d2h' = Append(d2h, NAK(seq))
    <2>1. PICK seq \in 0 .. SeqMod - 1 : d2h' = Append(d2h, NAK(seq))
      BY <1>4
    <2>2. /\ Len(d2h') = Len(d2h) + 1 /\ d2h'[Len(d2h) + 1] = NAK(seq)
          /\ \A j \in 1 .. Len(d2h) : d2h'[j] = d2h[j]
      BY <1>1, <2>1, ResponseType, AppendFacts
    <2>3. NAK(seq).code = "NAK" /\ \A s : ACK(s).code = "ACK"
      BY DEF ACK, NAK
    <2>4. ASSUME NEW j \in 1 .. Len(d2h'), d2h'[j].code = "ACK"
          PROVE  j \in 1 .. Len(d2h) /\ d2h'[j] = d2h[j]
      <3>1. j # Len(d2h) + 1
        BY <2>2, <2>3, <2>4
      <3> QED
        BY <1>1, <2>2, <3>1
    <2>5. Acked' => Acked
      BY <1>1, <2>3, <2>4 DEF Acked, ACK
    <2>6. ASSUME NEW j \in 1 .. Len(d2h'), NEW k \in 1 .. Len(d2h'), j < k,
                 d2h'[j] = ACK(SeqOf(frame)), d2h'[k].code = "ACK"
          PROVE  d2h'[k].seq = SeqOf(frame)
      <3>1. d2h'[j].code = "ACK"
        BY <2>3, <2>6
      <3> QED
        BY <2>4, <2>6, <3>1 DEF OrderInv
    <2> QED
      BY <1>1, <2>5, <2>6 DEF OrderInv, ACK
  <1> QED
    BY <1>2, <1>3, <1>4 DEF NoNewAck

\* The transfer goes on as it is, or is over.
GoesOn == UNCHANGED <<mode, g_state>>
Over   == /\ rx' = NoFrame
          /\ mode # "booted"
          /\ \/ mode' # "receive" /\ g_state' = g_state
             \/ g_state' = Cleared

\* Steps of the device or of the line that put nothing new on it, in the slot or
\* into the transfer.
LEMMA Kept ==
    ASSUME TypeInv, SeqOutlasts, ProtocolInv,
           Same, Takes, NoNewAck, UNCHANGED <<slot, installed>>,
           rx' \in {rx, NoFrame}, GoesOn \/ Over
    PROVE  ProtocolInv'
  <1>1. LineInv' /\ (NoOlder => NoOlder')
    BY LineKept, NoOlderKept DEF ProtocolInv
  <1>2. RxInv'
    <2>1. SUFFICES ASSUME rx' # NoFrame PROVE RxInv'
      BY DEF RxInv
    <2>2. rx' = rx /\ mode' = mode
      BY <2>1 DEF GoesOn, Over
    <2> QED
      BY <1>1, <2>1, <2>2, SameMeaning DEF ProtocolInv, RxInv, Same
  <1>3. OrderInv' /\ (Acked' => Acked)
    <2>1. CASE host = "waiting"
      BY <2>1, AcksKept DEF ProtocolInv, Same
    <2>2. CASE host # "waiting"
      BY <2>2 DEF Same, OrderInv, Acked
    <2> QED
      BY <2>1, <2>2
  <1>4. ~Cleared.active
    BY DEF Cleared
  <1>5. TotalInv'
    BY <1>4 DEF ProtocolInv, TotalInv, GoesOn, Over
  <1>6. ASSUME Running'
        PROVE  Running /\ g_state' = g_state /\ (AtFrame' <=> AtFrame)
    <2>1. Running /\ g_state' = g_state
      BY <1>4, <1>6 DEF Running, GoesOn, Over
    <2> QED
      BY <2>1 DEF AtFrame, InSlot, Blank, Same, SeqOf, Programmed
  <1>7. DeviceInv'
    BY <1>1, <1>6 DEF ProtocolInv, DeviceInv, Same
  <1>8. mode = "booted" => mode' = "booted"
    BY DEF GoesOn, Over
  <1>9. AckedInv'
    BY <1>1, <1>3, <1>6, <1>8, SameMeaning DEF ProtocolInv, AckedInv, Same
  <1>10. DoneInv'
    BY <1>8 DEF ProtocolInv, DoneInv, Same
  <1>11. ChunkFitsItsCell'
    <2>1. SUFFICES ASSUME rx' # NoFrame PROVE ChunkFitsItsCell'
      BY DEF ChunkFitsItsCell
    <2>2. rx' = rx /\ g_state' = g_state
      BY <1>4, <2>1 DEF GoesOn, Over
    <2> QED
      BY <2>2 DEF ProtocolInv, ChunkFitsItsCell, AcceptsData, Programmable, Programmed
  <1> QED
    BY <1>1, <1>2, <1>3, <1>5, <1>7, <1>9, <1>10, <1>11 DEF ProtocolInv

\* A frame that is refused, with nothing written.
LEMMA RefusedKept ==
    ASSUME TypeInv, SeqOutlasts, ProtocolInv, Same, h2d' = h2d,
           UNCHANGED <<g_state, slot, installed>>,
           rx # NoFrame, rx' = NoFrame, Refuse
    PROVE  ProtocolInv'
  <1>1. rx.seq \in 0 .. SeqMod - 1 /\ mode = "receive"
    BY Basics DEF Frame, ProtocolInv, RxInv
  <1>2. NoNewAck
    BY <1>1 DEF Refuse, NoNewAck
  <1>3. mode' \in {mode, "menu"}
    BY CountErrorType DEF Refuse, CountError
  <1> QED
    BY <1>1, <1>2, <1>3, Kept DEF Takes, GoesOn, Over

\* What handling a frame leaves true, whatever it does to the slot and the transfer.
Answers == d2h' = Append(d2h, ACK(rx.seq)) \/ d2h' = Append(d2h, NAK(rx.seq))

LEMMA HandledKept ==
    ASSUME TypeInv, SeqOutlasts, ProtocolInv, Same, h2d' = h2d,
           rx # NoFrame, rx' = NoFrame, Answers
    PROVE  /\ LineInv' /\ RxInv' /\ OrderInv' /\ DoneInv' /\ ChunkFitsItsCell'
           /\ NoOlder => NoOlder'
           /\ Acked => Newest(rx)
           /\ Acked' => Acked \/ (d2h' = Append(d2h, ACK(rx.seq)) /\ rx.seq = SeqOf(frame))
  <1>1. rx.seq \in 0 .. SeqMod - 1 /\ mode = "receive"
    BY Basics DEF Frame, ProtocolInv, RxInv
  <1>2. LineInv' /\ (NoOlder => NoOlder')
    BY LineKept, NoOlderKept DEF ProtocolInv, Takes
  <1>3. Acked => Newest(rx)
    BY DEF ProtocolInv, AckedInv
  <1>4. host # "done"
    BY <1>1 DEF ProtocolInv, DoneInv
  <1>5. OrderInv' /\ (Acked' => Acked \/ (d2h' = Append(d2h, ACK(rx.seq)) /\ rx.seq = SeqOf(frame)))
    <2>1. CASE host # "waiting"
      BY <2>1 DEF Same, OrderInv, Acked
    <2>2. CASE host = "waiting" /\ d2h' = Append(d2h, NAK(rx.seq))
      BY <1>1, <2>2, AcksKept DEF ProtocolInv, Same, NoNewAck
    <2>3. CASE host = "waiting" /\ d2h' = Append(d2h, ACK(rx.seq))
      <3>1. /\ Len(d2h) \in Nat /\ Len(d2h') = Len(d2h) + 1 /\ d2h'[Len(d2h) + 1] = ACK(rx.seq)
            /\ \A j \in 1 .. Len(d2h) : d2h'[j] = d2h[j]
        BY <1>1, <2>3, Basics, ResponseType, AppendFacts
      <3>2. ACK(rx.seq).seq = rx.seq /\ ACK(SeqOf(frame)).seq = SeqOf(frame)
        BY DEF ACK
      <3>3. Acked' => Acked \/ rx.seq = SeqOf(frame)
        BY <2>3, <3>1, <3>2, SameMeaning DEF Acked, Same, ACK
      <3>4. ASSUME NEW j \in 1 .. Len(d2h'), NEW k \in 1 .. Len(d2h'), j < k,
                   d2h'[j] = ACK(SeqOf(frame)), d2h'[k].code = "ACK"
            PROVE  d2h'[k].seq = SeqOf(frame)
        <4>1. j \in 1 .. Len(d2h) /\ d2h'[j] = d2h[j]
          BY <3>1, <3>4
        <4>2. CASE k \in 1 .. Len(d2h)
          BY <2>3, <3>1, <3>4, <4>1, <4>2 DEF ProtocolInv, OrderInv
        <4>3. CASE k = Len(d2h) + 1
          <5>1. Acked
            BY <2>3, <3>4, <4>1 DEF Acked
          <5>2. rx.seq = SeqOf(frame)
            BY <1>3, <5>1, Apart
          <5> QED
            BY <3>1, <3>2, <4>3, <5>2
        <4> QED
          BY <3>1, <4>2, <4>3
      <3> QED
        BY <2>3, <3>3, <3>4, SameMeaning DEF OrderInv, ACK
    <2> QED
      BY <2>1, <2>2, <2>3 DEF Answers
  <1> QED
    BY <1>2, <1>3, <1>4, <1>5 DEF RxInv, DoneInv, ChunkFitsItsCell, Same

\* START gives a blank slot and the sequence number of the first DATA frame.
LEMMA StartStep ==
    ASSUME TypeInv, SeqOutlasts, ProtocolInv, Same, HandleStart
    PROVE  ProtocolInv'
  <1>1. /\ rx # NoFrame /\ rx' = NoFrame /\ rx.op = "START" /\ mode = "receive"
        /\ h2d' = h2d /\ Answers /\ installed' = installed
    BY DEF HandleStart, Handled, Accept, Refuse, Answers
  <1>refused. CASE Refuse /\ UNCHANGED <<g_state, slot>>
    BY <1>refused, <1>1, RefusedKept
  <1>sized. SUFFICES ASSUME InRange(rx.total) PROVE ProtocolInv'
    BY <1>refused DEF HandleStart
  <1>2. /\ rx.seq = SeqOf(1) /\ \E img \in Images : rx.total = NumChunks[img]
        /\ frame > 1 => frame = 2 /\ Older(rx)
        /\ Newest(rx) => frame = 1
    BY <1>1, <1>sized, StartRead DEF ProtocolInv
  <1>3. /\ LineInv' /\ RxInv' /\ OrderInv' /\ DoneInv' /\ ChunkFitsItsCell'
        /\ Acked => frame = 1
        /\ Acked' => Acked \/ (d2h' = Append(d2h, ACK(rx.seq)) /\ rx.seq = SeqOf(frame))
    BY <1>1, <1>2, HandledKept
  <1>4. /\ image \in Images /\ frame \in Nat /\ frame \in 1 .. LastFrame(image)
        /\ LastFrame(image) > 2 /\ NumChunks[image] \in Nat
    BY Basics
  <1>5. SeqOf(2) # SeqOf(1) /\ (SeqOf(1) + 1) % SeqMod = SeqOf(2)
    <2>1. SeqOf(1 + 1) # SeqOf(1) /\ (SeqOf(1) + 1) % SeqMod = SeqOf(1 + 1)
      BY <1>4, SeqFacts
    <2> QED
      BY <2>1
  <1>6. Acked' => frame = 1
    BY <1>2, <1>3, <1>4, <1>5
  <1>7. frame = 1 => NoOlder'
    BY DEF NoOlder, Older, Same
  <1>8. CASE /\ \E upto \in Places \cup {0} :
                    ErasesEnough(upto, rx.total) /\ slot' = WipedTo(upto)
             /\ g_state' = [active |-> TRUE, total |-> rx.total, written |-> 0,
                            expected_seq |-> (rx.seq + 1) % SeqMod]
             /\ mode' = mode
    <2>1. g_state'.written = 0 /\ g_state'.expected_seq = SeqOf(2) /\ g_state'.total = rx.total
      BY <1>2, <1>5, <1>8
    <2>2. rx.total \in Nat /\ \A i \in Places : i \in Nat
      BY <1>2, ImageFacts DEF Places
    <2>3. \A i \in Places : i <= rx.total => slot'[i] = Erased
      <3>1. PICK upto \in Places \cup {0} : upto >= rx.total /\ slot' = WipedTo(upto)
        BY <1>8 DEF ErasesEnough
      <3> QED
        BY <2>2, <3>1 DEF WipedTo
    <2>4. AtFrame'
      <3>1. Blank'
        BY <2>1, <2>2, <2>3 DEF Blank
      <3>2. \A i \in 1 .. g_state'.written : FALSE
        BY <2>1
      <3>3. SeqOf(g_state.written + 2)' = SeqOf(2)
        BY <2>1 DEF SeqOf
      <3> QED
        BY <2>1, <3>1, <3>2, <3>3 DEF AtFrame
    <2>5. DeviceInv'
      BY <1>2, <1>4, <2>1, <2>4 DEF DeviceInv, Same
    <2>6. TotalInv'
      BY <1>2, <2>1 DEF TotalInv
    <2>7. AckedInv'
      BY <1>1, <1>4, <1>6, <1>7, <2>1, <2>4, SameMeaning DEF AckedInv, Same
    <2> QED
      BY <1>3, <2>5, <2>6, <2>7 DEF ProtocolInv
  <1>9. CASE /\ \E upto \in Places \cup {0} : slot' = WipedTo(upto)
             /\ g_state' = g_state /\ Refuse
    <2>1. mode' \in {mode, "menu"} /\ (Acked' => Acked)
      <3>1. ACK(rx.seq).code # NAK(rx.seq).code
        BY DEF ACK, NAK
      <3>2. d2h' # Append(d2h, ACK(rx.seq))
        <4>1. rx.seq \in 0 .. SeqMod - 1 /\ Len(d2h) \in Nat
          BY <1>1, Basics DEF Frame
        <4>2. /\ Append(d2h, ACK(rx.seq))[Len(d2h) + 1] = ACK(rx.seq)
              /\ Append(d2h, NAK(rx.seq))[Len(d2h) + 1] = NAK(rx.seq)
          BY <4>1, Basics, ResponseType, AppendFacts
        <4> QED
          BY <1>9, <3>1, <4>2 DEF Refuse
      <3> QED
        BY <1>3, <1>9, <3>2 DEF Refuse, CountError
    <2>2. PICK upto : slot' = WipedTo(upto)
      BY <1>9
    <2>3. \A i \in Places : slot'[i] \in {slot[i], Erased}
      BY <2>2 DEF WipedTo
    <2>4. Blank => Blank'
      BY <1>9, <2>3 DEF Blank, Programmed, Same
    <2>5. ASSUME AtFrame, g_state.written = 0 PROVE AtFrame'
      BY <1>9, <2>4, <2>5 DEF AtFrame, SeqOf
    <2>6. Running' => Running
      BY <1>1, <1>9, <2>1 DEF Running
    <2>7. DeviceInv'
      <3>1. SUFFICES ASSUME frame > 1, Running PROVE g_state.written = 0 /\ AtFrame'
        BY <1>2, <1>4, <1>9, <2>6 DEF DeviceInv, Same
      <3>2. ~NoOlder
        BY <1>2, <3>1 DEF NoOlder
      <3>3. g_state.written = 0 /\ AtFrame
        BY <1>2, <3>1, <3>2 DEF ProtocolInv, DeviceInv
      <3> QED
        BY <2>5, <3>3
    <2>8. AckedInv'
      <3>1. SUFFICES ASSUME Acked' PROVE AckedInv'
        BY DEF AckedInv
      <3>2. frame = 1 /\ Acked
        BY <1>6, <2>1, <3>1
      <3>3. Running => g_state.written = 0 /\ AtFrame
        BY <3>2 DEF ProtocolInv, AckedInv
      <3> QED
        BY <1>1, <1>4, <1>7, <1>9, <2>5, <2>6, <3>2, <3>3, SameMeaning DEF AckedInv, Same
    <2>9. TotalInv'
      BY <1>9 DEF TotalInv, ProtocolInv
    <2> QED
      BY <1>3, <2>7, <2>8, <2>9 DEF ProtocolInv
  <1> QED
    BY <1>8, <1>9, <1>sized DEF HandleStart

LEMMA NotBoth ==
    ASSUME TypeInv, NEW seq \in 0 .. SeqMod - 1
    PROVE  Append(d2h, ACK(seq)) # Append(d2h, NAK(seq))
  <1>1. /\ Append(d2h, ACK(seq))[Len(d2h) + 1] = ACK(seq)
        /\ Append(d2h, NAK(seq))[Len(d2h) + 1] = NAK(seq)
    BY Basics, ResponseType, AppendFacts
  <1> QED
    BY <1>1 DEF ACK, NAK

\* DATA, accepted, is the chunk after those in the slot.
LEMMA DataStep ==
    ASSUME TypeInv, SeqOutlasts, ProtocolInv, Same, HandleData
    PROVE  ProtocolInv'
  <1>1. /\ rx # NoFrame /\ rx' = NoFrame /\ rx.op = "DATA" /\ mode = "receive"
        /\ h2d' = h2d /\ Answers /\ installed' = installed /\ rx.seq \in 0 .. SeqMod - 1
    BY Basics DEF HandleData, Handled, Accept, Refuse, Answers, Frame
  <1>2. /\ LineInv' /\ RxInv' /\ OrderInv' /\ DoneInv' /\ ChunkFitsItsCell'
        /\ NoOlder => NoOlder'
        /\ Acked => Newest(rx)
        /\ Acked' => Acked \/ (d2h' = Append(d2h, ACK(rx.seq)) /\ rx.seq = SeqOf(frame))
    BY <1>1, HandledKept
  <1>3. /\ image \in Images /\ frame \in Nat /\ frame \in 1 .. LastFrame(image)
        /\ LastFrame(image) > 2 /\ NumChunks[image] \in Nat
        /\ g_state.written \in Nat /\ g_state.total \in Nat
        /\ slot \in [Places -> Cell]
    BY Basics DEF ota_state_t
  <1>4. frame = 1 => ~Acked'
    BY <1>1, <1>2, DataIsNotStart DEF ProtocolInv
  <1>5. ASSUME AcceptsData, frame > 1
        PROVE  /\ Newest(rx) /\ g_state.written = frame - 2 /\ NoOlder
               /\ rx.chunk = [img |-> image, i |-> g_state.written + 1]
               /\ g_state.written + 1 \in 1 .. NumChunks[image]
               /\ frame # LastFrame(image) /\ AtFrame
    <2>1. Running /\ OfThisRun(rx) /\ rx.seq = g_state.expected_seq
      BY <1>1, <1>5 DEF Running, AcceptsData, ProtocolInv, RxInv
    <2>2. Older(rx) => ~NoOlder
      BY DEF NoOlder
    <2>3. AtFrame
      BY <1>5, <2>1 DEF ProtocolInv, DeviceInv
    <2>4. /\ Newest(rx) /\ g_state.written = frame - 2
          /\ rx.chunk = [img |-> image, i |-> g_state.written + 1]
          /\ g_state.written + 1 \in 1 .. NumChunks[image]
          /\ frame # LastFrame(image)
      BY <1>1, <1>5, <2>1, <2>2, DataFits DEF ProtocolInv
    <2> QED
      BY <1>1, <2>3, <2>4 DEF ProtocolInv, RxInv
  <1>6. CASE /\ AcceptsData
             /\ slot' = [slot EXCEPT ![g_state.written + 1] = Programmed(rx.chunk, TRUE)]
             /\ g_state' = [g_state EXCEPT !.written = @ + 1, !.expected_seq = (@ + 1) % SeqMod]
             /\ mode' = mode
    <2>1. /\ g_state'.written = g_state.written + 1 /\ g_state'.total = g_state.total
          /\ g_state'.expected_seq = (g_state.expected_seq + 1) % SeqMod
          /\ g_state'.active = g_state.active
      BY <1>6, Basics DEF ota_state_t
    <2>2. ASSUME frame > 1 PROVE AtFrame' /\ NoOlder' /\ g_state'.written = frame - 1
      <3>1. /\ g_state.written = frame - 2 /\ NoOlder
            /\ rx.chunk = [img |-> image, i |-> g_state.written + 1]
            /\ g_state.written + 1 \in 1 .. NumChunks[image] /\ AtFrame
        BY <1>5, <1>6, <2>2
      <3>2. /\ g_state.written + 1 \in Places
            /\ \A i \in 1 .. g_state.written : i \in Places /\ i # g_state.written + 1
            /\ \A i \in Places : i # g_state.written + 1 => slot'[i] = slot[i]
        BY <1>3, <1>6, <3>1, Basics
      <3>3. g_state'.expected_seq = SeqOf(g_state'.written + 2)
        <4>1. (SeqOf(g_state.written + 2) + 1) % SeqMod = SeqOf((g_state.written + 2) + 1)
          BY <1>3, SeqFacts
        <4> QED
          BY <1>3, <2>1, <3>1, <4>1 DEF AtFrame
      <3>4. \A i \in 1 .. g_state'.written : InSlot(i)'
        <4>1. \A i \in 1 .. g_state'.written : i = g_state.written + 1 \/ i \in 1 .. g_state.written
          BY <1>3, <2>1
        <4>2. slot'[g_state.written + 1] = Programmed([img |-> image, i |-> g_state.written + 1], TRUE)
          BY <1>3, <1>6, <3>1, <3>2
        <4>3. \A i \in 1 .. g_state.written : slot'[i] = slot[i]
          BY <3>2
        <4> QED
          BY <3>1, <4>1, <4>2, <4>3 DEF AtFrame, InSlot, Same, Programmed
      <3>5. Blank'
        <4>1. \A i \in Places : i \in Nat
          BY ImageFacts DEF Places
        <4>2. \A i \in Places : g_state.written + 1 < i /\ i <= g_state.total => slot'[i] = Erased
          <5>1. \A i \in Places : g_state.written + 1 < i /\ i <= g_state.total => slot[i] = Erased
            BY <3>1 DEF AtFrame, Blank
          <5>2. \A i \in Places : g_state.written + 1 < i => i # g_state.written + 1
            BY <1>3, <4>1
          <5> QED
            BY <3>2, <5>1, <5>2
        <4>3. ASSUME NEW i \in Places, g_state'.written + 1 < i \/ g_state'.written + 1 = i,
                     i <= g_state'.total
              PROVE  slot'[i] = Erased
          <5>1. g_state.written + 1 < i
            <6>1. i \in Nat /\ g_state'.written = g_state.written + 1
              BY <2>1, <4>1
            <6> QED
              BY <1>3, <4>3, <6>1
          <5>2. i <= g_state.total
            BY <2>1, <4>3
          <5> QED
            BY <4>2, <5>1, <5>2
        <4> QED
          BY <4>3 DEF Blank
      <3> QED
        BY <1>2, <1>3, <2>1, <3>1, <3>3, <3>4, <3>5 DEF AtFrame, SeqOf
    <2>3. DeviceInv'
      BY <1>3, <2>2 DEF DeviceInv, Same
    <2>4. AckedInv'
      <3>1. SUFFICES ASSUME Acked' PROVE AckedInv'
        BY DEF AckedInv
      <3>2. frame > 1
        BY <1>3, <1>4, <3>1
      <3>3. frame # LastFrame(image)
        BY <1>5, <1>6, <3>2
      <3> QED
        BY <1>1, <2>2, <3>2, <3>3, SameMeaning DEF AckedInv, Same
    <2>5. TotalInv'
      BY <2>1 DEF TotalInv, ProtocolInv
    <2> QED
      BY <1>2, <2>3, <2>4, <2>5 DEF ProtocolInv
  <1>7. CASE /\ AcceptsData /\ g_state' = g_state /\ Refuse
             /\ \/ slot' = [slot EXCEPT ![g_state.written + 1] = Programmed(rx.chunk, FALSE)]
                \/ slot' = slot
    <2>1. mode' \in {mode, "menu"} /\ (Acked' => Acked)
      BY <1>1, <1>2, <1>7, NotBoth DEF Refuse, CountError
    <2>2. ASSUME frame > 1 PROVE AtFrame'
      <3>1. /\ rx.chunk = [img |-> image, i |-> g_state.written + 1] /\ AtFrame
        BY <1>5, <1>7, <2>2
      <3>2. \A i \in Places : i # g_state.written + 1 => slot'[i] = slot[i]
        BY <1>3, <1>7
      <3>3. \A i \in 1 .. g_state.written : slot'[i] = slot[i]
        <4>1. \A i \in 1 .. g_state.written : i \in Places /\ i # g_state.written + 1
          BY <1>3, <1>5, <1>7, <2>2, Basics
        <4> QED
          BY <3>2, <4>1
      <3>4. g_state.written + 1 \in Places =>
              slot'[g_state.written + 1] \in
                {slot[g_state.written + 1], Programmed([img |-> image, i |-> g_state.written + 1], FALSE)}
        BY <1>3, <1>7, <3>1
      <3>5. Blank'
        <4>1. \A i \in Places : i \in Nat
          BY ImageFacts DEF Places
        <4> QED
          BY <1>3, <1>7, <3>1, <3>2, <3>4, <4>1 DEF AtFrame, Blank, Same, Programmed
      <3> QED
        BY <1>7, <3>1, <3>3, <3>5 DEF AtFrame, InSlot, SeqOf, Same, Programmed
    <2>3. Running
      BY <1>1, <1>7 DEF Running, AcceptsData
    <2>4. ~Acked'
      <3>1. SUFFICES ASSUME Acked PROVE frame = 1
        BY <1>4, <2>1
      <3>2. g_state.written = frame - 1
        BY <2>3, <3>1 DEF ProtocolInv, AckedInv
      <3> QED
        BY <1>3, <1>5, <1>7, <3>2
    <2>5. DeviceInv'
      <3>1. frame > 1 => g_state.written = frame - 2
        BY <1>5, <1>7
      <3> QED
        BY <1>3, <1>7, <2>2, <3>1 DEF DeviceInv, Same
    <2>6. TotalInv' /\ AckedInv'
      BY <1>7, <2>4 DEF TotalInv, ProtocolInv, AckedInv
    <2> QED
      BY <1>2, <2>5, <2>6 DEF ProtocolInv
  <1>8. CASE /\ ~(AcceptsData /\ Programmable(g_state.written + 1))
             /\ slot' = (IF AcceptsData THEN [slot EXCEPT ![g_state.written + 1] = Spoilt] ELSE slot)
             /\ g_state' = g_state /\ Refuse
    <2>1. slot' = slot
      BY <1>1, <1>8 DEF ProtocolInv, ChunkFitsItsCell
    <2> QED
      BY <1>1, <1>8, <2>1, RefusedKept
  <1> QED
    BY <1>6, <1>7, <1>8 DEF HandleData, Accept

\* END, accepted: the chunks of the slot tell which image it is.
LEMMA EndStep ==
    ASSUME TypeInv, SeqOutlasts, ProtocolInv, Same, HandleEnd
    PROVE  ProtocolInv'
  <1>1. /\ rx # NoFrame /\ rx' = NoFrame /\ rx.op = "END" /\ mode = "receive"
        /\ h2d' = h2d /\ slot' = slot /\ Answers
    BY DEF HandleEnd, Handled, Accept, Refuse, Answers
  <1>2. /\ LineInv' /\ RxInv' /\ OrderInv' /\ DoneInv' /\ ChunkFitsItsCell'
        /\ NoOlder => NoOlder'
    <2>1. CASE installed' = installed
      BY <1>1, <2>1, HandledKept
    <2>2. host # "done"
      BY <1>1 DEF ProtocolInv, DoneInv
    <2> QED
      BY <1>1, <2>2, HandledKept DEF DoneInv, Same
  <1>3. /\ image \in Images /\ frame \in Nat /\ frame \in 1 .. LastFrame(image)
        /\ LastFrame(image) = NumChunks[image] + 2 /\ NumChunks[image] \in Nat \ {0}
    BY Basics
  <1>4. ASSUME NEW img \in Images, EndsWith(img), installed' = img, mode' = "booted",
               g_state' = Cleared
        PROVE  ProtocolInv'
    <2>1. ~g_state'.active
      BY <1>4 DEF Cleared
    <2>2. DeviceInv' /\ TotalInv'
      BY <2>1 DEF DeviceInv, TotalInv, Running
    <2>3. ASSUME frame > 1 PROVE NoOlder' /\ frame = LastFrame(image) /\ img = image
      <3>1. Newest(rx) /\ frame = LastFrame(image)
        BY <1>1, <2>3, EndRead DEF ProtocolInv
      <3>2. NoOlder'
        BY <1>1, <1>2, <3>1 DEF ProtocolInv, RxInv
      <3>3. g_state.written \in {frame - 2, frame - 1} /\ AtFrame
        BY <1>1, <1>4, <2>3 DEF ProtocolInv, DeviceInv, Running, EndsWith
      <3>4. 1 \in 1 .. g_state.written /\ 1 \in 1 .. NumChunks[img]
        BY <1>3, <3>1, <3>3, ImageFacts
      <3>5. slot[1] = Programmed([img |-> image, i |-> 1], TRUE)
        BY <3>3, <3>4 DEF AtFrame, InSlot
      <3>6. slot[1] = [img |-> img, i |-> 1, whole |-> TRUE]
        BY <1>4, <3>4 DEF EndsWith, Verifies
      <3>7. img = image
        BY <3>5, <3>6 DEF Programmed
      <3> QED
        BY <3>1, <3>2, <3>7
    <2>4. frame = 1 => NoOlder' /\ frame # LastFrame(image)
      BY <1>3 DEF NoOlder, Older, Same
    <2>5. AckedInv'
      BY <1>1, <1>3, <1>4, <2>1, <2>3, <2>4, SameMeaning DEF AckedInv, Running, Same
    <2> QED
      BY <1>2, <2>2, <2>5 DEF ProtocolInv
  <1>5. CASE Refuse /\ UNCHANGED <<g_state, installed>>
    BY <1>1, <1>5, RefusedKept
  <1> QED
    BY <1>4, <1>5 DEF HandleEnd

LEMMA AbortStep ==
    ASSUME TypeInv, SeqOutlasts, ProtocolInv, Same, HandleAbort
    PROVE  ProtocolInv'
  <1>1. /\ rx # NoFrame /\ rx' = NoFrame /\ rx.op = "ABORT" /\ mode = "receive" /\ mode' = "menu"
        /\ UNCHANGED <<h2d, slot, installed, g_state>> /\ Answers
    BY DEF HandleAbort, Handled, Accept, Answers
  <1>2. LineInv' /\ RxInv' /\ OrderInv' /\ DoneInv' /\ ChunkFitsItsCell'
    BY <1>1, HandledKept
  <1>3. frame > 1 => host # "waiting"
    BY <1>1, AbortRead DEF ProtocolInv
  <1>4. DeviceInv' /\ TotalInv'
    BY <1>1 DEF ProtocolInv, DeviceInv, TotalInv, Running
  <1>5. AckedInv'
    <2>1. SUFFICES ASSUME Acked' PROVE AckedInv'
      BY DEF AckedInv
    <2>2. frame = 1 /\ frame # LastFrame(image)
      BY <1>3, <2>1, Basics DEF Acked, Same
    <2> QED
      BY <1>1, <2>2, SameMeaning DEF AckedInv, NoOlder, Older, Running, Same
  <1> QED
    BY <1>2, <1>4, <1>5 DEF ProtocolInv

LEMMA HandleStep ==
    ASSUME TypeInv, SeqOutlasts, ProtocolInv, Same, Handle
    PROVE  ProtocolInv'
  <1>1. CASE HandleOther
    BY <1>1, RefusedKept DEF HandleOther, Handled
  <1> QED
    BY <1>1, StartStep, DataStep, EndStep, AbortStep DEF Handle

\* The frame that is read: a DATA frame in sequence meets a cell that takes it.
LEMMA ReadStep ==
    ASSUME TypeInv, SeqOutlasts, ProtocolInv, Same, ReadFrame
    PROVE  ProtocolInv'
  <1>1. /\ mode = "receive" /\ rx = NoFrame /\ h2d # <<>> /\ rx' = Head(h2d) /\ h2d' = Tail(h2d)
        /\ UNCHANGED <<d2h, mode, g_state, slot, installed>>
    BY DEF ReadFrame
  <1>2. /\ rx' \in Frame /\ rx' = h2d[1] /\ Len(h2d) \in Nat \ {0} /\ Len(h2d') \in Nat
        /\ \A j \in 1 .. Len(h2d') : h2d'[j] = h2d[j + 1] /\ j + 1 \in 1 .. Len(h2d)
    BY <1>1, Basics, TailFacts
  <1>3. LineInv'
    BY <1>1, LineKept DEF ProtocolInv, Takes
  <1>4. OfThisRun(rx')
    BY <1>2 DEF ProtocolInv, LineInv
  <1>5. Newest(rx') \/ NoOlder => NoOlder'
    <2>1. ASSUME Newest(rx'), NEW j \in 1 .. Len(h2d') PROVE ~Older(h2d'[j])
      <3>1. 1 \in 1 .. Len(h2d) /\ j + 1 \in 1 .. Len(h2d) /\ 1 < j + 1
        BY <1>2
      <3> QED
        BY <1>2, <2>1, <3>1 DEF ProtocolInv, LineInv
    <2>2. Newest(rx') => ~Older(rx')
      BY Apart
    <2>3. Newest(rx') => NoOlder'
      BY <2>1, <2>2, SameMeaning DEF NoOlder
    <2>4. NoOlder => NoOlder'
      BY <1>2, SameMeaning DEF NoOlder
    <2> QED
      BY <2>3, <2>4
  <1>6. RxInv'
    <2>1. Known(rx')
      BY <1>4, Apart DEF OfThisRun, Known
    <2> QED
      BY <1>1, <1>4, <1>5, <2>1, SameMeaning DEF RxInv, Same
  <1>7. /\ OrderInv' <=> OrderInv
        /\ Acked' <=> Acked
        /\ AtFrame' <=> AtFrame
        /\ Running' <=> Running
    BY <1>1 DEF Same, OrderInv, Acked, AtFrame, Running, Blank, InSlot, SeqOf, ACK, Programmed
  <1>8. DeviceInv'
    BY <1>1, <1>5, <1>7 DEF ProtocolInv, DeviceInv, Same
  <1>9. AckedInv'
    <2>1. SUFFICES ASSUME Acked PROVE AckedInv'
      BY <1>7 DEF AckedInv
    <2>2. NoOlder /\ host = "waiting"
      BY <2>1 DEF ProtocolInv, AckedInv, Acked
    <2>3. Newest(rx')
      BY <1>2, <1>4, <2>2 DEF OfThisRun, NoOlder
    <2> QED
      BY <1>1, <1>5, <1>7, <2>1, <2>3, SameMeaning DEF ProtocolInv, AckedInv, Same
  <1>10. ChunkFitsItsCell'
    <2>1. SUFFICES ASSUME rx'.op = "DATA", AcceptsData' PROVE Programmable(g_state.written + 1)'
      BY <1>1 DEF ChunkFitsItsCell
    <2>2. Running /\ rx'.seq = g_state.expected_seq /\ g_state.written + 1 <= g_state.total
      BY <1>1, <2>1 DEF AcceptsData, Running
    <2>3. Older(rx') => ~NoOlder
      BY <1>2 DEF NoOlder
    <2>4. frame > 1
      <3>1. Newest(rx') => frame > 1
        <4>1. Newest(rx') => frame # 1
          BY <2>1, NewestOp
        <4> QED
          BY <4>1, Basics
      <3>2. ~Foreign(rx')
        BY <2>1, ForeignFacts
      <3> QED
        BY <1>4, <3>1, <3>2 DEF OfThisRun, Older
    <2>5. /\ rx'.chunk = [img |-> image, i |-> g_state.written + 1]
          /\ g_state.written + 1 \in 1 .. NumChunks[image]
      BY <1>4, <2>1, <2>2, <2>3, <2>4, DataFits DEF ProtocolInv
    <2>6. AtFrame /\ g_state.written + 1 \in Places
      BY <2>2, <2>4, <2>5, Basics DEF ProtocolInv, DeviceInv
    <2>7. slot[g_state.written + 1] \in {Erased, Programmed(rx'.chunk, FALSE)}
      BY <2>2, <2>5, <2>6 DEF AtFrame, Blank
    <2> QED
      BY <1>1, <2>7 DEF Programmable, Programmed
  <1>11. TotalInv' /\ DoneInv'
    BY <1>1 DEF ProtocolInv, TotalInv, DoneInv, Same
  <1> QED
    BY <1>3, <1>6, <1>7, <1>8, <1>9, <1>10, <1>11 DEF ProtocolInv

\* The host: the same frame again, or no more.
LEMMA SentAgain ==
    ASSUME TypeInv, SeqOutlasts, ProtocolInv, UNCHANGED receiver, UNCHANGED <<image, frame>>,
           host = "waiting", d2h' = d2h \/ (d2h # <<>> /\ d2h' = Tail(d2h)),
           \/ host' = host /\ h2d' = Append(h2d, PushFrame(image, frame))
           \/ host' = "failed" /\ h2d' = h2d
    PROVE  ProtocolInv'
  <1>1. UNCHANGED <<mode, g_state, rx, slot, installed>>
    BY DEF receiver
  <1>2. /\ OrderInv /\ NoNewAck
    BY DEF ProtocolInv, NoNewAck
  <1>3. OrderInv' /\ (Acked' => Acked)
    BY <1>2, AcksKept DEF OrderInv, Acked
  <1>4. CASE host' = "failed" /\ h2d' = h2d
    <2>1. LineInv' /\ RxInv' /\ ~Acked' /\ host' # "done" /\ (NoOlder => NoOlder')
      BY <1>1, <1>4
      DEF ProtocolInv, LineInv, RxInv, Acked, NoOlder, OfThisRun, Newest, Older, Foreign, Known,
          Sent, PushFrame, build_frame, SeqOf, LastFrame
    <2>2. DeviceInv' /\ TotalInv' /\ ChunkFitsItsCell'
      BY <1>1, <2>1
      DEF ProtocolInv, DeviceInv, TotalInv, ChunkFitsItsCell, Running, AtFrame, InSlot, Blank,
          Programmed, SeqOf, AcceptsData, Programmable
    <2> QED
      BY <1>3, <2>1, <2>2 DEF ProtocolInv, AckedInv, DoneInv
  <1>5. CASE host' = host /\ h2d' = Append(h2d, PushFrame(image, frame))
    <2> DEFINE x == PushFrame(image, frame)
    <2>1. Same
      BY <1>5 DEF Same
    <2>2. Newest(x) /\ ~Older(x) /\ x \in Frame
      <3>1. Newest(x)
        BY DEF Newest, Sent
      <3>2. ~Older(x)
        BY <3>1, Apart
      <3> QED
        BY <3>1, <3>2, Basics, PushType
    <2> HIDE DEF x
    <2>3. /\ Len(h2d) \in Nat /\ Len(h2d') = Len(h2d) + 1 /\ h2d'[Len(h2d) + 1] = x
          /\ \A j \in 1 .. Len(h2d) : h2d'[j] = h2d[j]
      BY <1>5, <2>2, Basics, AppendFacts DEF x
    <2>4. \A j \in 1 .. Len(h2d') : j = Len(h2d) + 1 \/ j \in 1 .. Len(h2d)
      BY <2>3
    <2>5. NoOlder => NoOlder'
      BY <1>1, <2>1, <2>2, <2>3, <2>4, SameMeaning DEF NoOlder
    <2>6. LineInv'
      <3>1. \A j \in 1 .. Len(h2d') : OfThisRun(h2d'[j])
        BY <2>2, <2>3, <2>4 DEF ProtocolInv, LineInv, OfThisRun
      <3>2. ASSUME NEW j \in 1 .. Len(h2d'), NEW k \in 1 .. Len(h2d'), j < k, Newest(h2d'[j])
            PROVE  ~Older(h2d'[k])
        <4>1. CASE k = Len(h2d) + 1
          BY <2>2, <2>3, <4>1
        <4>2. CASE k \in 1 .. Len(h2d)
          <5>1. j \in 1 .. Len(h2d)
            BY <2>3, <3>2, <4>2
          <5> QED
            BY <2>3, <3>2, <4>2, <5>1 DEF ProtocolInv, LineInv
        <4> QED
          BY <2>4, <4>1, <4>2
      <3> QED
        BY <2>1, <3>1, <3>2, SameMeaning DEF LineInv
    <2>7. RxInv'
      BY <1>1, <2>1, <2>5, SameMeaning DEF ProtocolInv, RxInv, Same
    <2>8. DeviceInv' /\ TotalInv' /\ ChunkFitsItsCell' /\ (Running' <=> Running) /\ (AtFrame' <=> AtFrame)
      BY <1>1, <2>1, <2>5
      DEF ProtocolInv, DeviceInv, TotalInv, ChunkFitsItsCell, Running, AtFrame, InSlot, Blank,
          Programmed, SeqOf, AcceptsData, Programmable, Same
    <2>9. AckedInv' /\ DoneInv'
      BY <1>1, <1>3, <2>1, <2>5, <2>8, SameMeaning DEF ProtocolInv, AckedInv, DoneInv, Same
    <2> QED
      BY <1>3, <2>6, <2>7, <2>8, <2>9 DEF ProtocolInv
  <1> QED
    BY <1>4, <1>5

\* What the host knows when it reads the ACK it has waited for.
LEMMA AckRead ==
    ASSUME TypeInv, SeqOutlasts, ProtocolInv, UNCHANGED receiver, Acknowledged
    PROVE  /\ UNCHANGED <<mode, g_state, rx, slot, installed>>
           /\ host = "waiting" /\ d2h # <<>> /\ image' = image
           /\ d2h[1] = ACK(SeqOf(frame)) /\ Acked
           /\ Len(d2h) \in Nat \ {0} /\ 1 \in 1 .. Len(d2h) /\ Len(d2h') = Len(d2h) - 1
           /\ \A j \in 1 .. Len(d2h') : d2h'[j].code = "ACK" => d2h'[j].seq = SeqOf(frame)
           /\ NoOlder /\ (rx # NoFrame => Newest(rx))
           /\ \A j \in 1 .. Len(h2d) : Newest(h2d[j])
           /\ Running => g_state.written = frame - 1 /\ AtFrame
           /\ frame = LastFrame(image) => mode = "booted" /\ installed = image
  <1>1. /\ UNCHANGED <<mode, g_state, rx, slot, installed>>
        /\ host = "waiting" /\ d2h # <<>> /\ d2h' = Tail(d2h) /\ image' = image
        /\ d2h[1].seq = SeqOf(frame) /\ d2h[1].code = "ACK"
    BY Basics, TailFacts DEF receiver, Acknowledged, Acknowledges
  <1>2. /\ d2h \in Seq(Response) /\ Len(d2h) \in Nat \ {0} /\ 1 \in 1 .. Len(d2h)
        /\ Len(d2h') = Len(d2h) - 1
        /\ \A j \in 1 .. Len(d2h') : d2h'[j] = d2h[j + 1] /\ j + 1 \in 1 .. Len(d2h) /\ 1 < j + 1
    BY <1>1, Basics, TailFacts
  <1>3. d2h[1] = ACK(SeqOf(frame))
    <2>1. d2h[1] \in Response
      BY <1>2
    <2>2. d2h[1] = [code |-> d2h[1].code, seq |-> d2h[1].seq]
      BY <2>1 DEF Response
    <2> QED
      BY <1>1, <2>2 DEF ACK
  <1>4. Acked
    BY <1>1, <1>2, <1>3 DEF Acked
  <1>5. /\ NoOlder /\ (rx # NoFrame => Newest(rx))
        /\ Running => g_state.written = frame - 1 /\ AtFrame
        /\ frame = LastFrame(image) => mode = "booted" /\ installed = image
    BY <1>4 DEF ProtocolInv, AckedInv
  <1>6. \A j \in 1 .. Len(h2d) : Newest(h2d[j])
    BY <1>1, <1>5 DEF ProtocolInv, LineInv, NoOlder, OfThisRun
  <1>7. \A j \in 1 .. Len(d2h') : d2h'[j].code = "ACK" => d2h'[j].seq = SeqOf(frame)
    BY <1>1, <1>2, <1>3 DEF ProtocolInv, OrderInv
  <1> QED
    BY <1>1, <1>2, <1>3, <1>4, <1>5, <1>6, <1>7

\* It sends the next frame: what was the newest is the older one.
LEMMA NextSent ==
    ASSUME TypeInv, SeqOutlasts, ProtocolInv, UNCHANGED receiver, Acknowledged,
           frame # LastFrame(image)
    PROVE  /\ host' = host /\ frame' = frame + 1 /\ attempt' = 1
           /\ SeqOf(frame)' = SeqOf(frame + 1) /\ SeqOf(frame + 1) # SeqOf(frame)
           /\ \A y : /\ (Newest(y))' => y \in Frame /\ ~Newest(y)
                     /\ (Older(y))' <=> Newest(y)
                     /\ (Known(y))' <=> Known(y)
           /\ Len(h2d') = Len(h2d) + 1 /\ h2d'[Len(h2d) + 1] = (Sent(frame))'
           /\ \A j \in 1 .. Len(h2d) : h2d'[j] = h2d[j]
           /\ \A j \in 1 .. Len(h2d') : j = Len(h2d) + 1 \/ j \in 1 .. Len(h2d)
           /\ \A j \in 1 .. Len(d2h') : d2h'[j] # ACK(SeqOf(frame + 1))
  <1>1. /\ host' = host /\ frame' = frame + 1 /\ attempt' = 1 /\ image' = image
        /\ h2d' = Append(h2d, PushFrame(image, frame + 1))
    BY DEF Acknowledged
  <1>2. /\ image \in Images /\ frame \in Nat /\ frame \in 1 .. LastFrame(image)
        /\ LastFrame(image) \in Nat /\ h2d \in Seq(Frame)
    BY Basics
  <1> DEFINE x == PushFrame(image, frame + 1)
  <1>3. frame + 1 \in 1 .. LastFrame(image) /\ SeqOf(frame + 1) # SeqOf(frame) /\ frame' > 1
    BY <1>1, <1>2, SeqFacts
  <1>4. x \in Frame /\ x.seq = SeqOf(frame + 1) /\ Sent(frame).seq = SeqOf(frame)
    BY <1>2, <1>3, PushType, PushFacts DEF Sent
  <1>5. \A y : /\ (Newest(y))' <=> y = x
               /\ (Older(y))' <=> Newest(y)
               /\ (Known(y))' <=> Known(y)
    <2>1. frame' - 1 = frame
      BY <1>1, <1>2
    <2>2. Sent(frame)' = x /\ (Sent(frame - 1))' = Sent(frame)
      BY <1>1, <2>1 DEF Sent, PushFrame, build_frame, SeqOf, LastFrame
    <2>3. \A y : (Known(y))' <=> Known(y)
      BY DEF Known, Foreign, SeqOf, PushFrame, LastFrame, build_frame
    <2> QED
      BY <1>3, <2>2, <2>3 DEF Newest, Older
  <1>6. ~Newest(x)
    BY <1>3, <1>4 DEF Newest
  <1>7. SeqOf(frame)' = SeqOf(frame + 1)
    BY <1>1 DEF SeqOf
  <1> HIDE DEF x
  <1>8. /\ Len(h2d) \in Nat /\ Len(h2d') = Len(h2d) + 1 /\ h2d'[Len(h2d) + 1] = x
        /\ \A j \in 1 .. Len(h2d) : h2d'[j] = h2d[j]
    BY <1>1, <1>2, <1>4, AppendFacts, Basics DEF x
  <1>9. \A j \in 1 .. Len(h2d') : j = Len(h2d) + 1 \/ j \in 1 .. Len(h2d)
    BY <1>8
  <1>10. h2d'[Len(h2d) + 1] = (Sent(frame))'
    BY <1>5, <1>8 DEF Newest
  <1>11. \A j \in 1 .. Len(d2h') : d2h'[j] # ACK(SeqOf(frame + 1))
    <2>1. \A j \in 1 .. Len(d2h') : d2h'[j].code = "ACK" => d2h'[j].seq = SeqOf(frame)
      BY AckRead
    <2>2. ACK(SeqOf(frame + 1)).code = "ACK" /\ ACK(SeqOf(frame + 1)).seq = SeqOf(frame + 1)
      BY DEF ACK
    <2> QED
      BY <1>3, <2>1, <2>2
  <1> QED
    BY <1>1, <1>3, <1>4, <1>5, <1>6, <1>7, <1>8, <1>9, <1>10, <1>11

\* The next frame, or the end: what the ACK said is so.
LEMMA AckStep ==
    ASSUME TypeInv, SeqOutlasts, ProtocolInv, UNCHANGED receiver, Acknowledged
    PROVE  ProtocolInv'
  <1>1. /\ UNCHANGED <<mode, g_state, rx, slot, installed>> /\ image' = image
        /\ NoOlder /\ (rx # NoFrame => Newest(rx))
        /\ Running => g_state.written = frame - 1 /\ AtFrame
        /\ frame = LastFrame(image) => mode = "booted" /\ installed = image
    BY AckRead
  <1>2. TotalInv' /\ ChunkFitsItsCell'
    BY <1>1 DEF ProtocolInv, TotalInv, ChunkFitsItsCell, AcceptsData, Programmable, Programmed
  <1>3. CASE frame = LastFrame(image)
    <2>1. host' = "done" /\ frame' = frame /\ h2d' = h2d
      BY <1>3 DEF Acknowledged
    <2>2. LineInv' /\ RxInv' /\ OrderInv' /\ ~Acked' /\ (NoOlder => NoOlder')
      BY <1>1, <2>1
      DEF ProtocolInv, LineInv, RxInv, OrderInv, Acked, NoOlder, OfThisRun, Newest, Older, Foreign,
          Known, Sent, PushFrame, build_frame, SeqOf, LastFrame
    <2>3. DeviceInv'
      BY <1>1, <2>1, <2>2
      DEF ProtocolInv, DeviceInv, Running, AtFrame, InSlot, Blank, Programmed, SeqOf
    <2>4. DoneInv' /\ AckedInv'
      BY <1>1, <1>3, <2>1, <2>2 DEF DoneInv, AckedInv
    <2> QED
      BY <1>2, <2>2, <2>3, <2>4 DEF ProtocolInv
  <1>4. CASE frame # LastFrame(image)
    <2>1. /\ host' = host /\ host = "waiting" /\ frame' = frame + 1
          /\ SeqOf(frame)' = SeqOf(frame + 1)
          /\ \A y : /\ (Newest(y))' => ~Newest(y)
                    /\ (Older(y))' <=> Newest(y)
                    /\ (Known(y))' <=> Known(y)
          /\ h2d'[Len(h2d) + 1] = (Sent(frame))'
          /\ \A j \in 1 .. Len(h2d) : h2d'[j] = h2d[j] /\ Newest(h2d[j])
          /\ \A j \in 1 .. Len(h2d') : j = Len(h2d) + 1 \/ j \in 1 .. Len(h2d)
          /\ \A j \in 1 .. Len(d2h') : d2h'[j] # ACK(SeqOf(frame + 1))
      BY <1>4, AckRead, NextSent
    <2>2. LineInv'
      <3>1. \A j \in 1 .. Len(h2d') : (OfThisRun(h2d[j]))'
        <4>1. ASSUME NEW j \in 1 .. Len(h2d') PROVE h2d'[j] = (Sent(frame))' \/ Newest(h2d'[j])
          BY <2>1
        <4> QED
          BY <2>1, <4>1 DEF OfThisRun, Newest
      <3>2. ASSUME NEW j \in 1 .. Len(h2d'), NEW k \in 1 .. Len(h2d'), j < k, h2d'[j] = (Sent(frame))'
            PROVE  FALSE
        <4>1. j \in 1 .. Len(h2d)
          BY <2>1, <3>2, Basics
        <4>2. \A y : y = (Sent(frame))' => ~Newest(y)
          BY <2>1 DEF Newest
        <4> QED
          BY <2>1, <3>2, <4>1, <4>2
      <3> QED
        BY <3>1, <3>2 DEF LineInv, Newest
    <2>3. RxInv'
      <3>1. SUFFICES ASSUME rx # NoFrame PROVE RxInv'
        BY <1>1 DEF RxInv
      <3>2. (Older(rx))' /\ ~(Newest(rx))'
        BY <1>1, <2>1, <3>1
      <3> QED
        BY <1>1, <2>1, <3>1, <3>2 DEF ProtocolInv, RxInv, OfThisRun
    <2>4. OrderInv' /\ AckedInv' /\ DoneInv'
      BY <1>1, <2>1 DEF OrderInv, AckedInv, Acked, DoneInv, ACK
    <2>5. DeviceInv'
      <3>1. SUFFICES ASSUME Running PROVE DeviceInv'
        BY <1>1 DEF DeviceInv, Running
      <3>2. g_state'.written = frame' - 2 /\ g_state'.written # frame' - 1
        BY <1>1, <2>1, <3>1, Basics
      <3>3. AtFrame'
        BY <1>1, <3>1 DEF AtFrame, InSlot, Blank, Programmed, SeqOf
      <3> QED
        BY <3>2, <3>3 DEF DeviceInv
    <2> QED
      BY <1>2, <2>2, <2>3, <2>4, <2>5 DEF ProtocolInv
  <1> QED
    BY <1>3, <1>4

\* A new run of the tool, or another tool: nothing is left on the line.
LEMMA RunStep ==
    ASSUME TypeInv, SeqOutlasts, ProtocolInv, UNCHANGED receiver, RunTool
    PROVE  ProtocolInv'
  <1>1. /\ UNCHANGED <<mode, g_state, rx, slot, installed>>
        /\ host' = "waiting" /\ frame' = 1 /\ image' \in Images
        /\ h2d' = <<PushFrame(image', 1)>> /\ d2h' = <<>>
    BY DEF receiver, RunTool
  <1>2. /\ Len(h2d') = 1 /\ h2d'[1] = PushFrame(image', 1) /\ Len(d2h') = 0
    BY <1>1
  <1>3. /\ \A x : ~(Older(x))'
        /\ \A x : (Known(x))' <=> Known(x)
    BY <1>1 DEF Older, Known, Foreign, SeqOf, PushFrame, LastFrame, build_frame
  <1>4. LineInv'
    <2>1. (Newest(h2d[1]))'
      BY <1>1, <1>2 DEF Newest, Sent, PushFrame, build_frame, SeqOf
    <2> QED
      BY <1>2, <1>3, <2>1 DEF LineInv, OfThisRun
  <1>5. RxInv'
    BY <1>1, <1>3 DEF ProtocolInv, RxInv, NoOlder
  <1>6. TotalInv' /\ ChunkFitsItsCell'
    BY <1>1 DEF ProtocolInv, TotalInv, ChunkFitsItsCell, AcceptsData, Programmable, Programmed
  <1>7. OrderInv' /\ DeviceInv' /\ AckedInv' /\ DoneInv'
    BY <1>1, <1>2 DEF OrderInv, DeviceInv, AckedInv, Acked, DoneInv
  <1> QED
    BY <1>4, <1>5, <1>6, <1>7 DEF ProtocolInv

LEMMA OperatorStep ==
    ASSUME TypeInv, SeqOutlasts, ProtocolInv, UNCHANGED receiver, OperatorSends
    PROVE  ProtocolInv'
  <1>1. /\ UNCHANGED <<mode, g_state, rx, slot, installed>>
        /\ host # "waiting" /\ Same /\ d2h' = <<>>
        /\ \E op \in {"START", "ABORT", "OTHER"} : h2d' = <<build_frame(op, SeqOf(1), 0, NoChunk)>>
    BY DEF receiver, OperatorSends, Same
  <1>2. Len(h2d') = 1 /\ Foreign(h2d'[1])
    BY <1>1 DEF Foreign
  <1>3. ~Newest(h2d'[1]) /\ ~Older(h2d'[1])
    BY <1>2, Apart
  <1>4. LineInv' /\ (NoOlder => NoOlder')
    BY <1>1, <1>2, <1>3, SameMeaning DEF LineInv, OfThisRun, NoOlder
  <1>5. RxInv'
    BY <1>1, <1>4, SameMeaning DEF ProtocolInv, RxInv, Same
  <1>6. /\ TotalInv' /\ ChunkFitsItsCell'
        /\ Running' <=> Running
        /\ AtFrame' <=> AtFrame
    BY <1>1
    DEF ProtocolInv, TotalInv, ChunkFitsItsCell, AcceptsData, Programmable, Programmed, Running,
        AtFrame, InSlot, Blank, SeqOf, Same
  <1>7. OrderInv' /\ DeviceInv' /\ AckedInv' /\ DoneInv'
    BY <1>1, <1>4, <1>6 DEF ProtocolInv, OrderInv, DeviceInv, AckedInv, Acked, DoneInv, Same
  <1> QED
    BY <1>4, <1>5, <1>6, <1>7 DEF ProtocolInv

\* Every step of the system keeps the protocol's invariant.
LEMMA ProtocolStep ==
    SeqOutlasts /\ TypeInv /\ ProtocolInv /\ [Next]_vars => ProtocolInv'
  <1> SUFFICES ASSUME SeqOutlasts, TypeInv, ProtocolInv, [Next]_vars PROVE ProtocolInv'
    OBVIOUS
  <1>1. rx # NoFrame => mode = "receive"
    BY DEF ProtocolInv, RxInv
  <1>2. CASE Receiver
    <2>1. Same
      BY <1>2 DEF Receiver, Tick, hostvars, Same
    <2>2. CASE ReadTimeout
      BY <2>1, <2>2, Kept DEF ReadTimeout, CountError, wire, Takes, NoNewAck, GoesOn, Over
    <2>3. CASE ReadBadFrame
      <3>1. 0 \in 0 .. SeqMod - 1
        BY SeqType
      <3> QED
        BY <2>1, <2>3, <3>1, Kept DEF ReadBadFrame, CountError, Takes, NoNewAck, GoesOn, Over
    <2> QED
      BY <1>2, <2>1, <2>2, <2>3, ReadStep, HandleStep DEF Receiver, Tick
  <1>3. CASE Host \/ LateResponse
    <2>1. /\ UNCHANGED receiver
          /\ \/ Acknowledged
             \/ Retry /\ host = "waiting" /\ (d2h' = d2h \/ (d2h # <<>> /\ d2h' = Tail(d2h)))
      BY <1>3 DEF Host, LateResponse, NotAcknowledged, NoResponse
    <2>2. CASE Acknowledged
      BY <2>1, <2>2, AckStep
    <2>3. CASE Retry /\ host = "waiting" /\ (d2h' = d2h \/ (d2h # <<>> /\ d2h' = Tail(d2h)))
      BY <2>1, <2>3, SentAgain DEF Retry
    <2> QED
      BY <2>1, <2>2, <2>3
  <1>4. CASE Unread
    BY <1>1, <1>4, Kept
    DEF Unread, MenuEatsFrame, BootedDropsFrame, EnterReceive, Reset, receiver, hostvars,
        Takes, NoNewAck, GoesOn, Over, Same
  <1>5. CASE Operator
    BY <1>1, <1>5, RunStep, OperatorStep, Kept
    DEF Operator, MenuUpload, EnterReceive, wire, hostvars, Takes, NoNewAck, GoesOn, Over, Same
  <1>6. CASE Noise
    BY <1>6, Kept
    DEF Noise, LoseFrame, LoseResponse, receiver, hostvars, Takes, NoNewAck, GoesOn, Same
  <1>7. CASE DeviceReset /\ UNCHANGED hostvars
    BY <1>7, Kept DEF DeviceReset, Reset, wire, hostvars, Takes, NoNewAck, Over, Same
  <1>8. CASE UNCHANGED vars
    BY <1>8, Kept DEF vars, wire, receiver, hostvars, Takes, NoNewAck, GoesOn, Same
  <1> QED
    BY <1>2, <1>3, <1>4, <1>5, <1>6, <1>7, <1>8 DEF Next

LEMMA ProtocolInit == Init => ProtocolInv
  <1> SUFFICES ASSUME Init PROVE ProtocolInv
    OBVIOUS
  <1>1. /\ h2d = <<>> /\ d2h = <<>> /\ rx = NoFrame /\ frame = 1 /\ host = "idle"
        /\ ~g_state.active
    BY DEF Init, WireInit, ReceiverInit, HostInit, Cleared
  <1>2. Len(h2d) = 0 /\ Len(d2h) = 0
    BY <1>1
  <1> QED
    BY <1>1, <1>2
    DEF ProtocolInv, LineInv, RxInv, OrderInv, TotalInv, DeviceInv, AckedInv, Acked, DoneInv,
        ChunkFitsItsCell

\* The invariant behind the three properties below: what is on the line, in the
\* receiver and in the slot while the tool is at a frame.
LEMMA InvariantHolds == SeqOutlasts /\ Spec => [](TypeInv /\ ProtocolInv)
  <1> SUFFICES ASSUME SeqOutlasts PROVE Spec => [](TypeInv /\ ProtocolInv)
    OBVIOUS
  <1>1. TypeInv /\ ProtocolInv /\ [Next]_vars => (TypeInv /\ ProtocolInv)'
    BY TypeStep, ProtocolStep
  <1> QED
    BY <1>1, InitType, ProtocolInit, PTL DEF Spec

\* InStep: while the tool pushes, the slot holds its image up to the frame it is
\* at, whatever is lost, late, damaged, refused or left by an earlier run.
THEOREM StaysInStep == SeqOutlasts /\ Spec => []InStep
  <1>1. TypeInv /\ ProtocolInv => InStep
    <2> SUFFICES ASSUME TypeInv, ProtocolInv, Pushing PROVE InStep
      BY DEF InStep
    <2>1. frame > 1 /\ Running
      BY Basics DEF Pushing, Running
    <2> QED
      BY <2>1 DEF ProtocolInv, DeviceInv, AtFrame, InSlot, InStep
  <1> QED
    BY <1>1, InvariantHolds, PTL

\* ChunkFitsItsCell: no chunk is programmed over another one.
THEOREM NothingProgrammedTwice == SeqOutlasts /\ Spec => []ChunkFitsItsCell
  <1>1. ProtocolInv => ChunkFitsItsCell
    BY DEF ProtocolInv
  <1> QED
    BY <1>1, InvariantHolds, PTL

\* DoneMeansInstalled: push() reports success for its own image only, and END has
\* accepted it.
THEOREM SuccessIsReal == SeqOutlasts /\ Spec => []DoneMeansInstalled
  <1>1. ProtocolInv => DoneMeansInstalled
    BY DEF ProtocolInv, DoneInv, DoneMeansInstalled
  <1> QED
    BY <1>1, InvariantHolds, PTL

-----------------------------------------------------------------------------
(* Retransmission.                                                         *)

\* One run of the tool, whose image is allowed and which no reset interrupts; no
\* response is lost (as soon as one is, ota_retransmit shows the tool failing).
Recoverable ==
    /\ SeqOutlasts
    /\ "resp_lost" \notin Faults /\ "reset" \notin Faults
    /\ MaxSessions = 1 /\ Images \subseteq Allowed
    /\ ResponseTicks > 0

\* What the events allow, in errors of the receiver.
LEMMA Budget ==
    ASSUME Recoverable, NEW f \in Nat
    PROVE  /\ ResponseTicks \in Nat /\ ResponseTicks >= 1 /\ RETRIES_PER_FRAME \in Nat
           /\ ResponseTicks * f \in Nat /\ f <= ResponseTicks * f
           /\ ResponseTicks * (f + 1) = ResponseTicks * f + ResponseTicks
  <1>1. ResponseTicks \in Nat /\ ResponseTicks >= 1 /\ RETRIES_PER_FRAME \in Nat
    BY HostAssumption DEF Recoverable
  <1>2. f <= ResponseTicks * f /\ ResponseTicks * f \in Nat
    BY <1>1
  <1>3. ResponseTicks * (f + 1) = ResponseTicks * f + ResponseTicks
    BY <1>1
  <1> QED
    BY <1>1, <1>2, <1>3

\* There have not yet been the adverse events that make the tool give up or the
\* receiver leave its loop.
Bearable ==
    /\ host = "waiting"
    /\ faults < RETRIES_PER_FRAME
    /\ ResponseTicks * faults < MAX_CONSEC_ERRS

\* The first p frames on the line are the older ones; the first m responses come
\* before the ACK that the host waits for, if that is on the line at all.
OlderUpTo(p) == \A j \in 1 .. Len(h2d) : IF j <= p THEN Older(h2d[j]) ELSE Newest(h2d[j])
AckAfter(m) ==
    /\ \A j \in 1 .. m : d2h[j] # ACK(SeqOf(frame))
    /\ m < Len(d2h) => d2h[m + 1] = ACK(SeqOf(frame))
One(b)     == IF b THEN 1 ELSE 0
OldOnes(p) == p + One(Older(rx))
NewOnes(p) == Len(h2d) - p + One(Newest(rx))
Nothing    == h2d = <<>> /\ rx = NoFrame /\ d2h = <<>>

\* Every further attempt, made or yet to be caused by an older frame, by a
\* response that is no acknowledgement or by silence, is paid for by an event ...
Paid(p, m) == attempt - 1 + OldOnes(p) + m + One(Nothing) <= faults
\* ... no attempt is worth more than one frame or response ...
Copies(p, m) == NewOnes(p) + Len(d2h) - m <= attempt
\* ... and the errors counted, with those that what is on its way will add.
ErrorsToCome(p, m) ==
    IF m < Len(d2h) THEN NewOnes(p) + m
    ELSE OldOnes(p) + (IF Nothing THEN ResponseTicks - waited ELSE 0)
ErrorsPaid(p, m) == consec_errs + ErrorsToCome(p, m) <= ResponseTicks * faults

CountInv ==
    Bearable =>
        \E p \in 0 .. Len(h2d), m \in 0 .. Len(d2h) :
            OlderUpTo(p) /\ AckAfter(m) /\ Paid(p, m) /\ Copies(p, m) /\ ErrorsPaid(p, m)

\* The receiver is there, at the frame that is sent, until the ACK is on its way.
LiveInv ==
    Bearable =>
        /\ mode = "receive" \/ (mode = "booted" /\ frame = LastFrame(image) /\ Acked)
        /\ mode = "receive" =>
               /\ frame > 1 \/ Acked => g_state.active
               /\ g_state.active /\ (frame = 1 \/ g_state.written = frame - 1) => Acked
        /\ g_state.active => g_state.total = NumChunks[image]
        /\ waited > 0 => Nothing
        /\ rx # NoFrame => OfThisRun(rx)
FailInv == sessions = 1 /\ host # "idle" /\ RetransmitRecovers

RecoverInv == CountInv /\ LiveInv /\ FailInv

\* What the types say of the counts ...
LEMMA Numbers ==
    ASSUME TypeInv
    PROVE  /\ attempt \in Nat /\ attempt >= 1 /\ attempt <= RETRIES_PER_FRAME
           /\ faults \in Nat /\ consec_errs \in Nat /\ consec_errs < MAX_CONSEC_ERRS
           /\ waited \in Nat /\ waited <= ResponseTicks
           /\ Len(h2d) \in Nat /\ Len(d2h) \in Nat
           /\ Len(h2d) = 0 <=> h2d = <<>>
           /\ Len(d2h) = 0 <=> d2h = <<>>
  BY HostAssumption, ReceiverAssumption, WireFaultsAssumption, Basics, EmptySeq
  DEF TypeInv, TypeOK, WireTypeOK, ReceiverTypeOK, HostTypeOK

\* ... and the protocol of the two splits.
LEMMA SplitFacts ==
    ASSUME TypeInv, SeqOutlasts, ProtocolInv, host = "waiting",
           NEW p \in 0 .. Len(h2d), NEW m \in 0 .. Len(d2h), OlderUpTo(p), AckAfter(m)
    PROVE  /\ m < Len(d2h) <=> Acked
           /\ Newest(rx) \/ Acked => p = 0 /\ ~Older(rx)
           /\ Acked /\ rx # NoFrame => Newest(rx)
           /\ p \in Nat /\ m \in Nat /\ Len(h2d) - p \in Nat /\ Len(d2h) - m \in Nat
           /\ One(Older(rx)) \in 0 .. 1 /\ One(Newest(rx)) \in 0 .. 1 /\ One(Nothing) \in 0 .. 1
           /\ rx = NoFrame => One(Older(rx)) = 0 /\ One(Newest(rx)) = 0
  <1>1. m < Len(d2h) <=> Acked
    <2>1. ASSUME Acked PROVE m < Len(d2h)
      <3>1. PICK j \in 1 .. Len(d2h) : d2h[j] = ACK(SeqOf(frame))
        BY <2>1 DEF Acked
      <3>2. ~(j \in 1 .. m)
        BY <3>1 DEF AckAfter
      <3> QED
        BY <3>2, Numbers
    <2>2. ASSUME m < Len(d2h) PROVE Acked
      <3>1. m + 1 \in 1 .. Len(d2h)
        BY <2>2, Numbers
      <3> QED
        BY <2>2, <3>1 DEF Acked, AckAfter
    <2> QED
      BY <2>1, <2>2
  <1>2. Newest(rx) \/ Acked => NoOlder
    <2>1. Newest(rx) => rx # NoFrame
      BY Apart
    <2> QED
      BY <2>1 DEF ProtocolInv, RxInv, AckedInv
  <1>3. NoOlder => p = 0 /\ ~Older(rx)
    <2>1. ASSUME NoOlder, p # 0 PROVE FALSE
      <3>1. 1 \in 1 .. Len(h2d) /\ 1 <= p
        BY <2>1, Numbers
      <3> QED
        BY <2>1, <3>1 DEF NoOlder, OlderUpTo
    <2> QED
      BY <2>1 DEF NoOlder
  <1>4. Acked /\ rx # NoFrame => Newest(rx)
    BY DEF ProtocolInv, AckedInv
  <1>5. rx = NoFrame => ~Older(rx) /\ ~Newest(rx)
    BY Apart
  <1> QED
    BY <1>1, <1>2, <1>3, <1>4, <1>5, Numbers DEF One

\* The two lines, as frames and responses are taken from them and put on them.
LEMMA FrameTaken ==
    ASSUME TypeInv, Same, h2d # <<>>, h2d' = Tail(h2d),
           NEW p \in 0 .. Len(h2d), OlderUpTo(p)
    PROVE  /\ Len(h2d') = Len(h2d) - 1 /\ Len(h2d) >= 1
           /\ p > 0 => Older(h2d[1]) /\ p - 1 \in 0 .. Len(h2d') /\ OlderUpTo(p - 1)'
           /\ p = 0 => Newest(h2d[1]) /\ p \in 0 .. Len(h2d') /\ OlderUpTo(p)'
  <1>1. /\ Len(h2d') = Len(h2d) - 1 /\ Len(h2d) \in Nat \ {0} /\ 1 \in 1 .. Len(h2d)
        /\ \A j \in 1 .. Len(h2d') : h2d'[j] = h2d[j + 1] /\ j + 1 \in 1 .. Len(h2d)
    BY Basics, TailFacts
  <1>2. CASE p > 0
    <2>1. Older(h2d[1]) /\ p - 1 \in 0 .. Len(h2d')
      BY <1>1, <1>2 DEF OlderUpTo
    <2>2. \A j \in 1 .. Len(h2d') : j <= p - 1 <=> j + 1 <= p
      BY <1>1
    <2>3. OlderUpTo(p - 1)'
      BY <1>1, <2>2, SameMeaning DEF OlderUpTo
    <2> QED
      BY <1>1, <1>2, <2>1, <2>3
  <1>3. CASE p = 0
    <2>1. \A j \in 1 .. Len(h2d) : ~(j <= p)
      BY <1>3
    <2>2. \A j \in 1 .. Len(h2d') : ~(j <= p)
      BY <1>3
    <2>3. OlderUpTo(p)'
      BY <1>1, <2>1, <2>2, SameMeaning DEF OlderUpTo
    <2> QED
      BY <1>1, <1>3, <2>1, <2>3 DEF OlderUpTo
  <1> QED
    BY <1>1, <1>2, <1>3

LEMMA FrameSent ==
    ASSUME TypeInv, Same, h2d' = Append(h2d, PushFrame(image, frame)),
           NEW p \in 0 .. Len(h2d), OlderUpTo(p)
    PROVE  Len(h2d') = Len(h2d) + 1 /\ p \in 0 .. Len(h2d') /\ OlderUpTo(p)'
  <1> DEFINE x == PushFrame(image, frame)
  <1>1. x \in Frame /\ Newest(x)
    BY Basics, PushType DEF Newest, Sent
  <1> HIDE DEF x
  <1>2. /\ Len(h2d') = Len(h2d) + 1 /\ h2d'[Len(h2d) + 1] = x /\ Len(h2d) \in Nat
        /\ \A j \in 1 .. Len(h2d) : h2d'[j] = h2d[j]
    BY <1>1, Basics, AppendFacts DEF x
  <1>3. \A j \in 1 .. Len(h2d') : j \in 1 .. Len(h2d) \/ (j = Len(h2d) + 1 /\ ~(j <= p))
    BY <1>2
  <1> QED
    BY <1>1, <1>2, <1>3, SameMeaning DEF OlderUpTo

LEMMA ResponseTaken ==
    ASSUME TypeInv, frame' = frame, d2h # <<>>, d2h' = Tail(d2h), d2h[1] # ACK(SeqOf(frame)),
           NEW m \in 0 .. Len(d2h), AckAfter(m)
    PROVE  /\ Len(d2h') = Len(d2h) - 1 /\ m >= 1
           /\ m - 1 \in 0 .. Len(d2h') /\ AckAfter(m - 1)'
  <1>1. /\ Len(d2h') = Len(d2h) - 1 /\ Len(d2h) \in Nat \ {0} /\ m \in Nat
        /\ \A j \in 1 .. Len(d2h') : d2h'[j] = d2h[j + 1] /\ j + 1 \in 1 .. Len(d2h)
    BY Basics, TailFacts
  <1>2. m >= 1
    BY <1>1 DEF AckAfter
  <1>3. \A j \in 1 .. m - 1 : j \in 1 .. Len(d2h') /\ j + 1 \in 1 .. m
    BY <1>1, <1>2
  <1>4. m - 1 < Len(d2h') => (m - 1) + 1 \in 1 .. Len(d2h') /\ m < Len(d2h) /\ (m - 1) + 1 = m
    BY <1>1, <1>2
  <1>5. SeqOf(frame)' = SeqOf(frame)
    BY DEF SeqOf
  <1>6. \A j \in 1 .. m - 1 : d2h'[j] # ACK(SeqOf(frame))
    BY <1>1, <1>3 DEF AckAfter
  <1>7. m - 1 < Len(d2h') => d2h'[(m - 1) + 1] = ACK(SeqOf(frame))
    BY <1>1, <1>4 DEF AckAfter
  <1> QED
    BY <1>1, <1>2, <1>5, <1>6, <1>7 DEF AckAfter, ACK

LEMMA ResponseSent ==
    ASSUME TypeInv, frame' = frame, NEW r \in Response, d2h' = Append(d2h, r),
           NEW m \in 0 .. Len(d2h), AckAfter(m)
    PROVE  /\ Len(d2h') = Len(d2h) + 1
           /\ m < Len(d2h) \/ r = ACK(SeqOf(frame)) => m \in 0 .. Len(d2h') /\ m < Len(d2h') /\ AckAfter(m)'
           /\ m = Len(d2h) /\ r # ACK(SeqOf(frame)) => m + 1 \in 0 .. Len(d2h') /\ AckAfter(m + 1)'
  <1>1. /\ Len(d2h') = Len(d2h) + 1 /\ Len(d2h) \in Nat /\ m \in Nat /\ d2h'[Len(d2h) + 1] = r
        /\ \A j \in 1 .. Len(d2h) : d2h'[j] = d2h[j]
    BY Basics, AppendFacts
  <1>2. SeqOf(frame)' = SeqOf(frame)
    BY DEF SeqOf
  <1>3. \A j \in 1 .. m : j \in 1 .. Len(d2h)
    BY <1>1
  <1>4. \A j \in 1 .. m : d2h'[j] # ACK(SeqOf(frame))
    BY <1>1, <1>3 DEF AckAfter
  <1>5. CASE m < Len(d2h) \/ (m = Len(d2h) /\ r = ACK(SeqOf(frame)))
    <2>1. d2h'[m + 1] = ACK(SeqOf(frame))
      <3>1. m < Len(d2h) => m + 1 \in 1 .. Len(d2h)
        BY <1>1
      <3> QED
        BY <1>1, <1>5, <3>1 DEF AckAfter
    <2>2. m \in 0 .. Len(d2h') /\ m < Len(d2h')
      BY <1>1
    <2> QED
      BY <1>1, <1>2, <1>4, <1>5, <2>1, <2>2 DEF AckAfter, ACK
  <1>6. CASE m = Len(d2h) /\ r # ACK(SeqOf(frame))
    <2>1. \A j \in 1 .. m + 1 : j \in 1 .. m \/ j = Len(d2h) + 1
      BY <1>1, <1>6
    <2>2. \A j \in 1 .. m + 1 : d2h'[j] # ACK(SeqOf(frame))
      BY <1>1, <1>4, <1>6, <2>1
    <2>3. ~(m + 1 < Len(d2h')) /\ m + 1 \in 0 .. Len(d2h')
      BY <1>1, <1>6
    <2> QED
      BY <1>1, <1>2, <1>6, <2>2, <2>3 DEF AckAfter, ACK
  <1> QED
    BY <1>1, <1>5, <1>6

\* The errors that are paid for do not end the loop.
LEMMA LoopGoesOn ==
    ASSUME Recoverable, TypeInv, faults' \in Nat, ResponseTicks * faults' < MAX_CONSEC_ERRS,
           consec_errs + 1 <= ResponseTicks * faults', CountError
    PROVE  consec_errs' = consec_errs + 1 /\ mode' = mode
  <1>1. ResponseTicks * faults' < MAX_CONSEC_ERRS /\ ResponseTicks * faults' \in Nat
    BY Budget
  <1>2. consec_errs + 1 < MAX_CONSEC_ERRS
    BY <1>1, Numbers, ReceiverAssumption
  <1> QED
    BY <1>2 DEF CountError

\* The timeouts of the receiver while the host waits and nothing is on its way.
LEMMA SilenceCounts ==
    ASSUME Recoverable, TypeInv, ProtocolInv, RecoverInv, Tick, Bearable'
    PROVE  CountInv' /\ LiveInv'
  <1>1. /\ Same /\ Bearable /\ faults' = faults /\ attempt' = attempt
        /\ h2d = <<>> /\ d2h = <<>> /\ rx = NoFrame /\ waited < ResponseTicks /\ waited' = waited + 1
        /\ UNCHANGED <<h2d, d2h, rx, g_state>> /\ CountError /\ mode = "receive"
        /\ host = "waiting" /\ host' = "waiting"
    BY DEF Tick, ReadTimeout, Bearable, Same, wire, hostvars
  <1>2. SeqOutlasts
    BY DEF Recoverable
  <1>3. PICK p \in 0 .. Len(h2d), m \in 0 .. Len(d2h) :
            OlderUpTo(p) /\ AckAfter(m) /\ Paid(p, m) /\ Copies(p, m) /\ ErrorsPaid(p, m)
    BY <1>1 DEF RecoverInv, CountInv
  <1>4. Nothing /\ Nothing' /\ Len(h2d) = 0 /\ Len(d2h) = 0 /\ p = 0 /\ m = 0
    BY <1>1, <1>3, Numbers DEF Nothing
  <1>5. One(Older(rx)) = 0 /\ One(Newest(rx)) = 0 /\ (One(Older(rx)))' = 0 /\ (One(Newest(rx)))' = 0
    <2>1. ~Older(rx) /\ ~Newest(rx)
      BY <1>1, <1>2, Apart
    <2> QED
      BY <1>1, <2>1, SameMeaning DEF One
  <1>6. consec_errs + (ResponseTicks - waited) <= ResponseTicks * faults
    BY <1>3, <1>4, <1>5, Numbers, HostAssumption DEF ErrorsPaid, ErrorsToCome, OldOnes
  <1>7. consec_errs' = consec_errs + 1 /\ mode' = mode
    <2>1. ResponseTicks * faults \in Nat /\ ResponseTicks \in Nat /\ faults \in Nat
      BY Numbers, Budget
    <2>2. 1 <= ResponseTicks - waited
      BY <1>1, <2>1, Numbers
    <2>3. consec_errs + 1 <= ResponseTicks * faults
      BY <1>6, <2>1, <2>2, Numbers
    <2>4. consec_errs + 1 <= ResponseTicks * faults' /\ faults' \in Nat /\ ResponseTicks * faults' < MAX_CONSEC_ERRS
      BY <1>1, <2>1, <2>3 DEF Bearable
    <2> QED
      BY <1>1, <2>4, LoopGoesOn
  <1>8. CountInv'
    <2>1. OlderUpTo(0)' /\ AckAfter(0)' /\ 0 \in 0 .. Len(h2d') /\ 0 \in 0 .. Len(d2h')
      BY <1>1, <1>4 DEF OlderUpTo, AckAfter
    <2>2. Paid(0, 0)'
      BY <1>1, <1>3, <1>4, <1>5 DEF Paid, OldOnes, One
    <2>3. Copies(0, 0)'
      BY <1>1, <1>3, <1>4, <1>5 DEF Copies, NewOnes
    <2>4. ErrorsPaid(0, 0)'
      BY <1>1, <1>4, <1>5, <1>6, <1>7, Numbers, HostAssumption DEF ErrorsPaid, ErrorsToCome, OldOnes
    <2> QED
      BY <2>1, <2>2, <2>3, <2>4 DEF CountInv
  <1>9. LiveInv'
    <2>1. Acked' <=> Acked
      BY <1>1, SameMeaning DEF Acked, ACK
    <2> QED
      BY <1>1, <1>4, <1>7, <2>1, SameMeaning DEF RecoverInv, LiveInv, Same
  <1> QED
    BY <1>8, <1>9

\* A frame that is read is still to be answered.
LEMMA ReadCounts ==
    ASSUME Recoverable, TypeInv, ProtocolInv, RecoverInv, ReadFrame, UNCHANGED hostvars, Bearable'
    PROVE  CountInv' /\ LiveInv'
  <1>1. /\ Same /\ Bearable /\ UNCHANGED <<faults, attempt, waited, d2h, consec_errs, mode, g_state>>
        /\ h2d # <<>> /\ h2d' = Tail(h2d) /\ rx = NoFrame /\ rx' = Head(h2d)
        /\ host = "waiting"
    BY DEF ReadFrame, Bearable, Same, hostvars
  <1>2. SeqOutlasts
    BY DEF Recoverable
  <1>3. PICK p \in 0 .. Len(h2d), m \in 0 .. Len(d2h) :
            OlderUpTo(p) /\ AckAfter(m) /\ Paid(p, m) /\ Copies(p, m) /\ ErrorsPaid(p, m)
    BY <1>1 DEF RecoverInv, CountInv
  <1>4. /\ One(Older(rx)) = 0 /\ One(Newest(rx)) = 0 /\ p \in Nat /\ m \in Nat
    BY <1>1, <1>2, <1>3, SplitFacts
  <1>5. rx' = h2d[1] /\ rx' # NoFrame /\ Len(h2d') = Len(h2d) - 1
    BY <1>1, <1>2, Basics, TailFacts, ReceiverAssumption
  <1>6. ~Nothing /\ ~Nothing' /\ One(Nothing) = 0 /\ One(Nothing)' = 0 /\ waited = 0
    <2>1. ~Nothing /\ ~Nothing'
      BY <1>1, <1>5 DEF Nothing
    <2>2. waited = 0
      BY <1>1, <2>1, Numbers DEF RecoverInv, LiveInv
    <2> QED
      BY <2>1, <2>2 DEF One
  <1>7. /\ p > 0 => /\ p - 1 \in 0 .. Len(h2d') /\ OlderUpTo(p - 1)'
                    /\ One(Older(rx))' = 1 /\ One(Newest(rx))' = 0
        /\ p = 0 => /\ p \in 0 .. Len(h2d') /\ OlderUpTo(p)'
                    /\ One(Older(rx))' = 0 /\ One(Newest(rx))' = 1
    <2>1. /\ p > 0 => Older(h2d[1]) /\ p - 1 \in 0 .. Len(h2d') /\ OlderUpTo(p - 1)'
          /\ p = 0 => Newest(h2d[1]) /\ p \in 0 .. Len(h2d') /\ OlderUpTo(p)'
      BY <1>1, <1>3, FrameTaken
    <2>2. \A x : (Newest(x) => ~Older(x)) /\ (Older(x) => ~Newest(x))
      BY <1>2, Apart
    <2>3. Older(rx)' <=> Older(h2d[1])
      BY <1>1, <1>5, SameMeaning
    <2>4. Newest(rx)' <=> Newest(h2d[1])
      BY <1>1, <1>5, SameMeaning
    <2>5. /\ One(Older(rx))' = (IF Older(h2d[1]) THEN 1 ELSE 0)
          /\ One(Newest(rx))' = (IF Newest(h2d[1]) THEN 1 ELSE 0)
      BY <2>3, <2>4 DEF One
    <2> QED
      BY <2>1, <2>2, <2>5
  <1>8. AckAfter(m)' /\ m \in 0 .. Len(d2h')
    BY <1>1, <1>3 DEF AckAfter, Same, SeqOf, ACK
  <1>9. ASSUME p > 0 PROVE CountInv'
    <2>1. Paid(p - 1, m)'
      BY <1>1, <1>3, <1>4, <1>6, <1>7, <1>9, Numbers DEF Paid, OldOnes
    <2>2. Copies(p - 1, m)'
      BY <1>1, <1>3, <1>4, <1>5, <1>7, <1>9, Numbers DEF Copies, NewOnes
    <2>3. ErrorsPaid(p - 1, m)'
      BY <1>1, <1>3, <1>4, <1>5, <1>6, <1>7, <1>9, Numbers DEF ErrorsPaid, ErrorsToCome, NewOnes, OldOnes
    <2>4. p - 1 \in 0 .. Len(h2d') /\ OlderUpTo(p - 1)'
      BY <1>7, <1>9
    <2> QED
      BY <1>8, <2>1, <2>2, <2>3, <2>4 DEF CountInv
  <1>10. ASSUME p = 0 PROVE CountInv'
    <2>1. Paid(p, m)'
      BY <1>1, <1>3, <1>4, <1>6, <1>7, <1>10, Numbers DEF Paid, OldOnes
    <2>2. Copies(p, m)'
      BY <1>1, <1>3, <1>4, <1>5, <1>7, <1>10, Numbers DEF Copies, NewOnes
    <2>3. ErrorsPaid(p, m)'
      BY <1>1, <1>3, <1>4, <1>5, <1>6, <1>7, <1>10, Numbers DEF ErrorsPaid, ErrorsToCome, NewOnes, OldOnes
    <2>4. p \in 0 .. Len(h2d') /\ OlderUpTo(p)'
      BY <1>7, <1>10
    <2> QED
      BY <1>8, <2>1, <2>2, <2>3, <2>4 DEF CountInv
  <1>11. LiveInv'
    <2>1. Acked' <=> Acked
      BY <1>1, SameMeaning DEF Acked, ACK, Same
    <2>2. OfThisRun(rx)'
      BY <1>5, <1>7, <1>4, SameMeaning DEF One, OfThisRun
    <2> QED
      BY <1>1, <1>6, <2>1, <2>2, SameMeaning DEF RecoverInv, LiveInv, Same
  <1> QED
    BY <1>4, <1>9, <1>10, <1>11

\* A frame is answered: an older one with no ACK for the newest, the newest one with
\* its ACK, unless that is on its way already or the frame met with an event.
LEMMA AnswerCounts ==
    ASSUME Recoverable, TypeInv, ProtocolInv, RecoverInv, Bearable,
           Same, h2d' = h2d, UNCHANGED <<attempt, waited>>,
           rx # NoFrame, rx' = NoFrame,
           NEW r \in Response, d2h' = Append(d2h, r),
           faults' = faults \/ faults' = faults + 1,
           ~Acked /\ Newest(rx) /\ r # ACK(SeqOf(frame)) => faults' = faults + 1,
           ~Acked /\ r = ACK(SeqOf(frame)) => Newest(rx) /\ consec_errs' = 0,
           consec_errs' = 0 \/ consec_errs' = consec_errs + 1
    PROVE  /\ CountInv'
           /\ Acked \/ r # ACK(SeqOf(frame)) => consec_errs + 1 <= ResponseTicks * faults'
  <1>1. SeqOutlasts /\ host = "waiting"
    BY DEF Recoverable, Bearable
  <1>2. PICK p \in 0 .. Len(h2d), m \in 0 .. Len(d2h) :
            OlderUpTo(p) /\ AckAfter(m) /\ Paid(p, m) /\ Copies(p, m) /\ ErrorsPaid(p, m)
    BY DEF RecoverInv, CountInv
  <1>3. /\ m < Len(d2h) <=> Acked
        /\ Newest(rx) \/ Acked => p = 0 /\ ~Older(rx)
        /\ Acked => Newest(rx)
        /\ p \in Nat /\ m \in Nat /\ Len(h2d) - p \in Nat /\ Len(d2h) - m \in Nat
        /\ One(Newest(rx)) \in 0 .. 1 /\ One(Older(rx)) \in 0 .. 1
    BY <1>1, <1>2, SplitFacts
  <1>4. /\ attempt \in Nat /\ faults \in Nat /\ consec_errs \in Nat
        /\ Len(h2d) \in Nat /\ Len(d2h) \in Nat /\ attempt >= 1
    BY Numbers
  <1>5. /\ ResponseTicks \in Nat /\ ResponseTicks >= 1
        /\ ResponseTicks * faults \in Nat /\ faults <= ResponseTicks * faults
        /\ ResponseTicks * (faults + 1) = ResponseTicks * faults + ResponseTicks
    BY <1>4, Budget
  <1> DEFINE B == ResponseTicks * faults
             C == ResponseTicks * faults'
  <1>6. /\ B \in Nat /\ faults <= B
        /\ (faults' = faults /\ C = B) \/ (faults' = faults + 1 /\ C = B + ResponseTicks)
    BY <1>5
  <1> HIDE DEF B, C
  <1>7. /\ Newest(rx) \/ Older(rx)
        /\ Newest(rx) => One(Newest(rx)) = 1 /\ One(Older(rx)) = 0
        /\ Older(rx) => One(Newest(rx)) = 0 /\ One(Older(rx)) = 1
    <2>1. OfThisRun(rx)
      BY DEF RecoverInv, LiveInv
    <2>2. (Newest(rx) => ~Older(rx)) /\ (Older(rx) => ~Newest(rx))
      BY <1>1, Apart
    <2> QED
      BY <1>1, <2>1, <2>2 DEF OfThisRun, One
  <1>8. (One(Newest(rx)))' = 0 /\ (One(Older(rx)))' = 0
    <2>1. ~Newest(NoFrame) /\ ~Older(NoFrame)
      BY <1>1, Apart
    <2>2. ~(Newest(rx))' /\ ~(Older(rx))'
      BY <2>1, SameMeaning
    <2> QED
      BY <2>2 DEF One
  <1>9. /\ Len(d2h') = Len(d2h) + 1
        /\ m < Len(d2h) \/ r = ACK(SeqOf(frame)) => m \in 0 .. Len(d2h') /\ m < Len(d2h') /\ AckAfter(m)'
        /\ m = Len(d2h) /\ r # ACK(SeqOf(frame)) => m + 1 \in 0 .. Len(d2h') /\ AckAfter(m + 1)'
    BY <1>2, ResponseSent DEF Same
  <1>10. ~Nothing /\ ~Nothing' /\ One(Nothing) = 0 /\ (One(Nothing))' = 0
    <2>1. d2h' # <<>>
      BY <1>4, <1>9
    <2> QED
      BY <2>1 DEF Nothing, One
  <1>11. OlderUpTo(p)' /\ p \in 0 .. Len(h2d')
    BY <1>2, SameMeaning DEF OlderUpTo
  <1>12. /\ attempt - 1 + p + One(Older(rx)) + m <= faults
         /\ Len(h2d) - p + One(Newest(rx)) + Len(d2h) - m <= attempt
         /\ consec_errs + (IF m < Len(d2h) THEN Len(h2d) - p + One(Newest(rx)) + m
                                           ELSE p + One(Older(rx))) <= B
    BY <1>2, <1>3, <1>4, <1>7, <1>10
    DEF Paid, Copies, ErrorsPaid, ErrorsToCome, OldOnes, NewOnes, B
  <1>13. CASE Acked
    <2>1. m < Len(d2h) /\ p = 0 /\ One(Newest(rx)) = 1 /\ One(Older(rx)) = 0
      BY <1>3, <1>7, <1>13
    <2>2. m \in 0 .. Len(d2h') /\ m < Len(d2h') /\ AckAfter(m)'
      BY <1>9, <2>1
    <2>3. consec_errs + 1 <= C
      BY <1>3, <1>4, <1>5, <1>6, <1>12, <2>1
    <2>4. Paid(p, m)' /\ Copies(p, m)'
      BY <1>3, <1>4, <1>8, <1>9, <1>10, <1>12, <2>1 DEF Paid, Copies, OldOnes, NewOnes
    <2>5. ErrorsPaid(p, m)'
      <3>1. consec_errs' + (Len(h2d) - p + m) <= C
        BY <1>3, <1>4, <1>5, <1>6, <1>12, <2>1
      <3> QED
        BY <1>3, <1>4, <1>8, <2>2, <3>1 DEF ErrorsPaid, ErrorsToCome, NewOnes, C
    <2> QED
      BY <1>11, <2>2, <2>3, <2>4, <2>5 DEF CountInv, C
  <1>14. CASE ~Acked /\ r = ACK(SeqOf(frame))
    <2>1. m = Len(d2h) /\ p = 0 /\ One(Newest(rx)) = 1 /\ One(Older(rx)) = 0 /\ consec_errs' = 0
      <3>1. Newest(rx) /\ consec_errs' = 0
        BY <1>14
      <3>2. m = Len(d2h)
        BY <1>3, <1>4, <1>14
      <3> QED
        BY <1>3, <1>7, <3>1, <3>2
    <2>2. m \in 0 .. Len(d2h') /\ m < Len(d2h') /\ AckAfter(m)'
      BY <1>9, <1>14
    <2>3. Paid(p, m)' /\ Copies(p, m)'
      BY <1>3, <1>4, <1>8, <1>9, <1>10, <1>12, <2>1 DEF Paid, Copies, OldOnes, NewOnes
    <2>4. ErrorsPaid(p, m)'
      <3>1. 0 + (Len(h2d) - p + m) <= C
        BY <1>3, <1>4, <1>5, <1>6, <1>12, <2>1
      <3> QED
        BY <1>3, <1>4, <1>8, <2>1, <2>2, <3>1 DEF ErrorsPaid, ErrorsToCome, NewOnes, C
    <2> QED
      BY <1>11, <1>14, <2>2, <2>3, <2>4 DEF CountInv
  <1>15. CASE ~Acked /\ r # ACK(SeqOf(frame))
    <2>1. m = Len(d2h) /\ m + 1 \in 0 .. Len(d2h') /\ AckAfter(m + 1)' /\ ~(m + 1 < Len(d2h'))
      BY <1>3, <1>4, <1>9, <1>15
    <2>2. consec_errs + 1 + p <= C
      <3>1. consec_errs + p + One(Older(rx)) <= B
        BY <1>3, <1>4, <1>12, <2>1
      <3>2. CASE Newest(rx)
        <4>1. C = B + ResponseTicks
          BY <1>4, <1>6, <1>15, <3>2
        <4> QED
          BY <1>3, <1>4, <1>5, <1>6, <1>7, <3>1, <3>2, <4>1
      <3>3. CASE Older(rx)
        <4>1. C \in Nat /\ B <= C
          BY <1>5, <1>6
        <4>2. One(Older(rx)) = 1
          BY <1>7, <3>3
        <4> QED
          BY <1>3, <1>4, <1>6, <3>1, <4>1, <4>2
      <3> QED
        BY <1>7, <3>2, <3>3
    <2>3. Paid(p, m + 1)' /\ Copies(p, m + 1)'
      BY <1>3, <1>4, <1>7, <1>8, <1>9, <1>10, <1>12, <1>15, <2>1 DEF Paid, Copies, OldOnes, NewOnes
    <2>4. ErrorsPaid(p, m + 1)'
      <3>1. consec_errs' + (p + 0 + 0) <= C
        BY <1>3, <1>4, <1>5, <1>6, <2>2
      <3> QED
        BY <1>8, <1>10, <2>1, <3>1 DEF ErrorsPaid, ErrorsToCome, OldOnes, C
    <2>5. consec_errs + 1 <= C
      BY <1>3, <1>4, <1>5, <1>6, <2>2
    <2> QED
      BY <1>11, <2>1, <2>3, <2>4, <2>5 DEF CountInv, C
  <1> QED
    BY <1>13, <1>14, <1>15

\* An answer acknowledges, or changes nothing.
LEMMA AckedAfterAnswer ==
    ASSUME TypeInv, Same, host = "waiting", NEW r \in Response, d2h' = Append(d2h, r)
    PROVE  Acked' <=> Acked \/ r = ACK(SeqOf(frame))
  <1>1. /\ Len(d2h') = Len(d2h) + 1 /\ Len(d2h) \in Nat /\ d2h'[Len(d2h) + 1] = r
        /\ \A j \in 1 .. Len(d2h) : d2h'[j] = d2h[j]
    BY Basics, AppendFacts
  <1>2. \A j \in 1 .. Len(d2h') : j \in 1 .. Len(d2h) \/ j = Len(d2h) + 1
    BY <1>1
  <1>3. /\ Len(d2h) + 1 \in 1 .. Len(d2h')
        /\ \A j \in 1 .. Len(d2h) : j \in 1 .. Len(d2h')
    BY <1>1
  <1>4. Acked' <=> \E j \in 1 .. Len(d2h') : d2h'[j] = ACK(SeqOf(frame))
    BY SameMeaning DEF Acked, Same, ACK
  <1>5. ASSUME Acked' PROVE Acked \/ r = ACK(SeqOf(frame))
    BY <1>1, <1>2, <1>4, <1>5 DEF Acked
  <1>6. ASSUME Acked \/ r = ACK(SeqOf(frame)) PROVE Acked'
    BY <1>1, <1>3, <1>4, <1>6 DEF Acked
  <1> QED
    BY <1>5, <1>6

\* What LiveInv says of a device that goes on with the same transfer.
LEMMA LiveKept ==
    ASSUME TypeInv, RecoverInv, Bearable, Same, UNCHANGED <<mode, g_state>>,
           Acked' <=> Acked,
           waited' > 0 => Nothing',
           rx' # NoFrame => OfThisRun(rx')
    PROVE  LiveInv'
  BY SameMeaning DEF RecoverInv, LiveInv, Same

\* A frame refused.
LEMMA RefusedCounts ==
    ASSUME Recoverable, TypeInv, ProtocolInv, RecoverInv, Bearable, Bearable',
           Same, h2d' = h2d, UNCHANGED <<attempt, waited, g_state>>,
           rx # NoFrame, rx' = NoFrame, Refuse,
           faults' = faults \/ faults' = faults + 1,
           ~Acked /\ Newest(rx) => faults' = faults + 1
    PROVE  CountInv' /\ LiveInv'
  <1> DEFINE r == NAK(rx.seq)
  <1>1. r \in Response /\ d2h' = Append(d2h, r) /\ r # ACK(SeqOf(frame)) /\ host = "waiting"
    <2>1. rx.seq \in 0 .. SeqMod - 1
      BY Basics DEF Frame
    <2> QED
      BY <2>1, ResponseType DEF Refuse, NAK, ACK, Bearable
  <1> HIDE DEF r
  <1>2. consec_errs' = 0 \/ consec_errs' = consec_errs + 1
    BY DEF Refuse, CountError
  <1>3. CountInv' /\ consec_errs + 1 <= ResponseTicks * faults'
    BY <1>1, <1>2, AnswerCounts
  <1>4. mode' = mode
    <2>1. faults' \in Nat /\ ResponseTicks * faults' < MAX_CONSEC_ERRS
      BY Numbers DEF Bearable
    <2> QED
      BY <1>3, <2>1, LoopGoesOn DEF Refuse
  <1>5. Acked' <=> Acked
    BY <1>1, AckedAfterAnswer
  <1>6. waited' = 0
    <2>1. ~Nothing
      BY DEF Nothing
    <2>2. waited = 0
      BY <2>1, Numbers DEF RecoverInv, LiveInv
    <2> QED
      BY <2>2
  <1> QED
    BY <1>3, <1>4, <1>5, <1>6, LiveKept

\* A frame accepted.
LEMMA AcceptedCounts ==
    ASSUME Recoverable, TypeInv, ProtocolInv, RecoverInv, Bearable,
           Same, h2d' = h2d, UNCHANGED <<attempt, waited, faults>>,
           rx # NoFrame, rx' = NoFrame, Accept
    PROVE  /\ CountInv' /\ (Newest(rx) => Acked') /\ (Acked' => Newest(rx))
           /\ waited' = 0
  <1> DEFINE r == ACK(rx.seq)
  <1>1. /\ r \in Response /\ d2h' = Append(d2h, r) /\ host = "waiting" /\ consec_errs' = 0
        /\ r = ACK(SeqOf(frame)) <=> rx.seq = SeqOf(frame)
    <2>1. rx.seq \in 0 .. SeqMod - 1
      BY Basics DEF Frame
    <2> QED
      BY <2>1, ResponseType DEF Accept, ACK, Bearable
  <1> HIDE DEF r
  <1>2. /\ rx.seq = SeqOf(frame) <=> Newest(rx)
        /\ Acked => Newest(rx)
    <2>1. Newest(rx) \/ Older(rx)
      BY <1>1 DEF RecoverInv, LiveInv, OfThisRun
    <2>2. /\ Newest(rx) => rx.seq = SeqOf(frame)
          /\ Older(rx) => rx.seq # SeqOf(frame)
      BY Apart DEF Recoverable
    <2> QED
      BY <2>1, <2>2 DEF ProtocolInv, AckedInv
  <1>3. CountInv'
    BY <1>1, <1>2, AnswerCounts
  <1>4. Acked' <=> Acked \/ r = ACK(SeqOf(frame))
    BY <1>1, AckedAfterAnswer
  <1>5. waited' = 0
    <2>1. ~Nothing
      BY DEF Nothing
    <2>2. waited = 0
      BY <2>1, Numbers DEF RecoverInv, LiveInv
    <2> QED
      BY <2>2
  <1> QED
    BY <1>1, <1>2, <1>3, <1>4, <1>5

\* A frame is handled: START, DATA and END come to one of the two.
LEMMA FrameCounts ==
    ASSUME Recoverable, TypeInv, ProtocolInv, RecoverInv, Bearable, Bearable',
           Same, UNCHANGED <<attempt, waited>>, Handle
    PROVE  CountInv' /\ LiveInv'
  <1>1. /\ rx # NoFrame /\ rx' = NoFrame /\ mode = "receive" /\ h2d' = h2d /\ host = "waiting"
        /\ SeqOutlasts
    BY DEF Handle, HandleStart, HandleData, HandleEnd, HandleAbort, HandleOther, Handled, Bearable,
           Recoverable
  <1>2. faults' = faults \/ faults' = faults + 1
    BY DEF Handle, HandleStart, HandleData, HandleEnd, HandleAbort, HandleOther, Fault
  <1>3. Newest(rx) \/ Older(rx)
    BY <1>1 DEF RecoverInv, LiveInv, OfThisRun
  <1>4. /\ image \in Images /\ frame \in Nat /\ frame >= 1 /\ frame <= LastFrame(image)
        /\ LastFrame(image) = NumChunks[image] + 2 /\ NumChunks[image] \in Nat \ {0}
        /\ g_state.written \in Nat
    BY Basics DEF ota_state_t
  <1>5. /\ frame > 1 \/ Acked => g_state.active
        /\ g_state.active /\ (frame = 1 \/ g_state.written = frame - 1) => Acked
        /\ g_state.active => g_state.total = NumChunks[image]
    BY <1>1 DEF RecoverInv, LiveInv
  <1>6. ASSUME frame > 1, ~Acked
        PROVE  /\ g_state.active /\ g_state.written = frame - 2 /\ g_state.total = NumChunks[image]
               /\ AtFrame
    BY <1>1, <1>4, <1>5, <1>6 DEF ProtocolInv, DeviceInv, Running
  <1>7. ASSUME Refuse, g_state' = g_state, ~Acked /\ Newest(rx) => faults' = faults + 1
        PROVE  CountInv' /\ LiveInv'
    BY <1>1, <1>2, <1>7, RefusedCounts
  <1>8. CASE HandleStart
    <2>0. rx.op = "START" /\ rx = PushFrame(image, 1) /\ rx.total = NumChunks[image]
          /\ InRange(rx.total)
      BY <1>1, <1>3, <1>8, StartSent DEF HandleStart, Handled
    <2>1. CASE Accept /\ UNCHANGED <<faults, mode>> /\ rx.op = "START"
               /\ g_state' = [active |-> TRUE, total |-> rx.total, written |-> 0,
                              expected_seq |-> (rx.seq + 1) % SeqMod]
      <3>1. /\ CountInv' /\ (Newest(rx) => Acked') /\ (Acked' => Newest(rx)) /\ waited' = 0
        BY <1>1, <2>1, AcceptedCounts
      <3>2. /\ frame > 1 => frame = 2 /\ Older(rx)
            /\ Newest(rx) => frame = 1
        BY <1>1, <2>0, StartRead DEF ProtocolInv
      <3>3. /\ g_state'.active /\ g_state'.written = 0 /\ g_state'.total = NumChunks[image]
        BY <2>0, <2>1
      <3>4. frame = 1 => Newest(rx)
        BY <1>3 DEF Older
      <3>5. LiveInv'
        BY <1>1, <1>4, <2>1, <3>1, <3>2, <3>3, <3>4, SameMeaning DEF LiveInv, Same
      <3> QED
        BY <3>1, <3>5
    <2>2. CASE Fault("flash") /\ UNCHANGED g_state /\ Refuse
      BY <1>7, <2>2 DEF Fault
    <2> QED
      BY <1>8, <2>0, <2>1, <2>2 DEF HandleStart, Handled
  <1>9. CASE HandleData
    <2>1. rx.op = "DATA" /\ frame > 1
      <3>1. rx.op = "DATA"
        BY <1>9 DEF HandleData, Handled
      <3>2. Newest(rx) => frame # 1
        BY <3>1, NewestOp
      <3> QED
        BY <1>3, <1>4, <3>1, <3>2 DEF Older
    <2>2. ASSUME AcceptsData
          PROVE  Newest(rx) /\ g_state.written = frame - 2 /\ g_state.active
      <3>1. /\ Running /\ OfThisRun(rx) /\ rx.seq = g_state.expected_seq
            /\ Older(rx) => ~NoOlder
        BY <1>1, <1>3, <2>2 DEF Running, AcceptsData, OfThisRun, NoOlder
      <3> QED
        BY <1>1, <2>1, <2>2, <3>1, DataFits DEF ProtocolInv, AcceptsData
    <2>3. ASSUME ~Acked, Newest(rx) PROVE AcceptsData
      <3>1. /\ g_state.active /\ g_state.written = frame - 2 /\ g_state.total = NumChunks[image]
            /\ g_state.expected_seq = SeqOf(g_state.written + 2)
        BY <1>6, <2>1, <2>3 DEF AtFrame
      <3>2. rx.seq = SeqOf(frame)
        BY <1>1, <2>3, Apart
      <3>3. g_state.written + 2 = frame /\ g_state.written + 1 = frame - 1
        BY <1>4, <3>1
      <3>4. frame - 1 <= NumChunks[image]
        <4>1. frame - 1 \in 1 .. NumChunks[image]
          BY <2>1, <2>3, NewestOp
        <4> QED
          BY <4>1, <1>4
      <3> QED
        BY <3>1, <3>2, <3>3, <3>4 DEF AcceptsData
    <2>4. CASE /\ AcceptsData /\ Accept /\ UNCHANGED <<faults, mode>>
               /\ g_state' = [g_state EXCEPT !.written = @ + 1, !.expected_seq = (@ + 1) % SeqMod]
      <3>1. /\ CountInv' /\ (Newest(rx) => Acked') /\ waited' = 0
        BY <1>1, <2>4, AcceptedCounts
      <3>2. g_state'.active /\ g_state'.total = NumChunks[image]
        BY <1>5, <2>2, <2>4, Basics DEF ota_state_t
      <3>3. LiveInv'
        BY <1>1, <2>2, <2>4, <3>1, <3>2, SameMeaning DEF LiveInv, Same
      <3> QED
        BY <3>1, <3>3
    <2>5. CASE AcceptsData /\ Fault("flash") /\ UNCHANGED g_state /\ Refuse
      BY <1>7, <2>5 DEF Fault
    <2>6. CASE ~(AcceptsData /\ Programmable(g_state.written + 1)) /\ Refuse /\ UNCHANGED g_state
      <3>1. ~AcceptsData
        BY <1>1, <2>1, <2>6 DEF ProtocolInv, ChunkFitsItsCell
      <3> QED
        BY <1>7, <2>3, <2>6, <3>1
    <2> QED
      BY <1>9, <2>4, <2>5, <2>6 DEF HandleData
  <1>10. CASE HandleEnd
    <2>1. rx.op = "END" /\ Newest(rx) /\ frame = LastFrame(image) /\ frame > 1
      <3>1. rx.op = "END"
        BY <1>10 DEF HandleEnd, Handled
      <3>2. Newest(rx)
        BY <1>1, <1>3, <3>1, OlderOp
      <3> QED
        BY <1>4, <3>1, <3>2, NewestOp
    <2>2. ~Acked
      BY <1>1, <2>1 DEF ProtocolInv, AckedInv
    <2>3. EndsWith(image)
      <3>1. /\ g_state.active /\ g_state.written = frame - 2 /\ g_state.total = NumChunks[image]
            /\ AtFrame
        BY <1>6, <2>1, <2>2
      <3>2. g_state.written = NumChunks[image]
        BY <1>4, <2>1, <3>1
      <3>3. Verifies(image)
        BY <3>1, <3>2 DEF Verifies, AtFrame, InSlot, Programmed
      <3> QED
        BY <1>4, <3>1, <3>2, <3>3 DEF EndsWith, Recoverable
    <2>4. CASE mode' = "booted" /\ g_state' = Cleared /\ Accept /\ UNCHANGED faults
      <3>1. /\ CountInv' /\ (Newest(rx) => Acked') /\ waited' = 0
        BY <1>1, <2>4, AcceptedCounts
      <3>2. LiveInv'
        BY <1>1, <2>1, <2>4, <3>1, SameMeaning DEF LiveInv, Same, Cleared
      <3> QED
        BY <3>1, <3>2
    <2>5. CASE Fault("read") /\ Refuse /\ UNCHANGED g_state
      BY <1>7, <2>5 DEF Fault
    <2> QED
      BY <1>4, <1>10, <2>3, <2>4, <2>5 DEF HandleEnd
  <1>11. ~HandleAbort /\ ~HandleOther
    BY <1>1, <1>3, NewestOp, OlderOp DEF HandleAbort, HandleOther, Handled
  <1> QED
    BY <1>8, <1>9, <1>10, <1>11 DEF Handle

\* A frame that is lost, or that nobody reads because the ACK has started the reset.
LEMMA LostCounts ==
    ASSUME Recoverable, TypeInv, ProtocolInv, RecoverInv, Bearable,
           Same, h2d # <<>>, h2d' = Tail(h2d),
           UNCHANGED <<attempt, waited, d2h, rx, consec_errs, mode, g_state>>,
           faults' = faults + 1 \/ (faults' = faults /\ Acked)
    PROVE  CountInv' /\ LiveInv'
  <1>1. SeqOutlasts /\ host = "waiting"
    BY DEF Recoverable, Bearable
  <1>2. PICK p \in 0 .. Len(h2d), m \in 0 .. Len(d2h) :
            OlderUpTo(p) /\ AckAfter(m) /\ Paid(p, m) /\ Copies(p, m) /\ ErrorsPaid(p, m)
    BY DEF RecoverInv, CountInv
  <1>3. /\ m < Len(d2h) <=> Acked
        /\ Acked => p = 0
        /\ p \in Nat /\ m \in Nat /\ Len(h2d) - p \in Nat /\ Len(d2h) - m \in Nat
        /\ One(Newest(rx)) \in 0 .. 1 /\ One(Older(rx)) \in 0 .. 1
    BY <1>1, <1>2, SplitFacts
  <1>4. /\ attempt \in Nat /\ faults \in Nat /\ consec_errs \in Nat
        /\ Len(h2d) \in Nat /\ Len(d2h) \in Nat /\ attempt >= 1
        /\ waited \in Nat
        /\ Len(d2h) = 0 <=> d2h = <<>>
    BY Numbers
  <1>5. /\ ResponseTicks \in Nat /\ ResponseTicks >= 1
        /\ ResponseTicks * faults \in Nat
        /\ ResponseTicks * (faults + 1) = ResponseTicks * faults + ResponseTicks
    BY <1>4, Budget
  <1> DEFINE B == ResponseTicks * faults
             C == ResponseTicks * faults'
             s == IF Nothing' THEN ResponseTicks - waited ELSE 0
  <1>6. /\ B \in Nat /\ C \in Nat
        /\ (faults' = faults /\ C = B /\ Acked) \/ (faults' = faults + 1 /\ C = B + ResponseTicks)
    BY <1>5
  <1>7. /\ ~Nothing /\ One(Nothing) = 0
        /\ Acked => ~Nothing'
        /\ (One(Nothing))' \in 0 .. 1 /\ (Acked => (One(Nothing))' = 0)
        /\ s \in Int /\ s <= ResponseTicks /\ (Acked => s = 0)
        /\ waited = 0
    <2>1. ~Nothing
      BY DEF Nothing
    <2>2. Acked => d2h # <<>>
      BY <1>3, <1>4
    <2>3. waited = 0
      BY <1>4, <2>1 DEF RecoverInv, LiveInv
    <2> QED
      BY <1>5, <2>1, <2>2, <2>3 DEF Nothing, One
  <1>8. /\ (One(Older(rx)))' = One(Older(rx)) /\ (One(Newest(rx)))' = One(Newest(rx))
        /\ (Acked' <=> Acked)
        /\ AckAfter(m)' /\ m \in 0 .. Len(d2h')
    <2>1. (Older(rx))' <=> Older(rx)
      BY SameMeaning DEF Same, Older, Sent, PushFrame, build_frame, SeqOf, LastFrame
    <2>2. (Newest(rx))' <=> Newest(rx)
      BY SameMeaning DEF Same, Newest, Sent, PushFrame, build_frame, SeqOf, LastFrame
    <2> QED
      BY <1>2, <2>1, <2>2 DEF Same, AckAfter, Acked, SeqOf, ACK, One
  <1>9. /\ Len(h2d') = Len(h2d) - 1
        /\ p > 0 => p - 1 \in 0 .. Len(h2d') /\ OlderUpTo(p - 1)'
        /\ p = 0 => p \in 0 .. Len(h2d') /\ OlderUpTo(p)'
    BY <1>2, FrameTaken
  <1>10. /\ attempt - 1 + p + One(Older(rx)) + m <= faults
         /\ Len(h2d) - p + One(Newest(rx)) + Len(d2h) - m <= attempt
         /\ m < Len(d2h) => consec_errs + (Len(h2d) - p + One(Newest(rx)) + m) <= B
         /\ ~(m < Len(d2h)) => consec_errs + (p + One(Older(rx))) <= B
    BY <1>2, <1>3, <1>4, <1>7 DEF Paid, Copies, ErrorsPaid, ErrorsToCome, OldOnes, NewOnes
  <1> HIDE DEF B, C, s
  <1>11. LiveInv'
    <2>1. rx' # NoFrame => OfThisRun(rx')
      BY <1>1 DEF RecoverInv, LiveInv
    <2> QED
      BY <1>7, <1>8, <2>1, LiveKept
  <1>12. ASSUME NEW q \in 0 .. Len(h2d'), OlderUpTo(q)', q \in Nat,
                \/ q = p - 1
                \/ q = p
         PROVE  CountInv'
    <2> DEFINE o == One(Older(rx))
               n == One(Newest(rx))
               z == (One(Nothing))'
    <2>0. /\ q \in Nat /\ q <= p /\ p <= q + 1 /\ (Acked => q = 0)
          /\ o \in Nat /\ n \in Nat /\ z \in 0 .. 1 /\ (Acked => z = 0)
          /\ attempt - 1 + p + o + m <= faults
          /\ Len(h2d) - p + n + Len(d2h) - m <= attempt
          /\ Acked => consec_errs + (Len(h2d) - p + n + m) <= B
          /\ ~Acked => consec_errs + (p + o) <= B
      BY <1>3, <1>7, <1>10, <1>12
    <2> HIDE DEF o, n, z
    <2>1. Paid(q, m)'
      <3>1. attempt - 1 + (q + o) + m + z <= faults'
        BY <1>3, <1>4, <1>6, <2>0
      <3> QED
        BY <1>8, <3>1 DEF Paid, OldOnes, o, z
    <2>2. Copies(q, m)'
      <3>1. Len(h2d) - 1 - q + n + Len(d2h) - m <= attempt
        BY <1>3, <1>4, <2>0
      <3> QED
        BY <1>8, <1>9, <3>1 DEF Copies, NewOnes, n
    <2>3. ErrorsPaid(q, m)'
      <3>1. CASE Acked
        <4>1. consec_errs + (Len(h2d) - 1 - q + n + m) <= C
          BY <1>3, <1>4, <1>5, <1>6, <2>0, <3>1
        <4> QED
          BY <1>3, <1>8, <1>9, <3>1, <4>1 DEF ErrorsPaid, ErrorsToCome, NewOnes, C, n
      <3>2. CASE ~Acked
        <4>1. consec_errs + (q + o + s) <= C
          BY <1>3, <1>4, <1>5, <1>6, <1>7, <2>0, <3>2
        <4> QED
          BY <1>3, <1>8, <3>2, <4>1 DEF ErrorsPaid, ErrorsToCome, OldOnes, C, s, o
      <3> QED
        BY <3>1, <3>2
    <2> QED
      BY <1>8, <1>12, <2>1, <2>2, <2>3 DEF CountInv
  <1> QED
    BY <1>3, <1>9, <1>11, <1>12

\* A frame that arrives damaged is answered with a NAK of sequence number 0.
LEMMA DamagedCounts ==
    ASSUME Recoverable, TypeInv, ProtocolInv, RecoverInv, Bearable, Bearable',
           Same, UNCHANGED <<attempt, waited>>, ReadBadFrame
    PROVE  CountInv' /\ LiveInv'
  <1> DEFINE r == NAK(0)
  <1>1. /\ SeqOutlasts /\ host = "waiting" /\ h2d # <<>> /\ h2d' = Tail(h2d) /\ rx = NoFrame
        /\ UNCHANGED <<rx, g_state>> /\ CountError /\ faults' = faults + 1
        /\ r \in Response /\ d2h' = Append(d2h, r) /\ r # ACK(SeqOf(frame))
    BY SeqType, ResponseType DEF Recoverable, Bearable, ReadBadFrame, Fault, NAK, ACK
  <1> HIDE DEF r
  <1>2. PICK p \in 0 .. Len(h2d), m \in 0 .. Len(d2h) :
            OlderUpTo(p) /\ AckAfter(m) /\ Paid(p, m) /\ Copies(p, m) /\ ErrorsPaid(p, m)
    BY DEF RecoverInv, CountInv
  <1>3. /\ m < Len(d2h) <=> Acked
        /\ Acked => p = 0
        /\ p \in Nat /\ m \in Nat /\ Len(h2d) - p \in Nat /\ Len(d2h) - m \in Nat
        /\ One(Newest(rx)) = 0 /\ One(Older(rx)) = 0
    BY <1>1, <1>2, SplitFacts
  <1>4. /\ attempt \in Nat /\ faults \in Nat /\ consec_errs \in Nat
        /\ Len(h2d) \in Nat /\ Len(d2h) \in Nat /\ attempt >= 1
        /\ waited \in Nat
    BY Numbers
  <1>5. /\ ResponseTicks \in Nat /\ ResponseTicks >= 1
        /\ ResponseTicks * faults \in Nat
        /\ ResponseTicks * (faults + 1) = ResponseTicks * faults + ResponseTicks
    BY <1>4, Budget
  <1> DEFINE B == ResponseTicks * faults
             C == ResponseTicks * faults'
  <1>6. /\ B \in Nat /\ C \in Nat /\ C = B + ResponseTicks
    BY <1>1, <1>5
  <1>7. /\ Len(d2h') = Len(d2h) + 1
        /\ m < Len(d2h) => m \in 0 .. Len(d2h') /\ m < Len(d2h') /\ AckAfter(m)'
        /\ m = Len(d2h) => m + 1 \in 0 .. Len(d2h') /\ AckAfter(m + 1)'
    BY <1>1, <1>2, ResponseSent DEF Same
  <1>8. /\ ~Nothing /\ ~Nothing' /\ One(Nothing) = 0 /\ (One(Nothing))' = 0 /\ waited = 0
    <2>1. ~Nothing
      BY <1>1 DEF Nothing
    <2>2. d2h' # <<>>
      BY <1>4, <1>7
    <2>3. waited = 0
      BY <1>4, <2>1 DEF RecoverInv, LiveInv
    <2> QED
      BY <2>1, <2>2, <2>3 DEF Nothing, One
  <1>9. (One(Older(rx)))' = 0 /\ (One(Newest(rx)))' = 0
    <2>1. ~Newest(NoFrame) /\ ~Older(NoFrame)
      BY <1>1, Apart
    <2>2. ~(Newest(rx))' /\ ~(Older(rx))'
      BY <1>1, <2>1, SameMeaning
    <2> QED
      BY <2>2 DEF One
  <1>10. /\ Len(h2d') = Len(h2d) - 1 /\ Len(h2d) >= 1
         /\ p > 0 => p - 1 \in 0 .. Len(h2d') /\ OlderUpTo(p - 1)'
         /\ p = 0 => p \in 0 .. Len(h2d') /\ OlderUpTo(p)'
    BY <1>1, <1>2, FrameTaken
  <1>11. /\ attempt - 1 + p + m <= faults
         /\ Len(h2d) - p + Len(d2h) - m <= attempt
         /\ Acked => consec_errs + (Len(h2d) - p + m) <= B
         /\ ~Acked => consec_errs + p <= B
    BY <1>2, <1>3, <1>4, <1>8 DEF Paid, Copies, ErrorsPaid, ErrorsToCome, OldOnes, NewOnes
  <1> HIDE DEF B, C
  <1>12. consec_errs + 1 <= C
    <2>1. CASE Acked
      BY <1>3, <1>4, <1>5, <1>6, <1>11, <2>1
    <2>2. CASE ~Acked
      BY <1>3, <1>4, <1>5, <1>6, <1>11, <2>2
    <2> QED
      BY <2>1, <2>2
  <1>13. consec_errs' = consec_errs + 1 /\ mode' = mode
    <2>1. faults' \in Nat /\ ResponseTicks * faults' < MAX_CONSEC_ERRS
      BY <1>1, <1>4 DEF Bearable
    <2> QED
      BY <1>1, <1>12, <2>1, LoopGoesOn DEF C
  <1>14. LiveInv'
    <2>1. Acked' <=> Acked
      BY <1>1, AckedAfterAnswer
    <2> QED
      BY <1>1, <1>8, <1>13, <2>1, LiveKept
  <1>15. ASSUME Acked PROVE CountInv'
    <2>1. p = 0 /\ m < Len(d2h)
      BY <1>3, <1>15
    <2>2. AckAfter(m)' /\ m \in 0 .. Len(d2h') /\ m < Len(d2h')
      BY <1>7, <2>1
    <2>3. OlderUpTo(p)' /\ p \in 0 .. Len(h2d')
      BY <1>10, <2>1
    <2>4. Paid(p, m)' /\ Copies(p, m)'
      BY <1>1, <1>3, <1>4, <1>7, <1>8, <1>9, <1>10, <1>11, <2>1 DEF Paid, Copies, OldOnes, NewOnes
    <2>5. ErrorsPaid(p, m)'
      <3>1. consec_errs' + (Len(h2d) - 1 - p + 0 + m) <= C
        BY <1>3, <1>4, <1>5, <1>6, <1>11, <1>13, <1>15
      <3> QED
        BY <1>9, <1>10, <2>2, <3>1 DEF ErrorsPaid, ErrorsToCome, NewOnes, C
    <2> QED
      BY <2>2, <2>3, <2>4, <2>5 DEF CountInv
  <1>16. ASSUME ~Acked, NEW q \in 0 .. Len(h2d'), OlderUpTo(q)', q \in Nat, q = p - 1 \/ q = p
         PROVE  CountInv'
    <2>1. m = Len(d2h)
      BY <1>3, <1>4, <1>16
    <2>2. AckAfter(m + 1)' /\ m + 1 \in 0 .. Len(d2h') /\ ~(m + 1 < Len(d2h'))
      BY <1>4, <1>7, <2>1
    <2>3. q <= p /\ p <= q + 1
      BY <1>3, <1>16
    <2>4. Paid(q, m + 1)'
      <3>1. attempt - 1 + (q + 0) + (m + 1) + 0 <= faults + 1
        BY <1>3, <1>4, <1>11, <1>16, <2>3
      <3> QED
        BY <1>1, <1>8, <1>9, <3>1 DEF Paid, OldOnes
    <2>5. Copies(q, m + 1)'
      <3>1. (Len(h2d) - 1 - q + 0) + (Len(d2h) + 1) - (m + 1) <= attempt
        BY <1>3, <1>4, <1>11, <1>16, <2>3
      <3> QED
        BY <1>7, <1>9, <1>10, <3>1 DEF Copies, NewOnes
    <2>6. ErrorsPaid(q, m + 1)'
      <3>1. consec_errs' + (q + 0 + 0) <= C
        BY <1>3, <1>4, <1>5, <1>6, <1>11, <1>13, <1>16, <2>3
      <3> QED
        BY <1>8, <1>9, <2>2, <3>1 DEF ErrorsPaid, ErrorsToCome, OldOnes, C
    <2> QED
      BY <1>16, <2>2, <2>4, <2>5, <2>6 DEF CountInv
  <1>17. CountInv'
    BY <1>3, <1>10, <1>15, <1>16
  <1> QED
    BY <1>14, <1>17

\* The host sends the frame again: on a response that is no acknowledgement of it,
\* after silence, or because the response is late.
LEMMA ResentCounts ==
    ASSUME Recoverable, TypeInv, ProtocolInv, RecoverInv, Bearable,
           Same, h2d' = Append(h2d, PushFrame(image, frame)),
           attempt' = attempt + 1, waited' = 0,
           UNCHANGED <<rx, mode, g_state, consec_errs>>,
           \/ /\ d2h # <<>> /\ d2h' = Tail(d2h) /\ d2h[1] # ACK(SeqOf(frame))
              /\ faults' = faults
           \/ /\ d2h' = d2h /\ d2h = <<>>
              /\ (Nothing /\ faults' = faults) \/ faults' = faults + 1
    PROVE  CountInv' /\ LiveInv'
  <1>1. SeqOutlasts /\ host = "waiting"
    BY DEF Recoverable, Bearable
  <1>2. PICK p \in 0 .. Len(h2d), m \in 0 .. Len(d2h) :
            OlderUpTo(p) /\ AckAfter(m) /\ Paid(p, m) /\ Copies(p, m) /\ ErrorsPaid(p, m)
    BY DEF RecoverInv, CountInv
  <1>3. /\ m < Len(d2h) <=> Acked
        /\ Acked => p = 0
        /\ p \in Nat /\ m \in Nat /\ Len(h2d) - p \in Nat /\ Len(d2h) - m \in Nat
        /\ One(Newest(rx)) \in 0 .. 1 /\ One(Older(rx)) \in 0 .. 1
    BY <1>1, <1>2, SplitFacts
  <1>4. /\ attempt \in Nat /\ faults \in Nat /\ consec_errs \in Nat
        /\ Len(h2d) \in Nat /\ Len(d2h) \in Nat /\ attempt >= 1
        /\ waited \in Nat /\ waited <= ResponseTicks
        /\ Len(d2h) = 0 <=> d2h = <<>>
    BY Numbers
  <1>5. /\ ResponseTicks \in Nat /\ ResponseTicks >= 1
        /\ ResponseTicks * faults \in Nat
        /\ ResponseTicks * (faults + 1) = ResponseTicks * faults + ResponseTicks
    BY <1>4, Budget
  <1> DEFINE B == ResponseTicks * faults
             C == ResponseTicks * faults'
             o == One(Older(rx))
             n == One(Newest(rx))
             z == One(Nothing)
  <1>6. B \in Nat /\ C \in Nat /\ B <= C
    BY <1>5
  <1>7. /\ o \in Nat /\ n \in Nat
        /\ z = 1 <=> Nothing
        /\ z \in 0 .. 1
        /\ attempt - 1 + (p + o) + m + z <= faults
        /\ Len(h2d) - p + n + Len(d2h) - m <= attempt
        /\ Acked => consec_errs + (Len(h2d) - p + n + m) <= B
        /\ ~Acked => consec_errs + (p + o) <= B
    <2>1. consec_errs + ErrorsToCome(p, m) <= B
      BY <1>2 DEF ErrorsPaid
    <2>2. ~Acked => ErrorsToCome(p, m) = p + o + (IF Nothing THEN ResponseTicks - waited ELSE 0)
      BY <1>3 DEF ErrorsToCome, OldOnes
    <2>3. ~Acked => consec_errs + (p + o) <= B
      BY <1>3, <1>4, <1>5, <1>6, <2>1, <2>2
    <2>4. Acked => ErrorsToCome(p, m) = Len(h2d) - p + n + m
      BY <1>3 DEF ErrorsToCome, NewOnes
    <2> QED
      BY <1>2, <1>3, <2>1, <2>3, <2>4 DEF Paid, Copies, OldOnes, NewOnes, One
  <1>8. /\ (One(Older(rx)))' = o /\ (One(Newest(rx)))' = n
    <2>1. (Older(rx))' <=> Older(rx)
      BY DEF Same, Older, Sent, PushFrame, build_frame, SeqOf, LastFrame
    <2>2. (Newest(rx))' <=> Newest(rx)
      BY DEF Same, Newest, Sent, PushFrame, build_frame, SeqOf, LastFrame
    <2> QED
      BY <2>1, <2>2 DEF One
  <1>9. Len(h2d') = Len(h2d) + 1 /\ p \in 0 .. Len(h2d') /\ OlderUpTo(p)'
    BY <1>2, FrameSent
  <1>10. ~Nothing' /\ (One(Nothing))' = 0
    <2>1. h2d' # <<>>
      BY <1>4, <1>9
    <2> QED
      BY <2>1 DEF Nothing, One
  <1> HIDE DEF B, C, o, n, z
  <1>11. ASSUME NEW k \in 0 .. Len(d2h'), AckAfter(k)', k \in Nat,
                Len(d2h') - k = Len(d2h) - m, k <= m, k < Len(d2h') <=> Acked,
                attempt + (p + o) + k <= faults'
         PROVE  CountInv'
    <2>1. Paid(p, k)'
      <3>1. (attempt + 1) - 1 + (p + o) + k + 0 <= faults'
        BY <1>3, <1>4, <1>7, <1>11
      <3> QED
        BY <1>8, <1>10, <3>1 DEF Paid, OldOnes
    <2>2. Copies(p, k)'
      <3>1. Len(d2h') \in Nat
        BY <1>3, <1>4, <1>11
      <3>2. (Len(h2d) + 1) - p + n + Len(d2h') - k <= attempt + 1
        BY <1>3, <1>4, <1>7, <1>11, <3>1
      <3> QED
        BY <1>8, <1>9, <3>2 DEF Copies, NewOnes
    <2>3. ErrorsPaid(p, k)'
      <3>1. CASE Acked
        <4>1. m >= k + 1 => consec_errs + ((Len(h2d) + 1) - p + n + k) <= C
          BY <1>3, <1>4, <1>6, <1>7, <1>11, <3>1
        <4>2. m >= k + 1
          <5>1. Len(d2h) # 0
            BY <1>3, <1>4, <3>1
          <5>2. Len(d2h') = Len(d2h) - 1
            BY <1>4, <5>1, Basics, TailFacts
          <5> QED
            BY <1>3, <1>4, <1>11, <5>2
        <4> QED
          BY <1>8, <1>9, <1>11, <3>1, <4>1, <4>2 DEF ErrorsPaid, ErrorsToCome, NewOnes, C
      <3>2. CASE ~Acked
        <4>1. consec_errs + (p + o + 0) <= C
          BY <1>3, <1>4, <1>6, <1>7, <3>2
        <4> QED
          BY <1>8, <1>10, <1>11, <3>2, <4>1 DEF ErrorsPaid, ErrorsToCome, OldOnes, C
      <3> QED
        BY <3>1, <3>2
    <2> QED
      BY <1>9, <1>11, <2>1, <2>2, <2>3 DEF CountInv
  <1>12. CASE d2h # <<>> /\ d2h' = Tail(d2h) /\ d2h[1] # ACK(SeqOf(frame)) /\ faults' = faults
    <2>1. Len(d2h') = Len(d2h) - 1 /\ m >= 1 /\ m - 1 \in 0 .. Len(d2h') /\ AckAfter(m - 1)'
      BY <1>2, <1>12, ResponseTaken DEF Same
    <2>2. /\ m - 1 \in Nat /\ Len(d2h') - (m - 1) = Len(d2h) - m /\ m - 1 <= m
          /\ m - 1 < Len(d2h') <=> m < Len(d2h)
          /\ attempt + (p + o) + (m - 1) <= faults'
      <3>1. /\ m - 1 \in Nat /\ Len(d2h') - (m - 1) = Len(d2h) - m /\ m - 1 <= m
            /\ m - 1 < Len(d2h') <=> m < Len(d2h)
        BY <1>3, <1>4, <2>1
      <3>2. attempt - 1 + (p + o) + m <= faults'
        <4>1. attempt - 1 + (p + o) + m <= faults
          BY <1>3, <1>4, <1>7
        <4> QED
          BY <1>12, <4>1
      <3>3. attempt + (p + o) + (m - 1) <= faults'
        BY <1>3, <1>4, <1>7, <3>2
      <3> QED
        BY <3>1, <3>3
    <2>3. CountInv'
      BY <1>3, <1>11, <2>1, <2>2
    <2>4. Acked' <=> Acked
      <3>1. OrderInv
        BY DEF ProtocolInv
      <3>2. Acked' => Acked
        BY <1>1, <1>12, <3>1, AcksKept DEF NoNewAck, Same
      <3>3. Acked => Acked'
        <4>1. ASSUME Acked PROVE (m - 1) + 1 \in 1 .. Len(d2h') /\ d2h'[(m - 1) + 1] = (ACK(SeqOf(frame)))'
          <5>1. m - 1 < Len(d2h')
            BY <1>3, <2>2, <4>1
          <5>2. (m - 1) + 1 \in 1 .. Len(d2h')
            BY <1>3, <1>4, <2>1, <5>1
          <5> QED
            BY <2>1, <5>1, <5>2 DEF AckAfter
        <4> QED
          BY <1>1, <4>1 DEF Acked, Same
      <3> QED
        BY <3>2, <3>3
    <2>5. LiveInv'
      BY <2>4, LiveKept DEF RecoverInv, LiveInv
    <2> QED
      BY <2>3, <2>5
  <1>13. CASE d2h' = d2h /\ d2h = <<>> /\ ((Nothing /\ faults' = faults) \/ faults' = faults + 1)
    <2>1. AckAfter(m)' /\ m \in 0 .. Len(d2h')
      BY <1>2, <1>13 DEF AckAfter, Same, SeqOf, ACK
    <2>2. attempt + (p + o) + m <= faults'
      BY <1>3, <1>4, <1>7, <1>13
    <2>3. CountInv'
      BY <1>3, <1>11, <1>13, <2>1, <2>2
    <2>4. Acked' <=> Acked
      BY <1>13 DEF Acked, Same, SeqOf, ACK
    <2>5. LiveInv'
      BY <2>4, LiveKept DEF RecoverInv, LiveInv
    <2> QED
      BY <2>3, <2>5
  <1> QED
    BY <1>12, <1>13

\* The ACK is read and the next frame sent: all that is left of this one is paid for.
LEMMA AckCounts ==
    ASSUME Recoverable, TypeInv, ProtocolInv, RecoverInv, Bearable, Bearable',
           UNCHANGED receiver, Acknowledged
    PROVE  CountInv' /\ LiveInv'
  <1>1. SeqOutlasts /\ host = "waiting" /\ frame # LastFrame(image) /\ faults' = faults /\ waited' = 0
    BY DEF Recoverable, Bearable, Acknowledged
  <1>2. PICK p \in 0 .. Len(h2d), m \in 0 .. Len(d2h) :
            OlderUpTo(p) /\ AckAfter(m) /\ Paid(p, m) /\ Copies(p, m) /\ ErrorsPaid(p, m)
    BY DEF RecoverInv, CountInv
  <1>3. /\ UNCHANGED <<mode, g_state, rx, slot, installed>> /\ image' = image
        /\ d2h[1] = ACK(SeqOf(frame)) /\ Acked
        /\ Len(d2h) \in Nat \ {0} /\ Len(d2h') = Len(d2h) - 1
        /\ rx # NoFrame => Newest(rx)
        /\ Running => g_state.written = frame - 1 /\ AtFrame
    BY <1>1, AckRead
  <1>4. /\ host' = host /\ frame' = frame + 1 /\ attempt' = 1
        /\ SeqOf(frame)' = SeqOf(frame + 1)
        /\ \A y : /\ (Newest(y))' => y \in Frame /\ ~Newest(y)
                  /\ (Older(y))' <=> Newest(y)
        /\ Len(h2d') = Len(h2d) + 1 /\ h2d'[Len(h2d) + 1] = (Sent(frame))'
        /\ \A j \in 1 .. Len(h2d) : h2d'[j] = h2d[j] /\ Newest(h2d[j])
        /\ \A j \in 1 .. Len(h2d') : j = Len(h2d) + 1 \/ j \in 1 .. Len(h2d)
        /\ \A j \in 1 .. Len(d2h') : d2h'[j] # ACK(SeqOf(frame + 1))
    BY <1>1, AckRead, NextSent
  <1>5. /\ attempt \in Nat /\ faults \in Nat /\ consec_errs \in Nat
        /\ Len(h2d) \in Nat /\ Len(d2h) \in Nat /\ frame \in Nat /\ frame >= 1
    BY Numbers, Basics
  <1>6. p = 0 /\ m = 0 /\ One(Older(rx)) = 0 /\ One(Newest(rx)) \in 0 .. 1 /\ One(Nothing) \in 0 .. 1
    <2>1. p = 0 /\ ~Older(rx)
      BY <1>1, <1>2, <1>3, SplitFacts
    <2>2. m = 0
      <3>1. m # 0 => 1 \in 1 .. m
        BY <1>2
      <3> QED
        BY <1>2, <1>3, <3>1 DEF AckAfter
    <2> QED
      BY <2>1, <2>2 DEF One
  <1> DEFINE n == One(Newest(rx))
  <1>7. /\ attempt - 1 <= faults
        /\ Len(h2d) + n + Len(d2h) <= attempt
        /\ consec_errs + (Len(h2d) + n) <= ResponseTicks * faults
    BY <1>2, <1>3, <1>5, <1>6 DEF Paid, Copies, ErrorsPaid, ErrorsToCome, OldOnes, NewOnes
  <1>8. /\ (One(Older(rx)))' = n /\ (One(Newest(rx)))' = 0
        /\ rx' # NoFrame => (Older(rx))'
    <2>1. (Older(rx))' <=> Newest(rx)
      BY <1>3, <1>4
    <2>2. ~(Newest(rx))'
      BY <1>3, <1>4, ReceiverAssumption
    <2> QED
      BY <1>3, <2>1, <2>2 DEF One
  <1>9. ~Nothing' /\ (One(Nothing))' = 0
    <2>1. h2d' # <<>>
      BY <1>4, <1>5
    <2> QED
      BY <2>1 DEF Nothing, One
  <1> HIDE DEF n
  <1>10. ASSUME NEW q \in Nat, NEW k \in Nat, q = Len(h2d), k = Len(d2h')
         PROVE  CountInv'
    <2>1. q \in 0 .. Len(h2d') /\ k \in 0 .. Len(d2h') /\ ~(k < Len(d2h'))
      BY <1>4, <1>5, <1>10
    <2>2. OlderUpTo(q)'
      <3>1. \A j \in 1 .. Len(h2d') : IF j <= q THEN Newest(h2d'[j]) ELSE h2d'[j] = (Sent(frame))'
        BY <1>4, <1>5, <1>10
      <3>2. \A y : (Older(y))' <=> Newest(y)
        BY <1>4
      <3> QED
        BY <3>1, <3>2 DEF OlderUpTo, Newest
    <2>3. AckAfter(k)'
      BY <1>4, <1>10, <2>1 DEF AckAfter, ACK
    <2>4. Paid(q, k)'
      <3>1. 1 - 1 + (q + n) + k + 0 <= faults
        BY <1>3, <1>5, <1>6, <1>7, <1>10 DEF n
      <3> QED
        BY <1>1, <1>4, <1>8, <1>9, <3>1 DEF Paid, OldOnes
    <2>5. Copies(q, k)'
      <3>1. Len(h2d') - q + 0 + Len(d2h') - k <= 1
        BY <1>3, <1>4, <1>5, <1>10
      <3> QED
        BY <1>4, <1>8, <3>1 DEF Copies, NewOnes
    <2>6. ErrorsPaid(q, k)'
      <3>1. consec_errs + (q + n + 0) <= ResponseTicks * faults
        BY <1>5, <1>6, <1>7, <1>10 DEF n
      <3> QED
        BY <1>1, <1>8, <1>9, <2>1, <3>1 DEF ErrorsPaid, ErrorsToCome, OldOnes, receiver
    <2> QED
      BY <2>1, <2>2, <2>3, <2>4, <2>5, <2>6 DEF CountInv
  <1>11. LiveInv'
    <2>1. /\ mode = "receive" /\ g_state.active /\ g_state.total = NumChunks[image]
      BY <1>1, <1>3 DEF RecoverInv, LiveInv
    <2>2. g_state.written = frame - 1 /\ frame' # 1 /\ g_state.written # frame' - 1
      BY <1>3, <1>4, <1>5, <2>1 DEF Running
    <2> QED
      BY <1>1, <1>3, <1>4, <1>8, <2>1, <2>2 DEF LiveInv, OfThisRun
  <1> QED
    BY <1>3, <1>5, <1>10, <1>11

\* The tool is not run again, and adverse events are not forgotten.
LEMMA OneRun ==
    ASSUME Recoverable, TypeInv, FailInv, [Next]_vars
    PROVE  /\ faults \in Nat /\ faults' \in Nat /\ faults <= faults'
           /\ ResponseTicks * faults \in Nat /\ ResponseTicks * faults' \in Nat
           /\ ResponseTicks * faults <= ResponseTicks * faults'
           /\ sessions' = 1 /\ host' # "idle"
           /\ host' = "waiting" => host = "waiting"
           /\ host' = host \/ Acknowledged \/ (Retry /\ host = "waiting" /\ attempt >= RETRIES_PER_FRAME)
  <1>1. faults \in Nat /\ attempt \in Nat /\ RETRIES_PER_FRAME \in Nat /\ sessions = 1 /\ MaxSessions = 1
    BY Numbers, HostAssumption DEF FailInv, Recoverable
  <1>2. ~RunTool /\ ~OperatorSends
    BY <1>1 DEF RunTool, OperatorSends
  <1>3. faults' = faults \/ faults' = faults + 1
    <2>1. CASE Receiver
      BY <2>1
      DEF Receiver, Tick, ReadTimeout, ReadFrame, ReadBadFrame, Handle, HandleStart, HandleData,
          HandleEnd, HandleAbort, HandleOther, Fault
    <2>2. CASE Host \/ LateResponse
      BY <2>2 DEF Host, LateResponse, Acknowledged, NotAcknowledged, Fault
    <2>3. CASE ~Receiver /\ ~Host /\ ~LateResponse
      BY <1>2, <2>3
      DEF Next, Unread, MenuEatsFrame, BootedDropsFrame, Operator, MenuUpload, Noise, LoseFrame,
          LoseResponse, DeviceReset, Fault, vars
    <2> QED
      BY <2>1, <2>2, <2>3
  <1>4. \/ host' = host /\ sessions' = sessions
        \/ Acknowledged
        \/ Retry /\ host = "waiting"
    <2>1. CASE Receiver
      BY <2>1 DEF Receiver, Tick, hostvars
    <2>2. CASE ~Receiver
      BY <1>2, <2>2
      DEF Next, Host, LateResponse, NotAcknowledged, NoResponse, Unread, Operator, Noise,
          hostvars, vars
    <2> QED
      BY <2>1, <2>2
  <1>5. Acknowledged => sessions' = sessions /\ host = "waiting" /\ host' \in {"waiting", "done"}
    BY DEF Acknowledged
  <1>6. Retry => /\ sessions' = sessions
                 /\ host' = host \/ (host' = "failed" /\ attempt >= RETRIES_PER_FRAME)
    BY <1>1 DEF Retry
  <1>7. /\ ResponseTicks * faults \in Nat /\ ResponseTicks * faults' \in Nat
        /\ ResponseTicks * faults <= ResponseTicks * faults'
    <2>1. /\ ResponseTicks \in Nat /\ ResponseTicks * faults \in Nat
          /\ ResponseTicks * (faults + 1) = ResponseTicks * faults + ResponseTicks
      BY <1>1, Budget
    <2> QED
      BY <1>3, <2>1
  <1> QED
    BY <1>1, <1>3, <1>4, <1>5, <1>6, <1>7 DEF FailInv

\* An attempt ends with a response that is no acknowledgement, in silence, or with
\* one more event.
LEMMA WhyAgain ==
    ASSUME Recoverable, TypeInv, LiveInv, Bearable,
           NotAcknowledged \/ (NoResponse /\ LineUnread /\ UNCHANGED faults)
               \/ (NoResponse /\ Fault("late"))
    PROVE  \/ /\ d2h # <<>> /\ d2h' = Tail(d2h) /\ d2h[1] # ACK(SeqOf(frame))
              /\ faults' = faults
           \/ /\ d2h' = d2h /\ d2h = <<>>
              /\ (Nothing /\ faults' = faults) \/ faults' = faults + 1
  <1>1. mode = "receive" \/ (mode = "booted" /\ frame = LastFrame(image) /\ Acked)
    BY DEF LiveInv
  <1>2. ASSUME d2h = <<>>, LineUnread PROVE Nothing
    <2>1. ~Acked
      BY <1>2 DEF Acked
    <2>2. waited > 0
      BY <1>1, <1>2, <2>1, HostAssumption DEF LineUnread, Recoverable
    <2> QED
      BY <2>2 DEF LiveInv
  <1>3. ASSUME d2h # <<>>, ~Acknowledges(Head(d2h)) PROVE d2h[1] # ACK(SeqOf(frame))
    BY <1>3, TailFacts, Basics DEF Acknowledges, ACK
  <1> QED
    BY <1>2, <1>3 DEF NotAcknowledged, NoResponse, Fault

\* When the last attempt has failed, enough has happened: an event paid for each of
\* them, the last one included.
LEMMA FailStep ==
    ASSUME Recoverable, TypeInv, RecoverInv, [Next]_vars
    PROVE  FailInv'
  <1>1. /\ faults \in Nat /\ faults' \in Nat /\ faults <= faults'
        /\ ResponseTicks * faults \in Nat /\ ResponseTicks * faults' \in Nat
        /\ ResponseTicks * faults <= ResponseTicks * faults'
        /\ sessions' = 1 /\ host' # "idle"
        /\ host' = host \/ Acknowledged \/ (Retry /\ host = "waiting" /\ attempt >= RETRIES_PER_FRAME)
    BY OneRun DEF RecoverInv
  <1>2. RETRIES_PER_FRAME \in Nat /\ MAX_CONSEC_ERRS \in Nat
    BY HostAssumption, ReceiverAssumption
  <1>3. ASSUME host = "waiting", host' = "failed", Bearable
        PROVE  faults' >= RETRIES_PER_FRAME
    <2>1. attempt >= RETRIES_PER_FRAME /\ attempt \in Nat
      BY <1>1, <1>3, Numbers DEF Acknowledged
    <2>2. \/ NotAcknowledged \/ (NoResponse /\ LineUnread /\ UNCHANGED faults)
          \/ (NoResponse /\ Fault("late"))
      BY <1>3
      DEF Next, Receiver, Tick, Host, LateResponse, Acknowledged, Unread, Operator, RunTool,
          OperatorSends, Noise, hostvars, vars
    <2>3. \/ /\ d2h # <<>> /\ d2h[1] # ACK(SeqOf(frame)) /\ faults' = faults
          \/ Nothing /\ faults' = faults
          \/ faults' = faults + 1
      BY <1>3, <2>2, WhyAgain DEF RecoverInv
    <2>4. PICK p \in 0 .. Len(h2d), m \in 0 .. Len(d2h) : Paid(p, m) /\ AckAfter(m)
      BY <1>3 DEF RecoverInv, CountInv
    <2>5. OldOnes(p) \in Nat /\ m \in Nat /\ One(Nothing) \in Nat
      <3>1. p \in Nat /\ m \in Nat
        BY Numbers
      <3> QED
        BY <3>1 DEF OldOnes, One
    <2>6. attempt - 1 + OldOnes(p) + m + One(Nothing) <= faults
      BY <2>4 DEF Paid
    <2>7. CASE d2h # <<>> /\ d2h[1] # ACK(SeqOf(frame)) /\ faults' = faults
      <3>1. m # 0
        BY <2>4, <2>7, Numbers DEF AckAfter
      <3> QED
        BY <1>1, <1>2, <2>1, <2>5, <2>6, <2>7, <3>1
    <2>8. CASE Nothing /\ faults' = faults
      <3>1. One(Nothing) = 1 /\ faults' = faults
        BY <2>8 DEF One
      <3>2. attempt <= faults'
        BY <1>1, <2>1, <2>5, <2>6, <3>1
      <3> QED
        BY <1>1, <1>2, <2>1, <3>2
    <2>9. CASE faults' = faults + 1
      BY <1>1, <1>2, <2>1, <2>5, <2>6, <2>9
    <2> QED
      BY <2>3, <2>7, <2>8, <2>9
  <1>4. host' = "failed" => host = "failed" \/ host = "waiting"
    BY <1>1 DEF Acknowledged
  <1>5. ASSUME faults >= RETRIES_PER_FRAME \/ ResponseTicks * faults >= MAX_CONSEC_ERRS
        PROVE  faults' >= RETRIES_PER_FRAME \/ ResponseTicks * faults' >= MAX_CONSEC_ERRS
    BY <1>1, <1>2, <1>5
  <1>6. host = "waiting" /\ ~Bearable
            => faults >= RETRIES_PER_FRAME \/ ResponseTicks * faults >= MAX_CONSEC_ERRS
    BY <1>1, <1>2 DEF Bearable
  <1>7. RetransmitRecovers'
    BY <1>3, <1>4, <1>5, <1>6 DEF RecoverInv, FailInv, RetransmitRecovers
  <1> QED
    BY <1>1, <1>7 DEF FailInv

\* Each step keeps the accounts as long as the next state is bearable.
LEMMA CountStep ==
    ASSUME Recoverable, TypeInv, ProtocolInv, RecoverInv, [Next]_vars
    PROVE  CountInv' /\ LiveInv'
  <1>1. SUFFICES ASSUME Bearable' PROVE CountInv' /\ LiveInv'
    BY DEF CountInv, LiveInv
  <1>2. Bearable /\ host = "waiting" /\ host' = "waiting" /\ ~RunTool /\ ~OperatorSends
    <2>1. RETRIES_PER_FRAME \in Nat /\ MAX_CONSEC_ERRS \in Nat
      BY HostAssumption, ReceiverAssumption
    <2> QED
      BY <1>1, <2>1, OneRun DEF Bearable, RecoverInv, RunTool, OperatorSends
  <1>3. mode = "receive" \/ (mode = "booted" /\ frame = LastFrame(image) /\ Acked)
    BY <1>2 DEF RecoverInv, LiveInv
  <1>4. CASE Receiver
    <2>1. Tick \/ ((ReadFrame \/ ReadBadFrame \/ Handle) /\ UNCHANGED hostvars)
      BY <1>4 DEF Receiver
    <2>2. UNCHANGED hostvars => Same /\ UNCHANGED <<attempt, waited>>
      BY DEF hostvars, Same
    <2> QED
      BY <1>1, <1>2, <2>1, <2>2, SilenceCounts, ReadCounts, DamagedCounts, FrameCounts
  <1>5. CASE (NotAcknowledged \/ (NoResponse /\ LineUnread /\ UNCHANGED faults)
                \/ (NoResponse /\ Fault("late"))) /\ UNCHANGED receiver
    <2>1. /\ Same /\ h2d' = Append(h2d, PushFrame(image, frame)) /\ attempt' = attempt + 1
          /\ waited' = 0 /\ UNCHANGED <<rx, mode, g_state, consec_errs>>
      BY <1>2, <1>5 DEF NotAcknowledged, NoResponse, Retry, receiver, Same
    <2>2. \/ /\ d2h # <<>> /\ d2h' = Tail(d2h) /\ d2h[1] # ACK(SeqOf(frame))
             /\ faults' = faults
          \/ /\ d2h' = d2h /\ d2h = <<>>
             /\ (Nothing /\ faults' = faults) \/ faults' = faults + 1
      BY <1>2, <1>5, WhyAgain DEF RecoverInv
    <2> QED
      BY <1>2, <2>1, <2>2, ResentCounts
  <1>6. CASE Acknowledged /\ UNCHANGED receiver
    BY <1>1, <1>2, <1>6, AckCounts
  <1>7. CASE (LoseFrame \/ BootedDropsFrame) /\ UNCHANGED <<receiver, hostvars>>
    <2>1. /\ Same /\ h2d # <<>> /\ h2d' = Tail(h2d)
          /\ UNCHANGED <<attempt, waited, d2h, rx, consec_errs, mode, g_state>>
          /\ faults' = faults + 1 \/ (faults' = faults /\ Acked)
      BY <1>3, <1>7 DEF LoseFrame, BootedDropsFrame, Fault, receiver, hostvars, Same
    <2> QED
      BY <1>2, <2>1, LostCounts
  <1>8. CASE UNCHANGED vars
    <2>1. /\ Same
          /\ UNCHANGED <<h2d, d2h, faults, attempt, waited, rx, consec_errs, mode, g_state>>
      BY <1>8 DEF vars, wire, receiver, hostvars, Same
    <2>2. /\ (One(Older(rx)))' = One(Older(rx)) /\ (One(Newest(rx)))' = One(Newest(rx))
          /\ (Nothing)' <=> Nothing
          /\ (One(Nothing))' = One(Nothing)
      <3>1. /\ (Older(rx))' <=> Older(rx)
            /\ (Newest(rx))' <=> Newest(rx)
            /\ Nothing' <=> Nothing
        BY <2>1, SameMeaning
        DEF Same, Older, Newest, Sent, PushFrame, build_frame, SeqOf, LastFrame, Nothing
      <3> QED
        BY <3>1 DEF One
    <2>3. ASSUME NEW p \in 0 .. Len(h2d), NEW m \in 0 .. Len(d2h),
                 OlderUpTo(p) /\ AckAfter(m) /\ Paid(p, m) /\ Copies(p, m) /\ ErrorsPaid(p, m)
          PROVE  (OlderUpTo(p) /\ AckAfter(m) /\ Paid(p, m) /\ Copies(p, m) /\ ErrorsPaid(p, m))'
      <3>1. OlderUpTo(p)'
        BY <2>1, <2>3, SameMeaning DEF OlderUpTo
      <3>2. AckAfter(m)'
        BY <2>1, <2>3 DEF AckAfter, Same, SeqOf, ACK
      <3>3. Paid(p, m)' /\ Copies(p, m)'
        BY <2>1, <2>2, <2>3 DEF Paid, Copies, OldOnes, NewOnes
      <3>4. ErrorsPaid(p, m)'
        BY <2>1, <2>2, <2>3 DEF ErrorsPaid, ErrorsToCome, OldOnes, NewOnes
      <3> QED
        BY <3>1, <3>2, <3>3, <3>4
    <2>4. CountInv'
      <3>1. PICK p \in 0 .. Len(h2d), m \in 0 .. Len(d2h) :
                OlderUpTo(p) /\ AckAfter(m) /\ Paid(p, m) /\ Copies(p, m) /\ ErrorsPaid(p, m)
        BY <1>2 DEF RecoverInv, CountInv
      <3>2. p \in 0 .. Len(h2d') /\ m \in 0 .. Len(d2h')
        BY <2>1
      <3> QED
        BY <2>3, <3>1, <3>2 DEF CountInv
    <2>5. LiveInv'
      <3>1. Acked' <=> Acked
        BY <2>1 DEF Acked, Same, SeqOf, ACK
      <3>2. (waited' > 0 => Nothing') /\ (rx' # NoFrame => OfThisRun(rx'))
        BY <1>2, <2>1, <2>2 DEF RecoverInv, LiveInv
      <3> QED
        BY <1>2, <2>1, <3>1, <3>2, LiveKept
    <2> QED
      BY <2>4, <2>5
  <1>9. ~MenuEatsFrame /\ ~MenuUpload /\ ~LoseResponse /\ ~DeviceReset
    BY <1>3 DEF MenuEatsFrame, MenuUpload, LoseResponse, DeviceReset, Fault, Recoverable
  <1> QED
    BY <1>2, <1>4, <1>5, <1>6, <1>7, <1>8, <1>9
    DEF Next, Host, LateResponse, Unread, Operator, Noise, BootedDropsFrame

\* The tool has just been started: nothing is counted yet.
LEMMA OpenType ==
    ASSUME Recoverable, OpenInit PROVE TypeInv
  <1>1. image \in Images /\ PushFrame(image, 1) \in Frame /\ Carries(PushFrame(image, 1))
    <2>1. image \in Images
      BY DEF OpenInit, HostStarted
    <2>2. 1 \in 1 .. LastFrame(image)
      BY <2>1, ImageFacts
    <2> QED
      BY <2>1, <2>2, PushType
  <1>2. WireTypeOK
    BY <1>1, EmptySeq, WireFaultsAssumption DEF OpenInit, WireTypeOK
  <1>3. CarriersInv
    BY <1>1 DEF OpenInit, ReceiverInit, CarriersInv
  <1>4. ReceiverTypeOK
    BY SeqType, ReceiverAssumption
    DEF OpenInit, ReceiverInit, ReceiverTypeOK, Cleared, ota_state_t, Cell
  <1>5. HostTypeOK
    BY <1>1, ImageFacts, HostAssumption DEF OpenInit, HostStarted, HostTypeOK, Recoverable
  <1> QED
    BY <1>2, <1>3, <1>4, <1>5 DEF TypeInv, TypeOK

LEMMA OpenHolds ==
    ASSUME Recoverable, OpenInit PROVE ProtocolInv /\ RecoverInv
  <1>1. /\ h2d = <<PushFrame(image, 1)>> /\ d2h = <<>> /\ rx = NoFrame /\ frame = 1 /\ host = "waiting"
        /\ ~g_state.active /\ mode = "receive" /\ faults = 0 /\ attempt = 1 /\ waited = 0
        /\ consec_errs = 0 /\ sessions = 1
    BY DEF OpenInit, ReceiverInit, HostStarted, Cleared
  <1>2. Len(h2d) = 1 /\ Newest(h2d[1]) /\ Len(d2h) = 0 /\ ~Acked /\ \A x : ~Older(x)
    BY <1>1 DEF Newest, Sent, Acked, Older
  <1>3. TypeInv /\ SeqOutlasts /\ ~Newest(rx) /\ ~Nothing
    <2>1. TypeInv /\ SeqOutlasts
      BY OpenType DEF Recoverable
    <2> QED
      BY <1>1, <2>1, Apart DEF Nothing
  <1>4. ProtocolInv
    BY <1>1, <1>2
    DEF ProtocolInv, LineInv, RxInv, OrderInv, TotalInv, DeviceInv, AckedInv, DoneInv, OfThisRun,
        ChunkFitsItsCell
  <1>5. CountInv
    <2>1. OlderUpTo(0) /\ AckAfter(0) /\ 0 \in 0 .. Len(h2d) /\ 0 \in 0 .. Len(d2h)
      BY <1>2 DEF OlderUpTo, AckAfter
    <2>2. One(Older(rx)) = 0 /\ One(Newest(rx)) = 0 /\ One(Nothing) = 0
      BY <1>2, <1>3 DEF One
    <2>3. ResponseTicks * 0 = 0
      BY HostAssumption
    <2>4. Paid(0, 0) /\ Copies(0, 0) /\ ErrorsPaid(0, 0)
      BY <1>1, <1>2, <1>3, <2>2, <2>3 DEF Paid, Copies, ErrorsPaid, ErrorsToCome, OldOnes, NewOnes
    <2> QED
      BY <2>1, <2>4 DEF CountInv
  <1>6. LiveInv
    BY <1>1, <1>2 DEF LiveInv
  <1>7. FailInv
    BY <1>1 DEF FailInv, RetransmitRecovers
  <1> QED
    BY <1>4, <1>5, <1>6, <1>7 DEF RecoverInv

\* RetransmitRecovers: as long as no response is lost and the device is not reset, a
\* push fails only after as many adverse events as a frame has attempts or as make up
\* the errors that end the receiver's loop, whatever the length of the image.  The
\* attempts are used up by events only, never by the answers to the host's own
\* repeated frames.
THEOREM EnoughRetries == Recoverable /\ OpenSpec => []RetransmitRecovers
  <1> SUFFICES ASSUME Recoverable PROVE OpenSpec => []RetransmitRecovers
    OBVIOUS
  <1> DEFINE Inv == TypeInv /\ ProtocolInv /\ RecoverInv
  <1>1. OpenInit => Inv
    BY OpenType, OpenHolds
  <1>2. Inv /\ [Next]_vars => Inv'
    <2> SUFFICES ASSUME Inv, [Next]_vars PROVE Inv'
      OBVIOUS
    <2>1. TypeInv' /\ ProtocolInv'
      BY TypeStep, ProtocolStep DEF Recoverable
    <2>2. CountInv' /\ LiveInv'
      BY CountStep
    <2>3. FailInv'
      BY FailStep
    <2> QED
      BY <2>1, <2>2, <2>3 DEF RecoverInv
  <1>3. Inv => RetransmitRecovers
    BY DEF RecoverInv, FailInv
  <1> QED
    BY <1>1, <1>2, <1>3, PTL DEF OpenSpec
=============================================================================
