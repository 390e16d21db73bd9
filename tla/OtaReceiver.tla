------------------------------ MODULE OtaReceiver ------------------------------
(***************************************************************************)
(* The OTA receiver of bootloader/src/ota_client.c in a full-image         *)
(* transfer, and the recovery menu around it.  A frame is taken from the   *)
(* line in one step and handled in another: an erase or a verification     *)
(* takes seconds, and the host does not wait for ever.                     *)
(***************************************************************************)
EXTENDS OtaWire

CONSTANTS
    MAX_CONSEC_ERRS,   \* 16 in ota_client_receive()
    Allowed,           \* images at or above the anti-downgrade floor
    Erased,            \* what a chunk-sized piece of the slot holds when erased
    Spoilt,            \* ... when two chunks were programmed over each other
    NoFrame,           \* no frame is being handled
    NoInstall          \* no update has been accepted

ASSUME ReceiverAssumption == /\ MAX_CONSEC_ERRS \in Nat \ {0}
                             /\ Allowed \subseteq Images
                             /\ NoFrame \notin Frame
                             /\ NoInstall \notin Images

VARIABLES
    mode,          \* "menu", "receive" (in ota_client_receive()) or "booted"
    g_state,       \* the transfer
    consec_errs,   \* errors since the last accepted frame
    rx,            \* the frame being handled
    slot,          \* flash: the inactive slot, by chunks
    installed      \* the image whose swap END has requested

receiver == <<mode, g_state, consec_errs, rx, slot, installed>>

Places == UNION {1 .. NumChunks[img] : img \in Images}

\* A chunk in flash, whole or half programmed.
Cell == [img : Images, i : Nat \ {0}, whole : BOOLEAN] \cup {Erased, Spoilt}
Programmed(chunk, whole) == [img |-> chunk.img, i |-> chunk.i, whole |-> whole]

ota_state_t == [active : BOOLEAN, total : Nat, written : Nat, expected_seq : 0 .. SeqMod - 1]
Cleared == [active |-> FALSE, total |-> 0, written |-> 0, expected_seq |-> 0]

ReceiverTypeOK ==
    /\ mode \in {"menu", "receive", "booted"}
    /\ g_state \in ota_state_t
    /\ consec_errs \in 0 .. MAX_CONSEC_ERRS - 1
    /\ rx \in Frame \cup {NoFrame}
    /\ slot \in [Places -> Cell]
    /\ installed \in Images \cup {NoInstall}

ReceiverInit ==
    /\ mode \in {"menu", "receive"}
    /\ g_state = Cleared
    /\ consec_errs = 0
    /\ rx = NoFrame
    /\ slot = [p \in Places |-> Erased]
    /\ installed = NoInstall

\* crypto_verify_firmware() of the slot: it holds the whole of an image.
Verifies(img) ==
    \A i \in 1 .. NumChunks[img] : slot[i] = [img |-> img, i |-> i, whole |-> TRUE]

-----------------------------------------------------------------------------
(* The loop of ota_client_receive().                                       *)

CountErrorPastMax ==                                                      \* mutated form
    IF consec_errs < MAX_CONSEC_ERRS
    THEN consec_errs' = consec_errs + 1 /\ UNCHANGED mode
    ELSE consec_errs' = 0 /\ mode' = "menu"
\* One more error; the last one ends the loop, and the menu is back.
CountError ==
    IF consec_errs + 1 < MAX_CONSEC_ERRS
    THEN consec_errs' = consec_errs + 1 /\ UNCHANGED mode
    ELSE consec_errs' = 0 /\ mode' = "menu"

ReadFrame ==
    /\ mode = "receive" /\ rx = NoFrame
    /\ h2d # <<>>
    /\ rx' = Head(h2d)
    /\ h2d' = Tail(h2d)
    /\ UNCHANGED <<d2h, faults, mode, g_state, consec_errs, slot, installed>>

\* A CRC that does not match, or an impossible length.  The sequence number
\* is not to be trusted: the NAK says 0.
ReadBadFrame ==
    /\ mode = "receive" /\ rx = NoFrame
    /\ h2d # <<>>
    /\ Fault("frame_bad")
    /\ h2d' = Tail(h2d)
    /\ d2h' = Append(d2h, NAK(0))
    /\ CountError
    /\ UNCHANGED <<g_state, rx, slot, installed>>

ReadTimeoutUncounted ==                                                   \* mutated form
    /\ mode = "receive" /\ rx = NoFrame
    /\ h2d = <<>>
    /\ UNCHANGED <<wire, faults, receiver>>
\* No byte for OTA_BYTE_TIMEOUT_MS.
ReadTimeout ==
    /\ mode = "receive" /\ rx = NoFrame
    /\ h2d = <<>>
    /\ CountError
    /\ UNCHANGED <<wire, faults, g_state, rx, slot, installed>>

Handled(op) == mode = "receive" /\ rx # NoFrame /\ rx.op = op /\ rx' = NoFrame

Accept == /\ d2h' = Append(d2h, ACK(rx.seq))
          /\ consec_errs' = 0
Refuse == /\ d2h' = Append(d2h, NAK(rx.seq))
          /\ CountError

\* Whole sectors: all of the image, and possibly more of the slot.
ErasesTooLittle(upto, total) == upto >= total - 1                         \* mutated form
ErasesEnough(upto, total)    == upto >= total

WipedTo(upto) == [p \in Places |-> IF p <= upto THEN Erased ELSE slot[p]]

\* No shorter than a header, no longer than a slot.
InRange(total) == total \in Places

\* A size that is missing or out of range is refused before anything is
\* erased.  An erase that fails has wiped some sectors.  Both leave g_state
\* as it was.
HandleStart ==
    /\ Handled("START")
    /\ \/ /\ ~InRange(rx.total)
          /\ Refuse
          /\ UNCHANGED <<faults, g_state, slot>>
       \/ /\ InRange(rx.total)
          /\ \E upto \in Places \cup {0} :
                ErasesEnough(upto, rx.total) /\ slot' = WipedTo(upto)
          /\ g_state' = [active |-> TRUE, total |-> rx.total, written |-> 0,
                         expected_seq |-> (rx.seq + 1) % SeqMod]
          /\ Accept
          /\ UNCHANGED <<faults, mode>>
       \/ /\ InRange(rx.total)
          /\ Fault("flash")
          /\ \E upto \in Places \cup {0} : slot' = WipedTo(upto)
          /\ UNCHANGED g_state
          /\ Refuse
    /\ UNCHANGED <<h2d, installed>>

AcceptsAnySeq ==                                                          \* mutated form
    g_state.active /\ g_state.written + 1 <= g_state.total
AcceptsData ==
    /\ g_state.active
    /\ rx.seq = g_state.expected_seq
    /\ g_state.written + 1 <= g_state.total

ProgrammableIfBlank(p) == slot[p] = Erased                                \* mutated form
\* Flash cells only take the same data again until they are erased.
Programmable(p) ==
    slot[p] \in {Erased, Programmed(rx.chunk, TRUE), Programmed(rx.chunk, FALSE)}

HandleData ==
    /\ Handled("DATA")
    /\ LET p == g_state.written + 1
       IN  \/ /\ AcceptsData /\ Programmable(p)
              /\ slot' = [slot EXCEPT ![p] = Programmed(rx.chunk, TRUE)]
              /\ g_state' = [g_state EXCEPT !.written = @ + 1,
                                            !.expected_seq = (@ + 1) % SeqMod]
              /\ Accept
              /\ UNCHANGED <<faults, mode>>
           \/ /\ AcceptsData /\ Programmable(p)
              /\ Fault("flash")
              /\ \/ slot' = [slot EXCEPT ![p] = Programmed(rx.chunk, FALSE)]
                 \/ UNCHANGED slot
              /\ UNCHANGED g_state
              /\ Refuse
           \/ /\ ~(AcceptsData /\ Programmable(p))
              /\ slot' = IF AcceptsData THEN [slot EXCEPT ![p] = Spoilt] ELSE slot
              /\ Refuse                        \* the readback finds it spoilt
              /\ UNCHANGED <<faults, g_state>>
    /\ UNCHANGED <<h2d, installed>>

EndsWith(img) ==
    /\ g_state.active
    /\ g_state.written = g_state.total
    /\ Verifies(img)
    /\ img \in Allowed

\* END, accepted, requests the swap and resets; g_state is gone with RAM.
HandleEnd ==
    /\ Handled("END")
    /\ \/ \E img \in Images :
             /\ EndsWith(img)
             /\ installed' = img
             /\ mode' = "booted"
             /\ g_state' = Cleared
             /\ Accept
             /\ UNCHANGED faults
       \/ /\ \/ (\A img \in Images : ~EndsWith(img)) /\ UNCHANGED faults
             \/ (\E img \in Images : EndsWith(img)) /\ Fault("read")
          /\ Refuse
          /\ UNCHANGED <<g_state, installed>>
    /\ UNCHANGED <<h2d, slot>>

HandleAbort ==
    /\ Handled("ABORT")
    /\ Accept
    /\ mode' = "menu"
    /\ UNCHANGED <<h2d, faults, g_state, slot, installed>>

HandleOther ==
    /\ Handled("OTHER")
    /\ Refuse
    /\ UNCHANGED <<h2d, faults, g_state, slot, installed>>

-----------------------------------------------------------------------------
(* recovery_mode_run(), which reads the line byte by byte.                 *)

EnterReceive ==
    /\ mode' = "receive"
    /\ g_state' = Cleared
    /\ consec_errs' = 0

\* The operator sends U.
MenuUpload ==
    /\ mode = "menu"
    /\ EnterReceive
    /\ UNCHANGED <<wire, faults, rx, slot, installed>>

\* Without g_state the reset ends in the menu again, or in an application.
Reset == /\ mode' \in {"menu", "booted"}
         /\ g_state' = Cleared
         /\ consec_errs' = 0
         /\ rx' = NoFrame

\* The bytes of a frame, one by one: ignored, or a U or an R among them.
MenuEatsFrame ==
    /\ mode = "menu"
    /\ h2d # <<>>
    /\ h2d' = Tail(h2d)
    /\ \/ UNCHANGED <<mode, g_state, consec_errs, rx>>
       \/ EnterReceive /\ UNCHANGED rx
       \/ Reset
    /\ UNCHANGED <<d2h, faults, slot, installed>>

\* Nobody reads the line while main() or an application runs.
BootedDropsFrame ==
    /\ mode = "booted"
    /\ h2d # <<>>
    /\ h2d' = Tail(h2d)
    /\ UNCHANGED <<d2h, faults, receiver>>

DeviceReset ==
    /\ mode # "booted"
    /\ Fault("reset")
    /\ Reset
    /\ UNCHANGED <<wire, slot, installed>>

Handle == HandleStart \/ HandleData \/ HandleEnd \/ HandleAbort \/ HandleOther
=============================================================================
