------------------------------- MODULE DeltaPatch -------------------------------
(***************************************************************************)
(* The inactive slot during updates: START, START_DELTA, DATA and END of   *)
(* bootloader/src/ota_client.c with delta_apply_patch() of delta_patch.c,  *)
(* step by step.  A patch lies at the tail of the slot that the patched    *)
(* image grows into from its base, and an END that failed may be repeated. *)
(* The frames are those of the host in their order (OtaUpdate).            *)
(***************************************************************************)
EXTENDS Integers

CONSTANTS
    Span,        \* flash_ota_slot_span(), in cells
    Files,       \* what hosts may push: images and patches
    Base,        \* the image in the active slot
    Floor,       \* boot_config_antidowngrade_floor() of the stored record
    Erased, Spoilt,
    NoFile,
    MaxPushes,   \* bound on the STARTs
    Faults, MaxFaults

\* A pushed file of len cells.  It announces that it makes an image of
\* newTotal cells; the patch itself makes one of newSize cells out of base,
\* and takes "needs" cells of patch to do so.  Its copies lie in the base or
\* not; it is packed in a way that the patcher unpacks or not (an unknown
\* compression, a dictionary of the wrong size, a stream that tuz refuses).
\* The image verifies or not, and has a version.  For a file that is an image,
\* newTotal = newSize = needs = len.
File == [kind : {"FULL", "DELTA"}, len : Nat, base : {Base, "other"},
         newTotal : Nat, newSize : Nat, needs : Nat, inBase : BOOLEAN,
         packing : {"none", "tuz", "unusable"}, verifies : BOOLEAN, version : Nat]

ASSUME SpanAssumption  == Span \in Nat \ {0} /\ Floor \in Nat
ASSUME FilesAssumption == Files \subseteq File /\ NoFile \notin Files
ASSUME DeltaFaultsAssumption ==
    Faults \subseteq {"flash", "read", "reset"} /\ MaxFaults \in Nat /\ MaxPushes \in Nat

VARIABLES
    host,       \* the file whose START the host has seen acknowledged last
    slot,       \* flash: the inactive slot
    g_state,    \* the transfer
    step,       \* "frames", or what END is doing: "open", "unpack", "patch", "verify"
    stream,     \* the patch: cells read, as they were sent or not, cells made of it
    L,          \* image cells written (new_written)
    installed,  \* the file whose image END has accepted
    pushes, faults

vars == <<host, slot, g_state, step, stream, L, installed, pushes, faults>>

Places == 1 .. Span

\* A cell of what was sent, or of the image that a patch makes.
Content == [file : Files, part : {"sent", "made"}, i : Places, whole : BOOLEAN]
Cell    == Content \cup {Erased, Spoilt}
Sent(f, i, whole) == [file |-> f, part |-> "sent", i |-> i, whole |-> whole]
Made(f, i, whole) == [file |-> f, part |-> "made", i |-> i, whole |-> whole]

ASSUME CellsAssumption == Erased \notin Content /\ Spoilt \notin Content /\ Erased # Spoilt

\* slot_addr, patch_tail_base and expected_new_total follow from the file.
ota_state_t == [active : BOOLEAN, file : Files \cup {NoFile}, written : 0 .. Span]
Cleared     == [active |-> FALSE, file |-> NoFile, written |-> 0]
NoStream    == [pos |-> 0, made |-> 0, sound |-> TRUE]

TypeOK ==
    /\ host \in Files \cup {NoFile}
    /\ slot \in [Places -> Cell]
    /\ g_state \in ota_state_t
    /\ g_state.active => g_state.file # NoFile /\ g_state.written <= g_state.file.len
    /\ step \in {"frames", "open", "unpack", "patch", "verify"}
    /\ stream \in [pos : 0 .. Span, made : 0 .. Span, sound : BOOLEAN]
    /\ L \in 0 .. Span
    /\ installed \in Files \cup {NoFile}
    /\ pushes \in 0 .. MaxPushes
    /\ faults \in 0 .. MaxFaults

Init ==
    /\ host = NoFile
    /\ slot = [p \in Places |-> Erased]
    /\ g_state = Cleared
    /\ step = "frames" /\ stream = NoStream /\ L = 0
    /\ installed = NoFile
    /\ pushes = 0 /\ faults = 0

Fault(kind) == kind \in Faults /\ faults < MaxFaults /\ faults' = faults + 1

\* Programming cell p: flash only takes the same again until it is erased.
Program(p, new) ==
    slot' = [slot EXCEPT ![p] =
                IF slot[p] \in {Erased, new, [new EXCEPT !.whole = FALSE]} THEN new ELSE Spoilt]
ProgramFails(p, new) ==
    \/ UNCHANGED slot
    \/ slot[p] = Erased /\ slot' = [slot EXCEPT ![p] = [new EXCEPT !.whole = FALSE]]

WipedTo(upto) == [p \in Places |-> IF p <= upto THEN Erased ELSE slot[p]]

-----------------------------------------------------------------------------
(* START and START_DELTA.                                                  *)

patch_tail_base(f) == Span - f.len

\* The announced size of an image: a header at least, and what a slot holds.
InRange(total) == total \in 1 .. Span

\* delta_verify_active_base_sha256(), and the sizes.
AcceptsAnyOverlap(f) ==                                                   \* mutated form
    f.base = Base /\ InRange(f.len) /\ InRange(f.newTotal)
AcceptsDelta(f) ==
    f.base = Base /\ InRange(f.len) /\ InRange(f.newTotal) /\ f.newTotal + f.len <= Span

Started(f) == g_state' = [active |-> TRUE, file |-> f, written |-> 0]

EraseImageOnly(f, upto) == upto >= f.newTotal                             \* mutated form
ErasesFor(f, upto) == IF f.kind = "FULL" THEN upto >= f.len ELSE upto = Span

\* A refused file changes nothing; a failed erase leaves g_state as it was.
HandleStart(f) ==
    /\ step = "frames" /\ installed = NoFile
    /\ pushes < MaxPushes /\ pushes' = pushes + 1
    /\ IF f.kind = "DELTA" THEN AcceptsDelta(f) ELSE InRange(f.len)
    /\ \E upto \in 0 .. Span :
          /\ slot' = WipedTo(upto)
          /\ \/ ErasesFor(f, upto) /\ Started(f) /\ host' = f /\ UNCHANGED faults
             \/ Fault("flash") /\ UNCHANGED g_state /\ host' = NoFile
    /\ UNCHANGED <<step, stream, L, installed>>

-----------------------------------------------------------------------------
(* DATA.                                                                   *)

FitsWithOneMore(i, f) == i <= f.len + 1                                   \* mutated form
Fits(i, f)            == i <= f.len

HandleData ==
    /\ step = "frames" /\ host # NoFile /\ g_state.active
    /\ LET f    == g_state.file
           i    == g_state.written + 1
           dest == IF f.kind = "DELTA" THEN patch_tail_base(f) + i ELSE i
       IN  /\ Fits(i, f)
           /\ \/ /\ Program(dest, Sent(f, i, TRUE))
                 /\ g_state' = [g_state EXCEPT !.written = i]
                 /\ UNCHANGED faults
              \/ /\ ProgramFails(dest, Sent(f, i, TRUE))
                 /\ Fault("flash")
                 /\ UNCHANGED g_state
    /\ UNCHANGED <<host, step, stream, L, installed, pushes>>

-----------------------------------------------------------------------------
(* END.                                                                    *)

Complete(f) == g_state.active /\ g_state.file = f /\ g_state.written = f.len

\* A file that is complete is patched from its beginning, whatever an earlier
\* END has left.
HandleEndResuming ==                                                      \* mutated form
    /\ step = "frames" /\ host # NoFile
    /\ \E f \in Files :
          /\ Complete(f)
          /\ step' = IF f.kind = "DELTA" THEN "open" ELSE "verify"
    /\ stream' = NoStream
    /\ UNCHANGED <<host, slot, g_state, L, installed, pushes, faults>>
HandleEnd ==
    /\ step = "frames" /\ host # NoFile
    /\ \E f \in Files :
          /\ Complete(f)
          /\ step' = IF f.kind = "DELTA" THEN "open" ELSE "verify"
    /\ stream' = NoStream /\ L' = 0
    /\ UNCHANGED <<host, slot, g_state, installed, pushes, faults>>

\* handle_end() returns false: NAK, and the transfer stays active.
EndFails == step' = "frames" /\ UNCHANGED <<g_state, installed>>

HoldsPatch(f, i) == slot[patch_tail_base(f) + i] = Sent(f, i, TRUE)

\* The next cells of the patch, as many as the cache takes.
ReadAhead(upto) ==
    LET f == g_state.file
    IN  /\ stream.pos < upto /\ upto <= f.len
        /\ stream' = [stream EXCEPT !.pos = upto,
                                    !.sound = /\ @
                                              /\ \A i \in stream.pos + 1 .. upto :
                                                    HoldsPatch(f, i)]

\* hpatch_lite_open(): the head of the patch, and its newSize.  The tests of
\* the sizes and of the header of the base repeat those of START_DELTA.
Open ==
    /\ step = "open"
    /\ ReadAhead(1)
    /\ IF stream'.sound /\ g_state.file.newSize = g_state.file.newTotal
       THEN step' = "unpack" /\ UNCHANGED <<g_state, installed>>
       ELSE EndFails
    /\ UNCHANGED <<host, slot, L, pushes, faults>>

\* The compression type, and the dictionary and the stream that tuz opens.
Unpack ==
    /\ step = "unpack"
    /\ \/ UNCHANGED stream
       \/ g_state.file.packing # "none" /\ \E upto \in Places : ReadAhead(upto)
    /\ IF stream'.sound /\ g_state.file.packing # "unusable"
       THEN step' = "patch" /\ UNCHANGED <<g_state, installed>>
       ELSE EndFails
    /\ UNCHANGED <<host, slot, L, pushes, faults>>

\* How much of the patch the image up to cell i is made of.
Needed(f, i) == (i * f.needs) \div f.newSize

\* diff_stream_read(): more of the patch, or none is left.  (flash_read()
\* has no other result than FLASH_OK.)
ReadDiff ==
    /\ step = "patch"
    /\ \/ (\E upto \in Places : ReadAhead(upto)) /\ UNCHANGED <<step, g_state, installed>>
       \/ /\ stream.made < g_state.file.newSize
          /\ stream.pos = g_state.file.len
          /\ Needed(g_state.file, stream.made + 1) > stream.pos
          /\ EndFails /\ UNCHANGED stream
    /\ UNCHANGED <<host, slot, L, pushes, faults>>

\* read_old_cb() of a copy that is not in the base.
ReadOldRefused ==
    /\ step = "patch"
    /\ stream.made < g_state.file.newSize /\ ~g_state.file.inBase
    /\ EndFails
    /\ UNCHANGED <<host, slot, stream, L, pushes, faults>>

\* write_new_cb() of the next cell.  What is made of a patch misread is not
\* the image; a patch with such a copy does not get to the last cell.
WriteNew ==
    /\ step = "patch"
    /\ LET f   == g_state.file
           i   == stream.made + 1
           new == Made(f, i, TRUE)
       IN  /\ i <= f.newSize /\ stream.pos >= Needed(f, i)
           /\ i = f.newSize => f.inBase
           /\ stream' = [stream EXCEPT !.made = i]
           /\ \/ /\ IF L < f.newTotal
                    THEN /\ L' = L + 1
                         /\ IF stream.sound THEN Program(L + 1, new)
                                            ELSE slot' = [slot EXCEPT ![L + 1] = Spoilt]
                         /\ UNCHANGED <<g_state, step, installed>>
                    ELSE EndFails /\ UNCHANGED <<slot, L>>
                 /\ UNCHANGED faults
              \/ /\ L < f.newTotal
                 /\ ProgramFails(L + 1, new)
                 /\ Fault("flash")
                 /\ EndFails
                 /\ UNCHANGED L
    /\ UNCHANGED <<host, pushes>>

PatchDone ==
    /\ step = "patch"
    /\ stream.made = g_state.file.newSize
    /\ IF L = g_state.file.newTotal
       THEN step' = "verify" /\ UNCHANGED <<g_state, installed>>
       ELSE EndFails
    /\ UNCHANGED <<host, slot, stream, L, pushes, faults>>

\* crypto_verify_firmware(): the slot begins with the whole image, and its
\* header, hash and signature are good.
HoldsImage(f) ==
    /\ f.verifies
    /\ IF f.kind = "DELTA" THEN \A i \in 1 .. f.newSize : slot[i] = Made(f, i, TRUE)
                           ELSE \A i \in 1 .. f.len : slot[i] = Sent(f, i, TRUE)

boot_config_firmware_allowed(f) == f.version >= Floor

\* An END that is accepted requests the swap; the device resets.
Verify ==
    /\ step = "verify"
    /\ \/ /\ IF HoldsImage(g_state.file) /\ boot_config_firmware_allowed(g_state.file)
             THEN installed' = g_state.file /\ step' = "frames" /\ g_state' = Cleared
             ELSE EndFails
          /\ UNCHANGED faults
       \/ Fault("read") /\ EndFails
    /\ UNCHANGED <<host, slot, stream, L, pushes>>

\* A reset, or ABORT: g_state is gone, and the menu may start over.
Abandon ==
    /\ Fault("reset")
    /\ installed = NoFile
    /\ g_state' = Cleared /\ step' = "frames"
    /\ host' = NoFile
    /\ UNCHANGED <<slot, stream, L, installed, pushes>>

End  == HandleEnd \/ Open \/ Unpack \/ ReadDiff \/ ReadOldRefused \/ WriteNew
        \/ PatchDone \/ Verify
Next == (\E f \in Files : HandleStart(f)) \/ HandleData \/ End \/ Abandon

Spec == Init /\ [][Next]_vars

\* The host sends the frames that are left, and repeats an END that is refused:
\* five times in the code, more often than MaxFaults in a run.
FairSpec == Spec /\ WF_vars(HandleData \/ End)

-----------------------------------------------------------------------------
(* Properties.                                                             *)

\* What has been received of a patch stays in the tail of the slot until END
\* has succeeded, however often END has failed half way through writing the
\* image (the bound on newTotal + len in handle_start_delta()).
PatchIntact ==
    \A f \in Files :
        host = f /\ f.kind = "DELTA" /\ g_state.active =>
            \A i \in 1 .. g_state.written : HoldsPatch(f, i)

\* Nothing is programmed over anything but itself: not by a second END over
\* the image cells of the first, not by a file after another that was given up,
\* not by an image after a patch at the tail.
NothingSpoilt == \A p \in Places : slot[p] # Spoilt

\* A file that is complete, and sound, is installed in the end unless it is
\* given up: an END that fails leaves everything for the next.  Sound is what
\* delta_apply_patch(), crypto_verify_firmware() and the anti-downgrade floor
\* ask of a file before they look at what flash did with it.
Sound(f) ==
    /\ f.verifies /\ boot_config_firmware_allowed(f)
    /\ f.kind = "DELTA" =>
          /\ f.newSize = f.newTotal /\ f.needs <= f.len
          /\ f.inBase /\ f.packing # "unusable"
EndSucceeds ==
    \A f \in Files : Sound(f) =>
        (host = f /\ Complete(f)) ~> (installed = f \/ host # f)
=============================================================================
