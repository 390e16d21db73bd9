------------------------------- MODULE OtaUpdate -------------------------------
(***************************************************************************)
(* A full-image update over the serial line: the host tool (OtaHost), the  *)
(* receiver (OtaReceiver) and the line between them (OtaWire).             *)
(***************************************************************************)
EXTENDS OtaReceiver, OtaHost

vars == <<wire, faults, receiver, hostvars>>

TypeOK == WireTypeOK /\ ReceiverTypeOK /\ HostTypeOK

Init == WireInit /\ ReceiverInit /\ HostInit

\* U has been sent and the tool has just been started.
OpenInit ==
    /\ ReceiverInit /\ mode = "receive"
    /\ HostStarted
    /\ h2d = <<PushFrame(image, 1)>> /\ d2h = <<>> /\ faults = 0

-----------------------------------------------------------------------------
\* The receiver's timeout is the only clock: the host has waited as long.
Tick ==
    /\ ReadTimeout
    /\ IF host = "waiting"
       THEN /\ d2h = <<>> /\ waited < ResponseTicks
            /\ waited' = waited + 1
            /\ UNCHANGED <<host, image, frame, attempt, sessions>>
       ELSE UNCHANGED hostvars

Receiver ==
    \/ Tick
    \/ /\ ReadFrame \/ ReadBadFrame \/ Handle
       /\ UNCHANGED hostvars

\* Nobody is reading the line, or what was on it is gone.
LineUnread == (mode # "receive" /\ h2d = <<>>) \/ waited = ResponseTicks

Host ==
    /\ \/ Acknowledged \/ NotAcknowledged
       \/ NoResponse /\ LineUnread /\ UNCHANGED faults
    /\ UNCHANGED receiver

\* The response takes longer than the host waits: the device is still busy
\* erasing, programming or verifying.
LateResponse ==
    /\ NoResponse
    /\ rx # NoFrame
    /\ Fault("late")
    /\ UNCHANGED receiver

Unread ==
    /\ MenuEatsFrame \/ BootedDropsFrame
    /\ UNCHANGED hostvars

Operator ==
    \/ (RunTool \/ OperatorSends) /\ UNCHANGED receiver
    \/ MenuUpload /\ UNCHANGED hostvars

Noise ==
    /\ LoseFrame \/ LoseResponse
    /\ UNCHANGED <<receiver, hostvars>>

Next ==
    \/ Receiver
    \/ Host
    \/ LateResponse
    \/ Unread
    \/ Operator
    \/ Noise
    \/ DeviceReset /\ UNCHANGED hostvars

Spec == Init /\ [][Next]_vars

\* Fairness: the processor and the tool run by themselves; frames are read if somebody
\* reads at all.  Nobody has to press U, and no fault has to happen.
OpenSpec == OpenInit /\ [][Next]_vars
FairOpenSpec ==
    /\ OpenSpec
    /\ WF_vars(Receiver) /\ WF_vars(Host) /\ WF_vars(Unread)

-----------------------------------------------------------------------------
(* What the protocol promises.                                             *)

\* While the tool pushes, the receiver is at the frame it sends or just past
\* it: what is in the slot is the image so far, in order, none twice and none
\* left out, whatever is lost, late, damaged, refused or sent by an earlier
\* run (expected_seq and written in handle_data(), the retries of
\* send_with_retry()).
Pushing == host = "waiting" /\ frame >= 2 /\ mode = "receive" /\ g_state.active
InStep ==
    Pushing =>
        /\ g_state.written \in {frame - 2, frame - 1}
        /\ g_state.expected_seq = SeqOf(g_state.written + 2)
        /\ \A i \in 1 .. g_state.written :
               slot[i] = Programmed([img |-> image, i |-> i], TRUE)

\* A chunk that handle_data() programs meets erased cells or its own first
\* half: what a transfer given up earlier, a failed write or a repeated START
\* has left is never programmed over (flash cells only go from 1 to 0).
ChunkFitsItsCell ==
    rx # NoFrame /\ rx.op = "DATA" /\ AcceptsData => Programmable(g_state.written + 1)

\* push() reports success only for an image that END has accepted.
DoneMeansInstalled == host = "done" => installed = image

\* send_with_retry() sends a frame again on a NAK or a timeout, and handle_data()
\* takes a chunk again that it has programmed half: with no response lost and no
\* reset, push() fails only after as many adverse events as a frame has attempts,
\* or after so many that the timeouts of the receiver, ResponseTicks for each of
\* them, can make up the errors that end its loop (ota_client.c:312).  The
\* documents know the first limit only (update_protocol.md:115 and :118, which
\* has the receiver outlast the retries): with the program's numbers the second
\* one comes first, at four events instead of five.
RetransmitRecovers ==
    host = "failed" => \/ faults >= RETRIES_PER_FRAME
                       \/ ResponseTicks * faults >= MAX_CONSEC_ERRS

\* push() ends, whatever happens to the device.
HostEnds == (host = "waiting") ~> (host # "waiting")

\* ota_client_receive() returns, whatever happens to the host.
ReceiverReturns == (mode = "receive") ~> (mode # "receive")
=============================================================================
