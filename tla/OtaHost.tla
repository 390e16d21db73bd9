-------------------------------- MODULE OtaHost --------------------------------
(***************************************************************************)
(* The host tool, tools/ota_server.py: one frame at a time, sent again on  *)
(* a NAK, on a response that is not for it, or when no response comes.     *)
(***************************************************************************)
EXTENDS OtaWire

CONSTANTS
    RETRIES_PER_FRAME,   \* 5
    ResponseTicks,       \* RESPONSE_TIMEOUT_S in OTA_BYTE_TIMEOUT_MS: 4
    MaxSessions          \* bound on the runs of the tool

ASSUME HostAssumption == /\ RETRIES_PER_FRAME \in Nat \ {0}
                         /\ ResponseTicks \in Nat
                         /\ MaxSessions \in Nat

VARIABLES
    host,       \* "idle", "waiting" (for a response), "done" or "failed"
    image,      \* the image that this run pushes
    frame,      \* 1 for START, then the DATA frames, then END
    attempt,    \* of send_with_retry()
    waited,     \* how long it has waited for a response, in receiver timeouts
    sessions    \* runs of the tool so far

hostvars == <<host, image, frame, attempt, waited, sessions>>

HostTypeOK ==
    /\ host \in {"idle", "waiting", "done", "failed"}
    /\ image \in Images
    /\ frame \in 1 .. NumChunks[image] + 2
    /\ attempt \in 1 .. RETRIES_PER_FRAME
    /\ waited \in 0 .. ResponseTicks
    /\ sessions \in 0 .. MaxSessions

HostInit ==
    /\ host = "idle"
    /\ image \in Images
    /\ frame = 1
    /\ attempt = 1
    /\ waited = 0
    /\ sessions = 0

\* As RunTool leaves it.
HostStarted ==
    /\ host = "waiting"
    /\ image \in Images
    /\ frame = 1
    /\ attempt = 1
    /\ waited = 0
    /\ sessions = 1

\* START has sequence number 1.
SeqOf(f) == f % SeqMod

LastFrame(img) == NumChunks[img] + 2

\* The f-th frame of push().
PushFrame(img, f) ==
    IF f = 1 THEN build_frame("START", SeqOf(f), NumChunks[img], NoChunk)
    ELSE IF f = LastFrame(img) THEN build_frame("END", SeqOf(f), 0, NoChunk)
    ELSE build_frame("DATA", SeqOf(f), 0, [img |-> img, i |-> f - 1])

-----------------------------------------------------------------------------
\* The tool is run, on a new connection: nothing is left on the line.
RunTool ==
    /\ host # "waiting"
    /\ sessions < MaxSessions
    /\ sessions' = sessions + 1
    /\ image' \in Images
    /\ host' = "waiting"
    /\ frame' = 1 /\ attempt' = 1 /\ waited' = 0
    /\ h2d' = <<PushFrame(image', 1)>>
    /\ d2h' = <<>>
    /\ UNCHANGED faults

RetryForEver ==                                                           \* mutated form
    /\ waited' = 0
    /\ h2d' = Append(h2d, PushFrame(image, frame))
    /\ UNCHANGED <<host, attempt, image, frame, sessions>>
\* The next attempt, or the end of the tool.
Retry ==
    /\ waited' = 0
    /\ IF attempt < RETRIES_PER_FRAME
       THEN /\ attempt' = attempt + 1
            /\ h2d' = Append(h2d, PushFrame(image, frame))
            /\ UNCHANGED host
       ELSE host' = "failed" /\ UNCHANGED <<attempt, h2d>>
    /\ UNCHANGED <<image, frame, sessions>>

AnyAck(r) == r.code = "ACK"                                               \* mutated form
Acknowledges(r) == r.seq = SeqOf(frame) /\ r.code = "ACK"

Acknowledged ==
    /\ host = "waiting"
    /\ d2h # <<>> /\ Acknowledges(Head(d2h))
    /\ d2h' = Tail(d2h)
    /\ waited' = 0
    /\ IF frame = LastFrame(image)
       THEN host' = "done" /\ UNCHANGED <<frame, attempt, h2d>>
       ELSE /\ frame' = frame + 1
            /\ attempt' = 1
            /\ h2d' = Append(h2d, PushFrame(image, frame + 1))
            /\ UNCHANGED host
    /\ UNCHANGED <<image, sessions, faults>>

\* A NAK, or a response with another sequence number.
NotAcknowledged ==
    /\ host = "waiting"
    /\ d2h # <<>> /\ ~Acknowledges(Head(d2h))
    /\ d2h' = Tail(d2h)
    /\ Retry
    /\ UNCHANGED faults

\* No response for RESPONSE_TIMEOUT_S.
NoResponse ==
    /\ host = "waiting"
    /\ d2h = <<>>
    /\ Retry
    /\ UNCHANGED d2h

\* Another tool on the same line: ABORT, an opcode that does not exist, or a
\* START without a size a slot can take.
OperatorSends ==
    /\ host # "waiting"
    /\ sessions < MaxSessions
    /\ sessions' = sessions + 1
    /\ \E op \in {"START", "ABORT", "OTHER"} : h2d' = <<build_frame(op, SeqOf(1), 0, NoChunk)>>
    /\ d2h' = <<>>
    /\ UNCHANGED <<faults, host, image, frame, attempt, waited>>
=============================================================================
