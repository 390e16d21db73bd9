-------------------------------- MODULE OtaWire --------------------------------
(***************************************************************************)
(* The serial line between the host tool (tools/ota_server.py) and the OTA *)
(* receiver (bootloader/src/ota_client.c): the frames and responses of     *)
(* docs/update_protocol.md, and what may happen to them on the way.        *)
(*                                                                         *)
(* An image is a number of chunks.  A frame is whole or is no frame: where *)
(* the bytes of a damaged one go is decided by read_frame() in OtaReceiver.*)
(***************************************************************************)
EXTENDS Integers, Sequences

CONSTANTS
    Images,      \* the signed images that a host may push
    NumChunks,   \* NumChunks[img]: DATA frames it takes
    SeqMod,      \* sequence numbers are counted modulo this (2^16 in the code)
    NoChunk,     \* the payload of a frame that carries no chunk
    Faults,      \* kinds of adverse events that may happen
    MaxFaults    \* bound on the number of adverse events

FaultKinds == {"frame_lost", "frame_bad", "resp_lost", "late", "flash", "read", "reset"}

ASSUME NumChunksAssumption == NumChunks \in [Images -> Nat \ {0}]
ASSUME SeqModAssumption    == SeqMod \in Nat \ {0}
ASSUME WireFaultsAssumption == Faults \subseteq FaultKinds /\ MaxFaults \in Nat

Chunk == [img : Images, i : Nat \ {0}]
ASSUME NoChunkAssumption == NoChunk \notin Chunk

VARIABLES
    h2d,      \* frames on their way to the device
    d2h,      \* responses on their way to the host
    faults    \* adverse events so far

wire == <<h2d, d2h>>

Ops   == {"START", "DATA", "END", "ABORT", "OTHER"}
Frame == [op : Ops, seq : 0 .. SeqMod - 1, total : Nat, chunk : Chunk \cup {NoChunk}]

Response == [code : {"ACK", "NAK"}, seq : 0 .. SeqMod - 1]
ACK(seq) == [code |-> "ACK", seq |-> seq]
NAK(seq) == [code |-> "NAK", seq |-> seq]

\* build_frame().  START carries the size of the image, DATA a chunk.
build_frame(op, seq, total, chunk) ==
    [op |-> op, seq |-> seq, total |-> total, chunk |-> chunk]

WireTypeOK ==
    /\ h2d \in Seq(Frame)
    /\ d2h \in Seq(Response)
    /\ faults \in 0 .. MaxFaults

WireInit == h2d = <<>> /\ d2h = <<>> /\ faults = 0

Fault(kind) == /\ kind \in Faults
               /\ faults < MaxFaults
               /\ faults' = faults + 1

\* Noise, or an overrun of the device's one-byte receive register.
LoseFrame ==
    /\ h2d # <<>>
    /\ Fault("frame_lost")
    /\ h2d' = Tail(h2d)
    /\ UNCHANGED d2h

LoseResponse ==
    /\ d2h # <<>>
    /\ Fault("resp_lost")
    /\ d2h' = Tail(d2h)
    /\ UNCHANGED h2d
=============================================================================
