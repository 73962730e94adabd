--------------------------- MODULE DeviceDownlink ---------------------------
(***************************************************************************)
(* The host-to-air half of the firmware: jtag_receive_task collects the    *)
(* frames of the daemon from the USB line in a receiving_buffer<512> and   *)
(* handle_packet_from_jtag gives each to esp_now_send                      *)
(* (main/usb_cdc_main.cpp 176-231).                                        *)
(***************************************************************************)
EXTENDS FrameStream

CONSTANT HeaderSize         \* id, destination_mac and payload_size: 11

ASSUME HeaderAssumption ==
  /\ HeaderSize \in Nat \ {0}
  /\ \A f \in Frames : f.claim \in {0, Unclear} \/ f.claim >= HeaderSize

VARIABLES pc,               \* "read", in the inner loop ("handle"), "aborted"
          radio             \* the messages given to esp_now_send

vars == <<frame_at, written, started_at, pulled, buffer, pc, radio>>

Init ==
  /\ LineInit
  /\ pc = "read"
  /\ radio = <<>>

(***************************************************************************)
(* The host writes a whole frame; the read takes it in pieces.             *)
(***************************************************************************)
HostWrite(f) == Write(f) /\ UNCHANGED <<pc, radio>>

\* usb_serial_jtag_read_bytes and commit.
ReadJtag ==
  /\ pc = "read"
  /\ Read
  /\ pc' = "handle"
  /\ UNCHANGED radio

(***************************************************************************)
(* The values handle_packet_from_jtag can return for the unread data.  A   *)
(* length that no writer declared may be anything, and where the start of  *)
(* a frame is lost so may the id.                                          *)
(***************************************************************************)
AnyLength == {-1} \cup (HeaderSize .. DataSize(buffer))

\* Returning packet.data.size(), the 11 bytes of the header forgotten.
HandleForgetsHeader ==
  IF Legible(Front)
  THEN LET f == frame_at[Front]
       IN  IF f.claim = 0 THEN {0}
           ELSE IF DataSize(buffer) < f.claim THEN {-1}
           ELSE {f.claim - HeaderSize}
  ELSE {}

\* payload_size + 11 >= buffer.size().
HandleOffByOne ==
  IF Legible(Front)
  THEN LET f == frame_at[Front]
       IN  IF f.claim = 0 THEN {0}
           ELSE IF DataSize(buffer) <= f.claim THEN {-1}
           ELSE {f.claim}
  ELSE AnyLength \cup IF Front \in DOMAIN frame_at THEN {} ELSE {0}

HandlePacketFromJtag ==
  IF Legible(Front)
  THEN LET f == frame_at[Front]
       IN  IF f.claim = 0 THEN {0}
           ELSE IF DataSize(buffer) < f.claim THEN {-1}
           ELSE {f.claim}
  ELSE AnyLength \cup IF Front \in DOMAIN frame_at THEN {} ELSE {0}

\* The inner loop, when the last frame was consumed: nothing moves to the
\* front and nothing is reset.
Drained ==
  /\ pc = "handle"
  /\ DataSize(buffer) = 0
  /\ pc' = "read"
  /\ UNCHANGED <<line, pulled, buffer, radio>>

\* Resetting the buffer for every message that is not complete.
WaitResets ==
  /\ pc = "handle"
  /\ DataSize(buffer) > 0
  /\ -1 \in HandlePacketFromJtag
  /\ buffer' = Reset(buffer)
  /\ pc' = "read"
  /\ UNCHANGED <<line, pulled, radio>>

WaitForRest ==
  /\ pc = "handle"
  /\ DataSize(buffer) > 0
  /\ -1 \in HandlePacketFromJtag
  /\ buffer' = MoveDataToFront(buffer)
  /\ pc' = "read"
  /\ UNCHANGED <<line, pulled, radio>>

Discard ==
  /\ pc = "handle"
  /\ DataSize(buffer) > 0
  /\ 0 \in HandlePacketFromJtag
  /\ buffer' = Reset(buffer)
  /\ pc' = "read"
  /\ UNCHANGED <<line, pulled, radio>>

Relay ==
  /\ pc = "handle"
  /\ DataSize(buffer) > 0
  /\ \E r \in HandlePacketFromJtag :
       /\ r > 0
       /\ radio' = Append(radio, Unread(r))
       /\ buffer' = Consume(buffer, r)
  /\ UNCHANGED <<line, pulled, pc>>

(***************************************************************************)
(* payload_size + 11 is a sum of 32 bits: a length of 2^32 - 11 or more,   *)
(* read from bytes that are no length (four of a broadcast's destination   *)
(* are enough), wraps, passes the check and asks assign for 4 GB, which    *)
(* ends the firmware.                                                      *)
(***************************************************************************)
LengthWraps ==
  /\ pc = "handle"
  /\ DataSize(buffer) >= HeaderSize
  /\ ~Legible(Front)
  /\ pc' = "aborted"
  /\ UNCHANGED <<line, pulled, buffer, radio>>

Handle == Drained \/ WaitForRest \/ Discard \/ Relay \/ LengthWraps

Next == (\E f \in Frames : HostWrite(f)) \/ ReadJtag \/ Handle

(***************************************************************************)
(* The task runs at priority 5 and its read returns after at most 100 ms.  *)
(***************************************************************************)
Spec == Init /\ [][Next]_vars /\ WF_vars(ReadJtag) /\ WF_vars(Handle)

-----------------------------------------------------------------------------
\* The types, and that the indices of the buffer stay within it.
TypeOK ==
  /\ LineTypeOK
  /\ pc \in {"read", "handle", "aborted"}
  /\ radio \in Seq(Seq(Int))

(***************************************************************************)
(* The task implements FrameRelay, whatever the pieces the line hands it:  *)
(* esp_now_send gets each frame's bytes once, in order.                    *)
(***************************************************************************)
Relaying == INSTANCE FrameRelay WITH delivered <- Front, out <- radio

RelaySpec == Relaying!Spec

\* While it meets sound frames only, every frame consumed was given to
\* esp_now_send.
NothingLost == Relaying!NothingLost

(***************************************************************************)
(* A read with no room brings nothing, and no read after it will.  The     *)
(* task comes to one in two ways only: all of the buffer is consumed, up   *)
(* to its last cell, or it waits for a length that no writer declared,     *)
(* and then it began inside a frame or has met one that is not sound.      *)
(* At a frame whose header is whole it has room for the rest.              *)
(***************************************************************************)
StallNeedsCause ==
  pc = "read" /\ WritableSize(buffer) = 0 =>
    \/ DataSize(buffer) = 0
    \/ /\ ~Legible(Front)
       /\ \/ ~Boundary(started_at)
          \/ \E p \in DOMAIN frame_at :
               p \in started_at .. Front /\ ~Sound(frame_at[p])

\* The buffer is full to its last cell, and every byte of it is consumed.
Stalled == WritableSize(buffer) = 0 /\ DataSize(buffer) = 0

InStep == pc # "aborted" /\ Boundary(Front)

(***************************************************************************)
(* A frame on the line is relayed in the end, if the reader is in step and *)
(* the frames up to it are sound, unless a buffer drained at its last cell *)
(* stops the reading for good.                                             *)
(***************************************************************************)
RelayedUnlessStalled ==
  \A p \in 0 .. MaxBytes :
    (/\ InStep
     /\ p \in DOMAIN frame_at /\ p >= Front
     /\ \A q \in DOMAIN frame_at : q <= p => Sound(frame_at[q]))
       ~> (Front > p \/ Stalled)

(***************************************************************************)
(* readme.md:9, the firmware acts as a bridge, "translating incoming       *)
(* serial commands from the Linux host into ESP-NOW packets over the air". *)
(***************************************************************************)
EveryFrameRelayed ==
  \A p \in 0 .. MaxBytes :
    (/\ InStep
     /\ p \in DOMAIN frame_at /\ p >= Front)
       ~> Front > p
=============================================================================
