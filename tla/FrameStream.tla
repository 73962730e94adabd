----------------------------- MODULE FrameStream -----------------------------
(***************************************************************************)
(* One direction of the serial line between the daemon and the device, and *)
(* the receiving_buffer its reader collects it in.  Byte p of the line is  *)
(* the p-th byte written on it; what the bytes say is in the frames:       *)
(*                                                                         *)
(*   kind    what the writer put there                                     *)
(*   size    the bytes of it that reached the line                         *)
(*   claim   the bytes its header declares, 0 when its first byte is the   *)
(*           id of no message the reader knows, Unclear when the header    *)
(*           is not one that its writer made                               *)
(*                                                                         *)
(* The frames of messages/*.hpp are sound, claim = size.  A write that     *)
(* was cut short leaves claim > size, or Unclear if it was cut inside the  *)
(* header: the length is then read from the bytes that follow, and may be  *)
(* anything, as may that of a packet that was freed before it was written. *)
(* Console text has claim = 0.                                             *)
(***************************************************************************)
EXTENDS ReceivingBuffer

CONSTANTS Frames,           \* what a writer can put on the line
          MaxBytes          \* bound: bytes written on the line

Unclear == -1

ASSUME FramesAssumption ==
  \A f \in Frames : f.size \in Nat \ {0} /\ f.claim \in Nat \cup {Unclear}

ASSUME MaxBytesAssumption == MaxBytes \in Nat

\* What a writer declares fits: 11 + 498 bytes from the daemon's 512-byte tun
\* buffer into the device's 512, 261 from the device into the daemon's 4096.
\* What is read in place of a header need not.
ASSUME ClaimsFit == \A f \in Frames : f.claim <= Capacity

VARIABLES frame_at,         \* the frame that begins at each start position
          written,          \* bytes written on the line
          started_at,       \* where on the line the reader began
          pulled,           \* bytes read from it
          buffer            \* the reader's receiving_buffer

line == <<frame_at, written, started_at>>

Sound(f) == f.claim = f.size

\* The first n unread bytes of the buffer.
Unread(n) == [i \in 1 .. n |-> DataByte(buffer, i - 1)]

\* The first byte not yet consumed, whether a frame begins there, and whether
\* one does whose length is what its writer declared.
Front == pulled - DataSize(buffer)
Boundary(p) == p \in DOMAIN frame_at \cup {written}
Legible(p) == p \in DOMAIN frame_at /\ frame_at[p].claim # Unclear

(***************************************************************************)
(* The reader may start inside a frame: the read that took START_HOST from *)
(* the line, or the start of a daemon on a device that runs already, has   *)
(* swallowed the first bytes.                                              *)
(***************************************************************************)
LineInit ==
  \E f \in Frames :
    /\ f.size <= MaxBytes
    /\ frame_at = [p \in {0} |-> f]
    /\ written = f.size
    /\ started_at \in 0 .. f.size
    /\ pulled = started_at
    /\ buffer = EmptyBuffer

Write(f) ==
  /\ written + f.size <= MaxBytes
  /\ frame_at' = [p \in DOMAIN frame_at \cup {written} |->
                    IF p = written THEN f ELSE frame_at[p]]
  /\ written' = written + f.size
  /\ UNCHANGED <<started_at, pulled, buffer>>

(***************************************************************************)
(* A read into get_writable() and the commit of what it brought.  It       *)
(* brings at least one byte when there is one and room for it.             *)
(***************************************************************************)
Read ==
  \E n \in 0 .. WritableSize(buffer) :
    /\ pulled + n <= written
    /\ n = 0 => pulled = written \/ WritableSize(buffer) = 0
    /\ buffer' = Commit(Store(buffer, pulled, n), n)
    /\ pulled' = pulled + n
    /\ UNCHANGED line

-----------------------------------------------------------------------------
LineTypeOK ==
  /\ written \in 0 .. MaxBytes
  /\ DOMAIN frame_at \subseteq 0 .. written - 1
  /\ \A p \in DOMAIN frame_at : frame_at[p] \in Frames
  /\ started_at \in 0 .. written
  /\ pulled \in started_at .. written
  /\ buffer \in Buffers
  /\ buffer.read_index <= buffer.write_index

(***************************************************************************)
(* The unread part of the buffer is the unread part of the line, in order  *)
(* and without a gap: no memmove, commit or reset of receiving_buffer.hpp  *)
(* loses, doubles or shifts a byte of it.                                  *)
(***************************************************************************)
BufferHoldsStream ==
  /\ Front >= started_at
  /\ \A i \in buffer.read_index .. buffer.write_index - 1 :
       buffer.mem[i] = Front + (i - buffer.read_index)
=============================================================================
