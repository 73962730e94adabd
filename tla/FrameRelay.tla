----------------------------- MODULE FrameRelay -----------------------------
(***************************************************************************)
(* What a reader of the serial line promises, with no buffer in sight.  It *)
(* has consumed the line up to delivered.  Where a sound frame begins it   *)
(* hands on exactly the bytes of that frame and goes to its end; only      *)
(* inside a frame it has lost the start of, or at a frame that is not      *)
(* sound, may it skip bytes or hand on a wrong stretch of them.            *)
(***************************************************************************)
EXTENDS Integers, Sequences

CONSTANT Frames

VARIABLES frame_at, written, started_at, delivered, out

vars == <<frame_at, written, started_at, delivered, out>>

Sound(f) == f.claim = f.size

\* The n bytes of the line from position p on.
Bytes(p, n) == [i \in 1 .. n |-> p + i - 1]

Boundary(p) == p \in DOMAIN frame_at \cup {written}

AtSoundFrame == delivered \in DOMAIN frame_at /\ Sound(frame_at[delivered])

Init ==
  \E f \in Frames :
    /\ frame_at = [p \in {0} |-> f]
    /\ written = f.size
    /\ started_at \in 0 .. f.size
    /\ delivered = started_at
    /\ out = <<>>

Send(f) ==
  /\ frame_at' = [p \in DOMAIN frame_at \cup {written} |->
                    IF p = written THEN f ELSE frame_at[p]]
  /\ written' = written + f.size
  /\ UNCHANGED <<started_at, delivered, out>>

Deliver ==
  /\ AtSoundFrame
  /\ delivered' = delivered + frame_at[delivered].size
  /\ delivered' <= written
  /\ out' = Append(out, Bytes(delivered, frame_at[delivered].size))
  /\ UNCHANGED <<frame_at, written, started_at>>

Skip ==
  /\ ~AtSoundFrame
  /\ delivered' \in delivered + 1 .. written
  /\ out' \in {out, Append(out, Bytes(delivered, delivered' - delivered))}
  /\ UNCHANGED <<frame_at, written, started_at>>

Next == (\E f \in Frames : Send(f)) \/ Deliver \/ Skip

Spec == Init /\ [][Next]_vars

-----------------------------------------------------------------------------
\* What the theorems assume of the frames.
FramesOK == \A f \in Frames : f.size \in Nat \ {0}

(***************************************************************************)
(* No byte is handed on twice, and none out of order.                      *)
(***************************************************************************)
InOrder ==
  /\ \A k \in 1 .. Len(out) :
       \A x \in 1 .. Len(out[k]) : out[k][x] < delivered
  /\ \A j, k \in 1 .. Len(out) :
       \A x \in 1 .. Len(out[j]), y \in 1 .. Len(out[k]) :
         j < k => out[j][x] < out[k][y]

(***************************************************************************)
(* What begins where a sound frame begins is that frame, no more, no less. *)
(***************************************************************************)
Intact ==
  \A k \in 1 .. Len(out) : \A p \in DOMAIN frame_at :
    out[k][1] = p /\ Sound(frame_at[p])
      => out[k] = Bytes(p, frame_at[p].size)

(***************************************************************************)
(* A reader that began at a frame and has met sound frames only stands at  *)
(* a frame, and has handed on every frame before it.                       *)
(***************************************************************************)
NothingLost ==
  (/\ Boundary(started_at)
   /\ \A p \in DOMAIN frame_at :
        p \in started_at .. delivered - 1 => Sound(frame_at[p]))
     => /\ Boundary(delivered)
        /\ \A p \in DOMAIN frame_at :
             p \in started_at .. delivered - 1 =>
               \E k \in 1 .. Len(out) : out[k] = Bytes(p, frame_at[p].size)
=============================================================================
