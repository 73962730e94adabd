------------------------------ MODULE LossyFifo ------------------------------
(***************************************************************************)
(* What the firmware promises of a packet that came over the air: it is    *)
(* passed to the host at most once, unchanged, and after every packet that *)
(* came before it; it may be lost on the way in and on the way out.        *)
(* Packets are numbered as they come.                                      *)
(***************************************************************************)
EXTENDS Naturals, Sequences

VARIABLES arrived,          \* packets 1 .. arrived have come
          transit,          \* those accepted, not yet passed on or lost
          passed            \* those passed on

vars == <<arrived, transit, passed>>

Init == arrived = 0 /\ transit = <<>> /\ passed = <<>>

\* The air brings a packet, and it is lost at once.
Lose == arrived' = arrived + 1 /\ UNCHANGED <<transit, passed>>

Accept ==
  /\ arrived' = arrived + 1
  /\ transit' = Append(transit, arrived + 1)
  /\ UNCHANGED passed

\* Lost before it was passed on: the newest or the oldest.
Evict ==
  /\ transit # <<>>
  /\ transit' \in {Tail(transit), SubSeq(transit, 1, Len(transit) - 1)}
  /\ UNCHANGED <<arrived, passed>>

Pass ==
  /\ transit # <<>>
  /\ passed' = Append(passed, Head(transit))
  /\ transit' = Tail(transit)
  /\ UNCHANGED arrived

Next == Lose \/ Accept \/ Evict \/ Pass

Spec == Init /\ [][Next]_vars

-----------------------------------------------------------------------------
(***************************************************************************)
(* Packets are passed on in the order they came in, none twice, and none   *)
(* that is still on its way.                                               *)
(***************************************************************************)
PassedInOrder ==
  LET all == passed \o transit
  IN  \A j, k \in 1 .. Len(all) : j < k => all[j] < all[k]
=============================================================================
