-------------------------- MODULE MCDeviceDownlink --------------------------
(***************************************************************************)
(* A line of at most seven or eight bytes into a buffer of four: enough to *)
(* fill the buffer, to move its contents and to drain it at its last cell. *)
(***************************************************************************)
EXTENDS DeviceDownlink

MCFrames ==
  { [kind |-> "PACKET_TO_SEND", size |-> 2, claim |-> 2],    \* empty payload
    [kind |-> "PACKET_TO_SEND", size |-> 3, claim |-> 3],
    [kind |-> "PACKET_TO_SEND", size |-> 2, claim |-> 3],    \* cut short
    [kind |-> "PACKET_TO_SEND", size |-> 1, claim |-> Unclear],  \* in its header
    [kind |-> "UNKNOWN",        size |-> 1, claim |-> 0] }

MCSoundFrames == { f \in MCFrames : f.claim = f.size }
=============================================================================
