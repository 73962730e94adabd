---------------------------- MODULE MCHostUplink ----------------------------
(***************************************************************************)
(* A line of six bytes into a buffer of four, with a message of every kind *)
(* and logs cut in their text and in their header; a stray header can      *)
(* declare more than the tun buffer holds.                                 *)
(***************************************************************************)
EXTENDS HostUplink, MCMessageFormats

MCFrames ==
  { [kind |-> "START_DEVICE",    size |-> 2, claim |-> 2],
    [kind |-> "RECEIVED_PACKET", size |-> 3, claim |-> 3],
    [kind |-> "PING",            size |-> 2, claim |-> 2],
    [kind |-> "LOG_INFO_UART",   size |-> 2, claim |-> 3],        \* cut short
    [kind |-> "LOG_INFO_UART",   size |-> 1, claim |-> Unclear],  \* no size
    [kind |-> "TEXT",            size |-> 1, claim |-> 0] }
=============================================================================
