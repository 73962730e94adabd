----------------------------- MODULE HostUplink -----------------------------
(***************************************************************************)
(* The air-to-host half of the daemon: serial_port_socket::read_handle     *)
(* collects what the device writes in a receiving_buffer<4096>, and        *)
(* espnow_uart_device::handle_serial_packet takes it apart: the handshake, *)
(* logs, pings, and the received packets for the tap device.               *)
(***************************************************************************)
EXTENDS FrameStream

CONSTANTS HeaderSize,       \* id, mac and payload_size of received_packet: 11
          LogHeader,        \* id and size of a log: 5
          TunBuffer         \* received_packet that fills a tun packet_buffer

\* The messages whose length is in their bytes, and the least it can be; the
\* console's LOG_INFO goes to the end of a line.
LeastLength ==
  [RECEIVED_PACKET |-> HeaderSize, LOG_INFO_UART |-> LogHeader, LOG_INFO |-> 2]

ASSUME HeaderAssumption ==
  /\ HeaderSize \in Nat \ {0}
  /\ LogHeader \in Nat \ {0}
  /\ TunBuffer \in Nat
  /\ \A f \in Frames :
       /\ f.kind \in {"START_DEVICE", "LOG_INFO", "LOG_INFO_UART", "PING",
                      "RECEIVED_PACKET", "TEXT"}
       /\ f.kind = "TEXT" <=> f.claim = 0
       /\ f.kind = "RECEIVED_PACKET"
            => f.claim \in (HeaderSize .. TunBuffer) \cup {Unclear}
       /\ f.claim = Unclear => f.kind \in DOMAIN LeastLength

VARIABLES pc,               \* "reading", "handling", "stopped", "undefined"
          requested_start,
          handled,          \* the messages handle_serial_packet has taken
          to_tun,           \* those it has queued for the tap device
          broadcast_received,
          answered          \* START_HOST writes and new_device_events

effects == <<requested_start, handled, to_tun, broadcast_received, answered>>
vars == <<frame_at, written, started_at, pulled, buffer, pc, effects>>

Init ==
  /\ LineInit
  /\ pc = "reading"
  /\ requested_start = FALSE
  /\ handled = <<>>
  /\ to_tun = <<>>
  /\ broadcast_received = 0
  /\ answered = <<>>

DeviceWrite(f) == Write(f) /\ UNCHANGED <<pc, effects>>

\* async_read_some completes with at least one byte, or at once with none
\* when it was given no room.
SerialRead ==
  /\ pc = "reading"
  /\ Read
  /\ pulled' > pulled \/ WritableSize(buffer) = 0
  /\ pc' = "handling"
  /\ UNCHANGED effects

\* read_handle with an error_code returns without start_reading.
ReadError ==
  /\ pc = "reading"
  /\ pc' = "stopped"
  /\ UNCHANGED <<line, pulled, buffer, effects>>

(***************************************************************************)
(* handle_serial_packet: the message it sees at the front of the buffer    *)
(* and the value it returns for it.  A length that no writer declared may  *)
(* be anything, and bytes whose start is lost may look like any message    *)
(* but the 13 letters of a start_device.                                   *)
(***************************************************************************)
\* Taking a received_packet as soon as its header is there.
EagerOutcomes ==
  IF Legible(Front)
  THEN LET f == frame_at[Front]
       IN  {[kind |-> f.kind,
             processed |-> IF f.kind = "TEXT" THEN DataSize(buffer)
                           ELSE IF DataSize(buffer) < HeaderSize THEN -1
                           ELSE IF DataSize(buffer) < f.claim
                           THEN DataSize(buffer)
                           ELSE f.claim]}
  ELSE {}

Outcomes ==
  IF Legible(Front)
  THEN LET f == frame_at[Front]
       IN  {[kind |-> f.kind,
             processed |-> IF f.kind = "TEXT" THEN DataSize(buffer)
                           ELSE IF DataSize(buffer) < f.claim THEN -1
                           ELSE f.claim]}
  ELSE IF Front \in DOMAIN frame_at
  THEN LET kind == frame_at[Front].kind
       IN  [kind : {kind},
            processed : {-1} \cup (LeastLength[kind] .. DataSize(buffer))]
  ELSE [kind : {"STRAY"}, processed : {-1} \cup 1 .. DataSize(buffer)]
         \cup [kind : {"RECEIVED_PACKET"},
               processed : HeaderSize .. DataSize(buffer)]

(***************************************************************************)
(* What the handler does with a complete message.                          *)
(***************************************************************************)
\* Counting the packet for the statistics, forgetting to queue it.
CountOnly(kind, message) ==
  /\ to_tun' = to_tun
  /\ broadcast_received' = broadcast_received
                             + (IF kind = "RECEIVED_PACKET" THEN 1 ELSE 0)
  /\ requested_start' = (requested_start \/ kind = "START_DEVICE")
  /\ answered' = IF kind = "START_DEVICE" /\ ~requested_start
                 THEN answered \o <<"start_host", "new_device_event">>
                 ELSE answered

\* Without requested_start_.
AnswerAlways(kind, message) ==
  /\ IF kind = "RECEIVED_PACKET"
     THEN /\ to_tun' = Append(to_tun, message)
          /\ broadcast_received' = broadcast_received + 1
     ELSE UNCHANGED <<to_tun, broadcast_received>>
  /\ requested_start' = (requested_start \/ kind = "START_DEVICE")
  /\ answered' = IF kind = "START_DEVICE"
                 THEN answered \o <<"start_host", "new_device_event">>
                 ELSE answered

Act(kind, message) ==
  /\ IF kind = "RECEIVED_PACKET"
     THEN /\ to_tun' = Append(to_tun, message)
          /\ broadcast_received' = broadcast_received + 1
     ELSE UNCHANGED <<to_tun, broadcast_received>>
  /\ requested_start' = (requested_start \/ kind = "START_DEVICE")
  /\ answered' = IF kind = "START_DEVICE" /\ ~requested_start
                 THEN answered \o <<"start_host", "new_device_event">>
                 ELSE answered

\* The rest of a message is to come, or nothing is left: read on.
ReadOn ==
  /\ pc = "handling"
  /\ DataSize(buffer) = 0 \/ \E o \in Outcomes : o.processed = -1
  /\ buffer' = MoveDataToFront(buffer)
  /\ pc' = "reading"
  /\ UNCHANGED <<line, pulled, effects>>

Take ==
  /\ pc = "handling"
  /\ DataSize(buffer) > 0
  /\ \E o \in Outcomes :
       /\ o.processed > 0
       /\ o.kind = "RECEIVED_PACKET" => o.processed <= TunBuffer
       /\ Act(o.kind, Unread(o.processed))
       /\ handled' = IF o.kind = "TEXT" THEN handled
                     ELSE Append(handled, Unread(o.processed))
       /\ buffer' = Consume(buffer, o.processed)
  /\ UNCHANGED <<line, pulled, pc>>

\* A stray or cut header that declares more than a packet_buffer of the tun
\* queue holds: memcpy writes beyond it.
TunBufferOverrun ==
  /\ pc = "handling"
  /\ \E o \in Outcomes :
       o.kind = "RECEIVED_PACKET" /\ o.processed > TunBuffer
  /\ pc' = "undefined"
  /\ UNCHANGED <<line, pulled, buffer, effects>>

Handle == ReadOn \/ Take \/ TunBufferOverrun

Next == (\E f \in Frames : DeviceWrite(f)) \/ SerialRead \/ ReadError \/ Handle

(***************************************************************************)
(* The io_context runs a completed operation's handler in the end.         *)
(***************************************************************************)
Spec == Init /\ [][Next]_vars /\ WF_vars(SerialRead) /\ WF_vars(Handle)

-----------------------------------------------------------------------------
\* The types, and that the indices of the buffer stay within it.
TypeOK ==
  /\ LineTypeOK
  /\ pc \in {"reading", "handling", "stopped", "undefined"}
  /\ requested_start \in BOOLEAN
  /\ handled \in Seq(Seq(Int))
  /\ to_tun \in Seq(Seq(Int))
  /\ broadcast_received \in Nat
  /\ answered \in Seq({"start_host", "new_device_event"})

(***************************************************************************)
(* The read handler implements FrameRelay, whatever pieces the tty hands   *)
(* it: each message is taken once, whole and in order.                     *)
(***************************************************************************)
Handling == INSTANCE FrameRelay WITH delivered <- Front, out <- handled

HandlingSpec == Handling!Spec

\* While it meets sound frames only, every message consumed was handled.
NothingLost == Handling!NothingLost

(***************************************************************************)
(* The packets queued for the tap device are the received packets among    *)
(* the messages handled, as many as the statistics count.                  *)
(***************************************************************************)
TapGetsReceived ==
  /\ Len(to_tun) = broadcast_received
  /\ \A k \in 1 .. Len(handled) :
       LET p == handled[k][1] IN
       p \in DOMAIN frame_at /\ frame_at[p].kind = "RECEIVED_PACKET"
         => \E j \in 1 .. Len(to_tun) : to_tun[j] = handled[k]
  /\ \A j, k \in 1 .. Len(to_tun) : j < k => to_tun[j][1] < to_tun[k][1]

(***************************************************************************)
(* A device is answered and announced once, however often it repeats       *)
(* START_DEVICE, and only after it sent one.                               *)
(***************************************************************************)
AnsweredOnce ==
  IF \E k \in 1 .. Len(handled) :
       LET p == handled[k][1] IN
       p \in DOMAIN frame_at /\ frame_at[p].kind = "START_DEVICE"
  THEN answered = <<"start_host", "new_device_event">>
  ELSE answered = <<>>

(***************************************************************************)
(* Unlike jtag_receive_task, the handler always moves the data to the      *)
(* front: a message is handled in the end, if the reader is in step and    *)
(* the frames up to it are sound, unless the tty fails.                    *)
(***************************************************************************)
EveryMessageHandled ==
  \A p \in 0 .. MaxBytes :
    (/\ Boundary(Front)
     /\ p \in DOMAIN frame_at /\ p >= Front
     /\ \A q \in DOMAIN frame_at : q <= p => Sound(frame_at[q]))
       ~> (Front > p \/ pc = "stopped")
=============================================================================
