----------------------------- MODULE WriteQueue -----------------------------
(***************************************************************************)
(* The two write paths of the daemon: serial_port_socket::write to the     *)
(* device, and handle_serial_packet's tun_fd_write_buffers_ to the tap     *)
(* device.  Both start an async_write_some of the front of their queue on  *)
(* every push, whether one is under way or not, and pop the front when one *)
(* completes.  They differ in what a completion looks at.                  *)
(*                                                                         *)
(* An operation is tried at once, and again when the descriptor is ready,  *)
(* behind the operations before it; its handler runs later, in the order   *)
(* of the operations.  It holds a pointer to the packet, not the packet.   *)
(***************************************************************************)
EXTENDS Integers, Sequences

CONSTANT MaxPackets         \* bound: packets pushed

ASSUME MaxPacketsAssumption == MaxPackets \in Nat

VARIABLES side,             \* "serial" or "tun": which of the two paths
          pushed,           \* packets 1 .. pushed were pushed
          queue,            \* write_queue_ or tun_fd_write_buffers_
          ops,              \* the async_write_some under way, oldest first
          wire,             \* what was written: [packet, whole]
          failed,           \* packets whose write ended in an error
          overlapped,       \* a push has met an operation under way
          undefined         \* a pop_front of an empty deque

queueVars == <<side, pushed, queue, ops, wire, failed, overlapped, undefined>>

States == {"pending", "written", "error"}

QueueInit ==
  /\ side \in {"serial", "tun"}
  /\ pushed = 0
  /\ queue = <<>>
  /\ ops = <<>>
  /\ wire = <<>>
  /\ failed = {}
  /\ overlapped = FALSE
  /\ undefined = FALSE

Freed(p, q) == \A k \in 1 .. Len(q) : q[k] # p

(***************************************************************************)
(* write(2) on the packet p while the queue is q: all of it, a part of it  *)
(* (a tty only, a tap device takes whole frames), or an error.  The packet *)
(* may have been popped, and its memory freed, since the operation began.  *)
(***************************************************************************)
Perform(p, q, state) ==
  \/ /\ state = "written"
     /\ \E whole \in BOOLEAN :
          /\ side = "tun" => whole
          /\ wire' = Append(wire, [packet |-> IF Freed(p, q) THEN 0 ELSE p,
                                   whole |-> whole])
     /\ UNCHANGED failed
  \/ /\ state = "error"
     /\ failed' = failed \cup {p}
     /\ UNCHANGED wire

\* Not starting at all.
StartNone(q, o) == ops' = o /\ UNCHANGED <<wire, failed>>

(***************************************************************************)
(* start_writing and start_writing_tun, when the queue has become q and    *)
(* the operations under way are o.                                         *)
(***************************************************************************)
StartWriting(q, o) ==
  IF q = <<>>
  THEN ops' = o /\ UNCHANGED <<wire, failed>>
  ELSE \E state \in States :
         /\ ops' = Append(o, [packet |-> Head(q), state |-> state])
         /\ IF state = "pending"
            THEN UNCHANGED <<wire, failed>>
            ELSE /\ \A k \in 1 .. Len(o) : o[k].state # "pending"
                 /\ Perform(Head(q), q, state)

\* Queueing the packet before it is filled.
PushBeforeFill ==
  /\ ~undefined
  /\ pushed < MaxPackets
  /\ pushed' = pushed + 1
  /\ queue' = Append(queue, 0)
  /\ StartWriting(queue', ops)
  /\ overlapped' = (overlapped \/ ops # <<>>)
  /\ UNCHANGED <<side, undefined>>

\* push_front.
PushFront ==
  /\ ~undefined
  /\ pushed < MaxPackets
  /\ pushed' = pushed + 1
  /\ queue' = <<pushed + 1>> \o queue
  /\ StartWriting(queue', ops)
  /\ overlapped' = (overlapped \/ ops # <<>>)
  /\ UNCHANGED <<side, undefined>>

\* serial_port_socket::write, and the RECEIVED_PACKET case of the handler.
Push ==
  /\ ~undefined
  /\ pushed < MaxPackets
  /\ pushed' = pushed + 1
  /\ queue' = Append(queue, pushed + 1)
  /\ StartWriting(queue', ops)
  /\ overlapped' = (overlapped \/ ops # <<>>)
  /\ UNCHANGED <<side, undefined>>

\* The descriptor is ready for the oldest operation that waits.
Ready ==
  \E k \in 1 .. Len(ops) :
    /\ ops[k].state = "pending"
    /\ \A j \in 1 .. k - 1 : ops[j].state # "pending"
    /\ \E state \in States \ {"pending"} :
         /\ Perform(ops[k].packet, queue, state)
         /\ ops' = [ops EXCEPT ![k].state = state]
    /\ UNCHANGED <<side, pushed, queue, overlapped, undefined>>

\* Starting the next write without the pop.
WriteHandleNoPop ==
  /\ side = "serial"
  /\ ops # <<>> /\ Head(ops).state # "pending"
  /\ queue' = queue
  /\ StartWriting(queue', Tail(ops))
  /\ UNCHANGED <<side, pushed, overlapped, undefined>>

\* Giving up on an error, as handle_tun_write does.
WriteHandleStopsOnError ==
  /\ side = "serial"
  /\ ops # <<>> /\ Head(ops).state = "written"
  /\ queue' = IF queue = <<>> THEN queue ELSE Tail(queue)
  /\ StartWriting(queue', Tail(ops))
  /\ UNCHANGED <<side, pushed, overlapped, undefined>>

\* serial_port_socket::write_handle: ec and bytes_transferred are ignored.
WriteHandle ==
  /\ side = "serial"
  /\ ops # <<>> /\ Head(ops).state # "pending"
  /\ queue' = IF queue = <<>> THEN queue ELSE Tail(queue)
  /\ StartWriting(queue', Tail(ops))
  /\ UNCHANGED <<side, pushed, overlapped, undefined>>

\* espnow_uart_device::handle_tun_write: an error returns before the pop,
\* and the pop does not ask whether there is anything to pop.
HandleTunWrite ==
  /\ side = "tun"
  /\ ~undefined
  /\ ops # <<>> /\ Head(ops).state # "pending"
  /\ IF Head(ops).state = "error"
     THEN ops' = Tail(ops) /\ UNCHANGED <<queue, wire, failed, undefined>>
     ELSE IF queue = <<>>
     THEN /\ undefined' = TRUE
          /\ ops' = Tail(ops)
          /\ UNCHANGED <<queue, wire, failed>>
     ELSE /\ queue' = Tail(queue)
          /\ StartWriting(queue', Tail(ops))
          /\ UNCHANGED undefined
  /\ UNCHANGED <<side, pushed, overlapped>>

QueueNext == Push \/ Ready \/ WriteHandle \/ HandleTunWrite

(***************************************************************************)
(* The io_context polls the descriptor and runs the handlers; Ready is     *)
(* fair as long as the other end of the line keeps reading.                *)
(***************************************************************************)
QueueSpec ==
  QueueInit /\ [][QueueNext]_queueVars /\ WF_queueVars(Ready)
       /\ WF_queueVars(WriteHandle) /\ WF_queueVars(HandleTunWrite)

-----------------------------------------------------------------------------
Packets == 1 .. MaxPackets

\* The types.
QueueTypeOK ==
  /\ side \in {"serial", "tun"}
  /\ pushed \in 0 .. MaxPackets
  /\ queue \in Seq(Packets)
  /\ ops \in Seq([packet : Packets, state : States])
  /\ wire \in Seq([packet : 0 .. MaxPackets, whole : BOOLEAN])
  /\ failed \subseteq Packets
  /\ overlapped \in BOOLEAN
  /\ undefined \in BOOLEAN

(***************************************************************************)
(* No packet is left in a queue that nobody writes: there is an operation  *)
(* under way for each, save those that errors of the tap device cost it.   *)
(***************************************************************************)
NoIdleQueue ==
  side = "serial" \/ failed = {} => Len(ops) >= Len(queue)

(***************************************************************************)
(* However the operations overlap, no packet overtakes another: a packet   *)
(* once followed by a later one does not come again.                       *)
(***************************************************************************)
NoOvertaking ==
  \A j, k \in 1 .. Len(wire) :
    j < k /\ wire[k].packet # 0 => wire[j].packet <= wire[k].packet

(***************************************************************************)
(* As long as no push meets an operation under way, each packet is written *)
(* once, from live memory, and the deque is never popped empty.            *)
(***************************************************************************)
ExactWhenAlone ==
  ~overlapped =>
    /\ ~undefined
    /\ \A k \in 1 .. Len(wire) : wire[k].packet # 0
    /\ \A j, k \in 1 .. Len(wire) :
         j # k => wire[j].packet # wire[k].packet

(***************************************************************************)
(* The queue drains, unless an error of the tap device ends the chain of   *)
(* writes or the empty deque was popped.                                   *)
(***************************************************************************)
Drains == []<>(queue = <<>> \/ undefined \/ (side = "tun" /\ failed # {}))

(***************************************************************************)
(* FEATURES.md:20, "Transparent Network Device: Emulate TAP interface": a  *)
(* frame sent once is seen whole at most once.                             *)
(***************************************************************************)
EachFrameOnce ==
  \A j, k \in 1 .. Len(wire) :
    j # k /\ wire[j].whole /\ wire[k].whole
      => wire[j].packet # wire[k].packet
=============================================================================
