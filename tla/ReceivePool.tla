----------------------------- MODULE ReceivePool -----------------------------
(***************************************************************************)
(* The air-to-host half of the firmware (main/usb_cdc_main.cpp 71-132 and  *)
(* 311-323).  The receive callback, on the Wi-Fi task, claims a slot of    *)
(* the static array packets, copies the packet into it and sends its index *)
(* through receive_queue; the main task pushes the slot to the UART and    *)
(* frees it.  The Wi-Fi task has the higher priority of the two on the one *)
(* core, so the main task runs only while it is blocked or idle: a claim   *)
(* with its memcpy is one step.                                            *)
(***************************************************************************)
EXTENDS Integers, Sequences, FiniteSets

CONSTANTS Slots,            \* entries of packets: 15
          QueueSize,        \* ESPNOW_QUEUE_SIZE: 6
          MaxPackets        \* bound: packets the air brings

ASSUME SizesAssumption ==
  /\ Slots \in Nat \ {0}
  /\ QueueSize \in Nat \ {0}
  /\ MaxPackets \in Nat

None == 0
Pool == 1 .. Slots

VARIABLES arrived,          \* packets 1 .. arrived came over the air
          is_free,          \* packets[i].is_free
          data,             \* packets[i].data: the packet stored last
          receive_queue,    \* indices
          sending,          \* the index the callback gives to xQueueSend
          main_index,       \* the index the main loop works on
          uart,             \* packets written to the UART
          leaked,           \* slots whose xQueueSend timed out
          dropped           \* packets that met no free slot

vars == <<arrived, is_free, data, receive_queue, sending, main_index, uart,
          leaked, dropped>>

Init ==
  /\ arrived = 0
  /\ is_free = [i \in Pool |-> TRUE]
  /\ data = [i \in Pool |-> None]
  /\ receive_queue = <<>>
  /\ sending = None
  /\ main_index = None
  /\ uart = <<>>
  /\ leaked = {}
  /\ dropped = {}

-----------------------------------------------------------------------------
(* The Wi-Fi task.                                                         *)

\* std::find_if: the first free slot.
FirstFree(i) == is_free[i] /\ \A j \in 1 .. i - 1 : ~is_free[j]

\* Taking a slot without asking whether it is free, as a ring would.
ClaimNext ==
  /\ sending = None
  /\ arrived < MaxPackets
  /\ arrived' = arrived + 1
  /\ LET i == (arrived % Slots) + 1 IN
       /\ is_free' = [is_free EXCEPT ![i] = FALSE]
       /\ data' = [data EXCEPT ![i] = arrived + 1]
       /\ sending' = i
  /\ UNCHANGED <<receive_queue, main_index, uart, leaked, dropped>>

\* The distance from the first slot, counted from one too many.
ClaimOffByOne ==
  /\ sending = None
  /\ arrived < MaxPackets
  /\ arrived' = arrived + 1
  /\ \E i \in Pool :
       /\ FirstFree(i)
       /\ is_free' = [is_free EXCEPT ![i] = FALSE]
       /\ data' = [data EXCEPT ![i] = arrived + 1]
       /\ sending' = i + 1
  /\ UNCHANGED <<receive_queue, main_index, uart, leaked, dropped>>

Claim ==
  /\ sending = None
  /\ arrived < MaxPackets
  /\ arrived' = arrived + 1
  /\ \E i \in Pool :
       /\ FirstFree(i)
       /\ is_free' = [is_free EXCEPT ![i] = FALSE]
       /\ data' = [data EXCEPT ![i] = arrived + 1]
       /\ sending' = i
  /\ UNCHANGED <<receive_queue, main_index, uart, leaked, dropped>>

\* "No space to store received packet".
Drop ==
  /\ sending = None
  /\ arrived < MaxPackets
  /\ \A i \in Pool : ~is_free[i]
  /\ arrived' = arrived + 1
  /\ dropped' = dropped \cup {arrived + 1}
  /\ UNCHANGED <<is_free, data, receive_queue, sending, main_index, uart,
                 leaked>>

\* xQueueSend with room in the queue, at once or within ESPNOW_MAXDELAY.
QueueSend ==
  /\ sending # None
  /\ Len(receive_queue) < QueueSize
  /\ receive_queue' = Append(receive_queue, sending)
  /\ sending' = None
  /\ UNCHANGED <<arrived, is_free, data, main_index, uart, leaked, dropped>>

\* The queue stayed full for 512 ticks: a warning, and the slot stays taken.
QueueSendFails ==
  /\ sending # None
  /\ Len(receive_queue) = QueueSize
  /\ leaked' = leaked \cup {sending}
  /\ sending' = None
  /\ UNCHANGED <<arrived, is_free, data, receive_queue, main_index, uart,
                 dropped>>

-----------------------------------------------------------------------------
(* The main task.                                                          *)

\* Freeing the slot as soon as its index is known.
QueueReceiveAndFree ==
  /\ main_index = None
  /\ receive_queue # <<>>
  /\ main_index' = Head(receive_queue)
  /\ receive_queue' = Tail(receive_queue)
  /\ is_free' = [is_free EXCEPT ![Head(receive_queue)] = TRUE]
  /\ UNCHANGED <<arrived, data, sending, uart, leaked, dropped>>

QueueReceive ==
  /\ main_index = None
  /\ receive_queue # <<>>
  /\ main_index' = Head(receive_queue)
  /\ receive_queue' = Tail(receive_queue)
  /\ UNCHANGED <<arrived, is_free, data, sending, uart, leaked, dropped>>

\* Freeing the slot only if it was written.
PushToUartKeepsFailed ==
  /\ main_index # None
  /\ \/ /\ uart' = Append(uart, data[main_index])
        /\ is_free' = [is_free EXCEPT ![main_index] = TRUE]
     \/ UNCHANGED <<uart, is_free>>
  /\ main_index' = None
  /\ UNCHANGED <<arrived, data, receive_queue, sending, leaked, dropped>>

(***************************************************************************)
(* push_to_uart_with_synchro writes the slot, or gives up after 1 s        *)
(* without the mutex or 100 ms without room; the slot is freed either way. *)
(***************************************************************************)
PushToUart ==
  /\ main_index # None
  /\ uart' \in {uart, Append(uart, data[main_index])}
  /\ is_free' = [is_free EXCEPT ![main_index] = TRUE]
  /\ main_index' = None
  /\ UNCHANGED <<arrived, data, receive_queue, sending, leaked, dropped>>

-----------------------------------------------------------------------------
Next ==
  \/ Claim \/ Drop \/ QueueSend \/ QueueSendFails
  \/ QueueReceive \/ PushToUart

(***************************************************************************)
(* portMAX_DELAY, and the timeouts of the push, let the main loop go on;   *)
(* a callback blocked on the queue ends by its timeout at the latest.      *)
(***************************************************************************)
Spec ==
  /\ Init /\ [][Next]_vars
  /\ WF_vars(QueueReceive) /\ WF_vars(PushToUart)
  /\ WF_vars(QueueSend \/ QueueSendFails)

-----------------------------------------------------------------------------
\* The types.
TypeOK ==
  /\ arrived \in 0 .. MaxPackets
  /\ is_free \in [Pool -> BOOLEAN]
  /\ data \in [Pool -> 0 .. MaxPackets]
  /\ receive_queue \in Seq(Pool) /\ Len(receive_queue) <= QueueSize
  /\ sending \in Pool \cup {None}
  /\ main_index \in Pool \cup {None}
  /\ uart \in Seq(1 .. MaxPackets)
  /\ leaked \subseteq Pool
  /\ dropped \subseteq 1 .. MaxPackets

\* The slots in use: who holds each.
Queued == {receive_queue[k] : k \in 1 .. Len(receive_queue)}
Held == Queued \cup ({sending, main_index} \ {None})

(***************************************************************************)
(* A taken slot has one owner, the callback, the queue at one place, or    *)
(* the main loop, and no free slot has any: the callback never overwrites  *)
(* a packet that is still to be pushed.                                    *)
(***************************************************************************)
OneOwner ==
  /\ \A j, k \in 1 .. Len(receive_queue) :
       j # k => receive_queue[j] # receive_queue[k]
  /\ sending # None => sending \notin Queued \cup {main_index}
  /\ main_index \notin Queued
  /\ \A i \in Pool : is_free[i] <=> i \notin Held \cup leaked

(***************************************************************************)
(* A timeout of xQueueSend costs its slot for good, but the full queue     *)
(* that caused it holds QueueSize others: the leak stops there, and with   *)
(* more slots than QueueSize + 1 a packet is dropped only after a leak.    *)
(***************************************************************************)
LeakBounded ==
  /\ Slots >= QueueSize => Cardinality(leaked) <= Slots - QueueSize
  /\ dropped # {} => Cardinality(leaked) + QueueSize + 1 >= Slots

(***************************************************************************)
(* What is on its way, oldest first.                                       *)
(***************************************************************************)
Transit ==
  [k \in 1 .. Len(receive_queue) + (IF main_index = None THEN 0 ELSE 1)
              + (IF sending = None THEN 0 ELSE 1) |->
     LET first == IF main_index = None THEN 0 ELSE 1 IN
     IF k <= first THEN data[main_index]
     ELSE IF k - first <= Len(receive_queue) THEN data[receive_queue[k - first]]
     ELSE data[sending]]

(***************************************************************************)
(* The pool with its queue implements LossyFifo: what reaches the UART is  *)
(* what came over the air, once, in order.                                 *)
(***************************************************************************)
Fifo == INSTANCE LossyFifo WITH transit <- Transit, passed <- uart

FifoSpec == Fifo!Spec

\* Packets reach the UART in the order they came, none twice.
PassedInOrder == Fifo!PassedInOrder

(***************************************************************************)
(* However many slots have leaked, the pool recovers: a packet that the    *)
(* air brings later finds a free slot again.                               *)
(***************************************************************************)
SlotFreedAgain == []<>(\E i \in Pool : is_free[i])
=============================================================================
