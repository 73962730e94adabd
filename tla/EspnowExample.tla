---------------------------- MODULE EspnowExample ----------------------------
(***************************************************************************)
(* The second application of main/, hello_world_main.c.  Callbacks that    *)
(* run in the Wi-Fi task post events to a queue; one task takes them.  A   *)
(* send that is done causes the next one, to the broadcast address first   *)
(* and to a peer once that peer has announced itself, count times, and     *)
(* then the task takes everything down.                                    *)
(*                                                                         *)
(* What example_espnow_data_prepare writes, "Message <n>", is an ERROR to  *)
(* example_espnow_data_parse: the frames of the other types come from      *)
(* devices that run another build.  state is set and never sent.           *)
(***************************************************************************)
EXTENDS Integers, Sequences, FiniteSets

CONSTANTS Peers,            \* the devices in reach
          Magics,           \* values of esp_random()
          MaxPeers,         \* peers with encryption the driver has room for
          QueueSize,        \* ESPNOW_QUEUE_SIZE
          SendCount,        \* CONFIG_ESPNOW_SEND_COUNT
          MaxArrived        \* bound: frames received

ASSUME ExampleAssumption ==
  /\ Magics \subseteq Nat /\ MaxPeers \in Nat /\ MaxArrived \in Nat
  /\ QueueSize \in Nat \ {0} /\ SendCount \in Nat \ {0}
  /\ "broadcast" \notin Peers

VARIABLES task,             \* where example_espnow_task is
          send_param,
          peers,            \* added with esp_now_add_peer
          queue,            \* s_example_espnow_queue
          callback,         \* the event the Wi-Fi task is about to post
          under_way,        \* destinations of the sends not yet done
          heap,             \* blocks of received data not freed
          arrived,          \* frames received
          unicasts,         \* sends to a peer begun
          halted            \* aborted, or the deleted queue used

wifi == <<queue, callback, under_way, heap, arrived>>
exampleVars == <<task, send_param, peers, wifi, unicasts, halted>>

Broadcast == "broadcast"

Received ==
  [type : {"BROADCAST"}, mac : Peers, state : {0, 1}, magic : Magics]
    \cup [type : {"UNICAST", "ERROR"}]

ExampleInit ==
  /\ task = "starting"
  /\ \E magic \in Magics :
       send_param = [unicast |-> FALSE, broadcast |-> TRUE, magic |-> magic,
                     count |-> SendCount, dest_mac |-> Broadcast]
  /\ peers = {}
  /\ queue = <<>> /\ callback = <<>> /\ under_way = <<>>
  /\ heap = {} /\ arrived = 0 /\ unicasts = 0
  /\ halted = FALSE

QueueThere == task \in {"starting", "ready", "delay", "deinit"}

-----------------------------------------------------------------------------
(* The callbacks.                                                          *)

\* The driver is done with its sends in their order.  It reports each with
\* its tx_info: the return for one that is NULL is never taken.
SendCb ==
  /\ ~halted /\ task # "deleted"
  /\ callback = <<>> /\ under_way # <<>>
  /\ callback' = <<[id |-> "SEND_CB", mac |-> Head(under_way)]>>
  /\ under_way' = Tail(under_way)
  /\ UNCHANGED <<task, send_param, peers, queue, heap, arrived, unicasts,
                 halted>>

\* A copy of the frame, unless malloc fails.
RecvCb ==
  /\ ~halted /\ task # "deleted"
  /\ callback = <<>> /\ arrived < MaxArrived
  /\ arrived' = arrived + 1
  /\ \/ \E f \in Received :
          /\ callback' = <<[id |-> "RECV_CB", frame |-> f, data |-> arrived']>>
          /\ heap' = heap \cup {arrived'}
     \/ UNCHANGED <<callback, heap>>
  /\ UNCHANGED <<task, send_param, peers, queue, under_way, unicasts, halted>>

QueueSend ==
  /\ ~halted /\ QueueThere
  /\ callback # <<>> /\ Len(queue) < QueueSize
  /\ queue' = queue \o callback
  /\ callback' = <<>>
  /\ UNCHANGED <<task, send_param, peers, under_way, heap, arrived, unicasts,
                 halted>>

\* The warning without the free.
QueueSendFailsKeeps ==
  /\ ~halted /\ task \in {"starting", "delay"}
  /\ callback # <<>> /\ Len(queue) = QueueSize
  /\ callback' = <<>>
  /\ UNCHANGED <<task, send_param, peers, queue, under_way, heap, arrived,
                 unicasts, halted>>

\* The queue was full for ESPNOW_MAXDELAY ticks, which takes a task that
\* sleeps: the first delay, or CONFIG_ESPNOW_SEND_DELAY.
QueueSendFails ==
  /\ ~halted /\ task \in {"starting", "delay"}
  /\ callback # <<>> /\ Len(queue) = QueueSize
  /\ heap' = heap \ {callback[k].data : k \in
                       {i \in DOMAIN callback : callback[i].id = "RECV_CB"}}
  /\ callback' = <<>>
  /\ UNCHANGED <<task, send_param, peers, queue, under_way, arrived, unicasts,
                 halted>>

\* The queue is gone, or its handle is NULL, while a callback posts to it.
UseAfterDelete ==
  /\ ~halted /\ ~QueueThere
  /\ callback # <<>>
  /\ halted' = TRUE
  /\ UNCHANGED <<task, send_param, peers, wifi, unicasts>>

-----------------------------------------------------------------------------
(* The task.                                                               *)

EspnowSend(mac) ==
  /\ under_way' = Append(under_way, mac)
  /\ unicasts' = unicasts + (IF mac = Broadcast THEN 0 ELSE 1)

\* After the delay, the first send or the next; an error ends the task.
SendNext ==
  /\ ~halted /\ task \in {"starting", "delay"}
  /\ \/ EspnowSend(send_param.dest_mac) /\ task' = "ready"
     \/ task' = "deinit" /\ UNCHANGED <<under_way, unicasts>>
  /\ UNCHANGED <<send_param, peers, queue, callback, heap, arrived, halted>>

\* xQueueReceive
QueueReceive(id) ==
  /\ ~halted /\ task = "ready"
  /\ queue # <<>> /\ Head(queue).id = id
  /\ queue' = Tail(queue)

IgnoresNone(mac) == FALSE
IgnoresAll(mac) == ~send_param.broadcast

\* A broadcast that was under way when broadcasting came to its end.
Ignores(mac) == mac = Broadcast /\ ~send_param.broadcast

RemainingOfAll(mac) == send_param.count - 1

Remaining(mac) == send_param.count - (IF mac = Broadcast THEN 0 ELSE 1)

DoneBeforeCounting(mac) == mac # Broadcast /\ send_param.count = 0

SendDone(mac) == mac # Broadcast /\ Remaining(mac) = 0

HandleSendCb ==
  /\ QueueReceive("SEND_CB")
  /\ LET mac == Head(queue).mac IN
     IF Ignores(mac) THEN UNCHANGED <<task, send_param>>
     ELSE /\ task' = IF SendDone(mac) THEN "deinit" ELSE "delay"
          /\ send_param' = [send_param EXCEPT !.count = Remaining(mac),
                                              !.dest_mac = mac]
  /\ UNCHANGED <<peers, callback, under_way, heap, arrived, unicasts, halted>>

\* A device with a smaller magic number is ready to receive.
StartUnicast(mac) ==
  \/ /\ EspnowSend(mac)
     /\ send_param' = [send_param EXCEPT !.dest_mac = mac,
                         !.broadcast = FALSE, !.unicast = TRUE]
     /\ UNCHANGED task
  \/ task' = "deinit" /\ UNCHANGED <<send_param, under_way, unicasts>>

\* A sender not yet known is added as a peer: malloc may fail, and a full
\* list of peers aborts in ESP_ERROR_CHECK.
HandleBroadcast(f) ==
  \/ /\ f.mac \notin peers
     /\ \/ task' = "deinit" /\ UNCHANGED halted
        \/ Cardinality(peers) = MaxPeers /\ halted' = TRUE /\ UNCHANGED task
     /\ UNCHANGED <<send_param, peers, under_way, unicasts>>
  \/ /\ f.mac \in peers \/ Cardinality(peers) < MaxPeers
     /\ peers' = peers \cup {f.mac}
     /\ IF /\ f.state = 1 /\ ~send_param.unicast
           /\ send_param.magic >= f.magic
        THEN StartUnicast(f.mac)
        ELSE UNCHANGED <<task, send_param, under_way, unicasts>>
     /\ UNCHANGED halted

HandleRecvCb ==
  /\ QueueReceive("RECV_CB")
  /\ heap' = heap \ {Head(queue).data}
  /\ LET f == Head(queue).frame IN
     IF f.type = "BROADCAST" THEN HandleBroadcast(f)
     ELSE /\ send_param' = [send_param EXCEPT !.broadcast =
                              @ /\ f.type # "UNICAST"]
          /\ UNCHANGED <<task, peers, under_way, unicasts, halted>>
  /\ UNCHANGED <<callback, arrived>>

\* example_espnow_deinit: the queue goes before the callbacks do.
DeleteQueue ==
  /\ ~halted /\ task = "deinit"
  /\ task' = "queue_deleted"
  /\ queue' = <<>>
  /\ UNCHANGED <<send_param, peers, callback, under_way, heap, arrived,
                 unicasts, halted>>

EspnowDeinit ==
  /\ ~halted /\ task = "queue_deleted"
  /\ task' = "deleted"
  /\ under_way' = <<>>
  /\ UNCHANGED <<send_param, peers, queue, callback, heap, arrived, unicasts,
                 halted>>

-----------------------------------------------------------------------------
Task ==
  SendNext \/ HandleSendCb \/ HandleRecvCb \/ DeleteQueue \/ EspnowDeinit

ExampleNext ==
  \/ SendCb \/ RecvCb \/ QueueSend \/ QueueSendFails \/ UseAfterDelete
  \/ Task

(***************************************************************************)
(* The task runs when it can, its delays end, and the driver reports every *)
(* send, whatever frames come between.                                     *)
(***************************************************************************)
ExampleSpec ==
  /\ ExampleInit /\ [][ExampleNext]_exampleVars
  /\ WF_exampleVars(Task) /\ WF_exampleVars(QueueSend)
  /\ SF_exampleVars(SendCb)

-----------------------------------------------------------------------------
Macs == Peers \cup {Broadcast}

Events ==
  [id : {"SEND_CB"}, mac : Macs]
    \cup [id : {"RECV_CB"}, frame : Received, data : 1 .. MaxArrived]

\* The types.
ExampleTypeOK ==
  /\ task \in {"starting", "ready", "delay", "deinit", "queue_deleted",
               "deleted"}
  /\ send_param \in [unicast : BOOLEAN, broadcast : BOOLEAN, magic : Magics,
                     count : 0 .. SendCount, dest_mac : Macs]
  /\ peers \subseteq Peers /\ Cardinality(peers) <= MaxPeers
  /\ queue \in Seq(Events) /\ Len(queue) <= QueueSize
  /\ callback \in Seq(Events) /\ Len(callback) <= 1
  /\ under_way \in Seq(Macs)
  /\ heap \subseteq 1 .. MaxArrived
  /\ arrived \in 0 .. MaxArrived
  /\ unicasts \in 0 .. SendCount
  /\ halted \in BOOLEAN

\* The events to come: those in the queue, the one on its way there, and
\* those of the sends under way.
Ahead ==
  queue \o callback
    \o [k \in DOMAIN under_way |-> [id |-> "SEND_CB", mac |-> under_way[k]]]

\* The sends the task has not heard of yet.
Pending == {k \in DOMAIN Ahead : Ahead[k].id = "SEND_CB"}

(***************************************************************************)
(* hello_world_main.c:206, "Send the next data after the previous data is  *)
(* sent".  While it sends at all there is exactly one send under way that  *)
(* causes another: no event of a send is given up on a full queue, and     *)
(* what was broadcast when the unicasts began does not go on beside them.  *)
(***************************************************************************)
OneSendAtATime ==
  /\ task \in {"starting", "delay"} => Pending = {}
  /\ task = "ready" =>
       Cardinality({k \in Pending : Ahead[k].mac = Broadcast
                                     => send_param.broadcast}) =
         IF send_param.broadcast \/ send_param.unicast THEN 1 ELSE 0

(***************************************************************************)
(* What count has come down by is the sends to a peer that are done: at    *)
(* "Send done" there were CONFIG_ESPNOW_SEND_COUNT of them.                *)
(***************************************************************************)
UnicastsCounted ==
  QueueThere =>
    unicasts + send_param.count =
      SendCount + Cardinality({k \in Pending : Ahead[k].mac # Broadcast})

(***************************************************************************)
(* Every block of received data belongs to one event, in the queue or on   *)
(* its way there, and an event that is given up gives up its block.  What  *)
(* the deleted queue held is lost.                                         *)
(***************************************************************************)
BlocksOwned ==
  LET received == {k \in DOMAIN Ahead : Ahead[k].id = "RECV_CB"}
  IN  /\ \A j, k \in received : Ahead[j].data = Ahead[k].data => j = k
      /\ QueueThere => heap = {Ahead[k].data : k \in received}

(***************************************************************************)
(* A device that begins to send to a peer comes to its end, by the count   *)
(* or an error.                                                            *)
(***************************************************************************)
UnicastsEnd == send_param.unicast ~> (task = "deleted" \/ halted)
=============================================================================
