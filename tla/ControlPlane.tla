---------------------------- MODULE ControlPlane ----------------------------
(***************************************************************************)
(* The control side of the daemon and its clients.  control_server keeps   *)
(* one control_session waiting for the next connection; every session      *)
(* subscribes to new_device_event when it is made and unsubscribes when it *)
(* is destroyed; device_manager holds the devices that were added.  A      *)
(* client is one run of espnowcontrol: it connects, sends one request,     *)
(* reads once and prints what it makes of the bytes.                       *)
(*                                                                         *)
(* Adding a device is answered in two ways: a failure by a response to the *)
(* session that asked, a success by the new_device_event that the device's *)
(* START_DEVICE raises, which every session forwards to its client.        *)
(***************************************************************************)
EXTENDS Integers, FiniteSets, EventDispatcher

CONSTANTS Clients,          \* runs of espnowcontrol
          Files,            \* device files that exist
          Commands,         \* what each client may be asked to do
          MaxSessions       \* bound: sessions made while accepts may fail

ASSUME CommandsAssumption ==
  /\ IsFiniteSet(Clients)
  /\ \A c \in Clients : \A cmd \in Commands[c] :
       cmd.action \in {"add", "statistics", "list"}
  /\ MaxSessions \in Nat \ {0}

NoId == -1
NotYet == -1

VARIABLES command,          \* the command of each client
          client,           \* where the run of each client is
          unread,           \* clients whose request the daemon has not read
          answers,          \* control_envelopes written to each client
          printed,          \* the envelope the client acted on
          running,          \* the daemon's io_context.run() goes on
          peer,             \* the live accepted sessions and their clients
          waiting_session,  \* the session given to async_accept
          dispatcher,       \* the subscriptions to new_device_event
          guard,            \* new_uart_device_subscriber_guard_ per session
          devices,          \* espnow_devices_: file, who asked for it,
                            \* requested_start_
          announced,        \* the devices announced, in order
          joined            \* how many were, when the client was accepted

clientVars == <<command, client, unread, answers, printed>>
daemonVars == <<running, peer, waiting_session, dispatcher, guard, devices>>
vars == <<clientVars, daemonVars, announced, joined>>

Init ==
  /\ command \in [Clients -> UNION {Commands[c] : c \in Clients}]
  /\ \A c \in Clients : command[c] \in Commands[c]
  /\ client = [c \in Clients |-> "idle"]
  /\ unread = {}
  /\ answers = [c \in Clients |-> <<>>]
  /\ printed = [c \in Clients |-> <<>>]
  /\ running = TRUE
  /\ peer = <<>>
  /\ waiting_session = 1
  /\ dispatcher = Subscribe(NewDispatcher, 1)
  /\ guard = <<dispatcher.next_id>>
  /\ devices = <<>>
  /\ announced = <<>>
  /\ joined = [c \in Clients |-> NotYet]

-----------------------------------------------------------------------------
(* The client.                                                             *)

\* ConnectionSocket's constructor and send_message: the kernel takes the
\* connection and the bytes, the daemon accepts and reads later.
SendMessage(c) ==
  /\ client[c] = "idle"
  /\ IF running
     THEN /\ client' = [client EXCEPT ![c] = "waiting"]
          /\ unread' = unread \cup {c}
     ELSE /\ client' = [client EXCEPT ![c] = "failed"]
          /\ UNCHANGED unread
  /\ UNCHANGED <<command, answers, printed, daemonVars, announced, joined>>

(***************************************************************************)
(* ParseFromArray on envelopes that arrived together: an action replaces   *)
(* an earlier one of another kind and merges with one of the same kind,    *)
(* where a field at its default (SUCCESS, no id) was never sent.           *)
(***************************************************************************)
Parsed(m) ==
  LET n == Len(m)
      merged == {k \in 1 .. n : \A j \in k .. n : m[j].action = m[n].action}
      Field(name, default) ==
        LET sent == {k \in merged : m[k][name] # default}
        IN  IF sent = {} THEN default ELSE m[Max(sent)][name]
  IN  [action |-> m[n].action,
       status |-> Field("status", "SUCCESS"),
       id     |-> Field("id", NoId)]

\* receive_message is one read_some: it takes some of what has arrived, and
\* the command is over.
ReceiveMessage(c) ==
  /\ client[c] = "waiting"
  /\ \E n \in 1 .. Len(answers[c]) :
       printed' = [printed EXCEPT ![c] = <<Parsed(SubSeq(answers[c], 1, n))>>]
  /\ client' = [client EXCEPT ![c] = "done"]
  /\ answers' = [answers EXCEPT ![c] = <<>>]
  /\ UNCHANGED <<command, unread, daemonVars, announced, joined>>

\* The daemon is gone: an exception, printed.
Fail(c) ==
  /\ client[c] = "waiting" /\ ~running /\ answers[c] = <<>>
  /\ client' = [client EXCEPT ![c] = "failed"]
  /\ UNCHANGED <<command, unread, answers, printed, daemonVars, announced,
                 joined>>

\* The user interrupts a command that does not return.
Interrupt(c) ==
  /\ client[c] = "waiting"
  /\ client' = [client EXCEPT ![c] = "interrupted"]
  /\ answers' = [answers EXCEPT ![c] = <<>>]
  /\ UNCHANGED <<command, unread, printed, daemonVars, announced, joined>>

-----------------------------------------------------------------------------
(* The event.                                                              *)

\* Returning after the first handler.
PublishToFirst(m) ==
  answers' = [c \in Clients |->
    IF /\ client[c] = "waiting"
       /\ Called(dispatcher)[1] \in DOMAIN peer
       /\ peer[Called(dispatcher)[1]] = c
    THEN Append(answers[c], m)
    ELSE answers[c]]

\* on_new_uart_device of every session subscribed; the write of one that
\* is not accepted yet fails, and so does that to a client that is gone.
Publish(m) ==
  answers' = [c \in Clients |->
    IF /\ client[c] = "waiting"
       /\ \E s \in ToSet(Called(dispatcher)) :
            s \in DOMAIN peer /\ peer[s] = c
    THEN Append(answers[c], m)
    ELSE answers[c]]

-----------------------------------------------------------------------------
(* The daemon.                                                             *)

\* A new session waits for the next accept.  Its constructor subscribes it
\* and move-assigns the guard; old is destroyed after, or 0 if none is.
Create(old) ==
  LET s == waiting_session + 1
      subscribed == Subscribe(dispatcher, s)
  IN  /\ waiting_session' = s
      /\ guard' = [t \in (DOMAIN guard \cup {s}) \ {old} |->
                     IF t = s THEN subscribed.next_id ELSE guard[t]]
      /\ dispatcher' = IF old = 0 THEN subscribed
                       ELSE ResetGuard(subscribed, guard[old])

\* No handler holds the session any more.
Destroy(s) ==
  /\ guard' = [t \in DOMAIN guard \ {s} |-> guard[t]]
  /\ dispatcher' = ResetGuard(dispatcher, guard[s])

\* handle_accept leaves the next accept to the session's end.
AcceptOnce(c) ==
  /\ running
  /\ client[c] # "idle" /\ joined[c] = NotYet
  /\ DOMAIN peer = {}
  /\ peer' = [s \in {waiting_session} |-> c]
  /\ Create(0)
  /\ joined' = [joined EXCEPT ![c] = Len(announced)]
  /\ UNCHANGED <<clientVars, running, devices, announced>>

\* handle_accept: the session reads, and a new one waits.
Accept(c) ==
  /\ running
  /\ client[c] # "idle" /\ joined[c] = NotYet
  /\ peer' = [s \in DOMAIN peer \cup {waiting_session} |->
                IF s = waiting_session THEN c ELSE peer[s]]
  /\ Create(0)
  /\ joined' = [joined EXCEPT ![c] = Len(announced)]
  /\ UNCHANGED <<clientVars, running, devices, announced>>

\* handle_accept with an error_code: the new session is made before the old
\* one goes.
AcceptFails ==
  /\ running
  /\ waiting_session < MaxSessions
  /\ Create(waiting_session)
  /\ UNCHANGED <<clientVars, running, peer, devices, announced, joined>>

\* The end of the connection: handle_read does not read again.
EndSession(s) ==
  /\ running
  /\ s \in DOMAIN peer
  /\ client[peer[s]] # "waiting" /\ peer[s] \notin unread
  /\ peer' = [t \in DOMAIN peer \ {s} |-> peer[t]]
  /\ Destroy(s)
  /\ UNCHANGED <<clientVars, running, waiting_session, devices, announced,
                 joined>>

\* handle_read has the request of client c before it.
Reading(s, c, action) ==
  /\ running
  /\ s \in DOMAIN peer /\ peer[s] = c
  /\ c \in unread
  /\ command[c].action = action

Respond(c, m) ==
  /\ answers' = IF client[c] = "waiting" THEN [answers EXCEPT ![c] = Append(@, m)]
                ELSE answers
  /\ unread' = unread \ {c}
  /\ UNCHANGED <<command, client, printed, daemonVars, announced, joined>>

(***************************************************************************)
(* espnow_uart_device::open.  Every failure to open the file is reported   *)
(* as DEVICE_FILE_DOES_NOT_EXIST; one to make the tap device is an         *)
(* exception nobody catches, and ends the daemon.                          *)
(***************************************************************************)
\* The failure published like the success.
OpenFailsToAll(s, c) ==
  /\ Reading(s, c, "add")
  /\ Publish([action |-> "add", status |-> "DEVICE_FILE_DOES_NOT_EXIST",
              id |-> NoId])
  /\ unread' = unread \ {c}
  /\ UNCHANGED <<command, client, printed, daemonVars, announced, joined>>

OpenFails(s, c) ==
  /\ Reading(s, c, "add")
  /\ Respond(c, [action |-> "add", status |-> "DEVICE_FILE_DOES_NOT_EXIST",
                 id |-> NoId])

OpenThrows(s, c) ==
  /\ Reading(s, c, "add") /\ command[c].file \in Files
  /\ running' = FALSE
  /\ peer' = <<>>
  /\ dispatcher' = NewDispatcher
  /\ guard' = <<>>
  /\ unread' = {}
  /\ UNCHANGED <<command, client, answers, printed, waiting_session, devices,
                 announced, joined>>

\* add_uart_device: nothing asks whether the file is open already, and
\* there is no response.
AddUartDevice(s, c) ==
  /\ Reading(s, c, "add") /\ command[c].file \in Files
  /\ devices' = Append(devices,
                       [file |-> command[c].file, by |-> c,
                        requested_start |-> FALSE])
  /\ unread' = unread \ {c}
  /\ UNCHANGED <<command, client, answers, printed, running, peer,
                 waiting_session, dispatcher, guard, announced, joined>>

\* get_device_by_id
GetStatistics(s, c) ==
  /\ Reading(s, c, "statistics")
  /\ Respond(c, [action |-> "statistics", id |-> NoId,
                 status |-> IF command[c].id \in 0 .. Len(devices) - 1
                            THEN "SUCCESS" ELSE "DEVICE_NOT_FOUND"])

GetListOfDevices(s, c) ==
  /\ Reading(s, c, "list")
  /\ Respond(c, [action |-> "list", status |-> "SUCCESS", id |-> NoId])

\* Without requested_start_.
StartDeviceAgain(d) ==
  /\ running
  /\ d \in DOMAIN devices
  /\ devices' = [devices EXCEPT ![d].requested_start = TRUE]
  /\ Publish([action |-> "add", status |-> "SUCCESS", id |-> d - 1])
  /\ announced' = Append(announced, d - 1)
  /\ UNCHANGED <<command, client, unread, printed, running, peer,
                 waiting_session, dispatcher, guard, joined>>

\* START_DEVICE from a device that was not announced before.
StartDevice(d) ==
  /\ running
  /\ d \in DOMAIN devices /\ ~devices[d].requested_start
  /\ devices' = [devices EXCEPT ![d].requested_start = TRUE]
  /\ Publish([action |-> "add", status |-> "SUCCESS", id |-> d - 1])
  /\ announced' = Append(announced, d - 1)
  /\ UNCHANGED <<command, client, unread, printed, running, peer,
                 waiting_session, dispatcher, guard, joined>>

-----------------------------------------------------------------------------
ClientStep(c) ==
  SendMessage(c) \/ ReceiveMessage(c) \/ Fail(c) \/ Interrupt(c)

HandleRead(s, c) ==
  \/ OpenFails(s, c) \/ OpenThrows(s, c) \/ AddUartDevice(s, c)
  \/ GetStatistics(s, c) \/ GetListOfDevices(s, c)

Sessions == 1 .. MaxSessions + Cardinality(Clients)

Next ==
  \/ \E c \in Clients : ClientStep(c) \/ Accept(c)
  \/ AcceptFails
  \/ \E s \in Sessions, c \in Clients : HandleRead(s, c)
  \/ \E s \in Sessions : EndSession(s)
  \/ \E d \in 1 .. Cardinality(Clients) : StartDevice(d)

(***************************************************************************)
(* The io_context runs every completed operation's handler, and a client   *)
(* that has something to read reads it.  Nothing makes a device start.     *)
(***************************************************************************)
Spec ==
  /\ Init /\ [][Next]_vars
  /\ WF_vars(\E c \in Clients : Accept(c))
  /\ \A c \in Clients :
       /\ WF_vars(ReceiveMessage(c) \/ Fail(c))
       /\ WF_vars(\E s \in DOMAIN peer : HandleRead(s, c))

-----------------------------------------------------------------------------
Envelopes ==
  [action : {"add", "statistics", "list"},
   status : {"SUCCESS", "DEVICE_FILE_DOES_NOT_EXIST", "DEVICE_NOT_FOUND"},
   id     : NoId .. Cardinality(Clients) - 1]

\* The types.
TypeOK ==
  /\ \A c \in Clients : command[c] \in Commands[c]
  /\ client \in [Clients -> {"idle", "waiting", "done",
                             "interrupted", "failed"}]
  /\ unread \subseteq Clients
  /\ answers \in [Clients -> Seq(Envelopes)]
  /\ \A c \in Clients : Len(printed[c]) <= 1
  /\ printed \in [Clients -> Seq(Envelopes)]
  /\ running \in BOOLEAN
  /\ DOMAIN peer \subseteq Sessions
  /\ \A s \in DOMAIN peer : peer[s] \in Clients
  /\ waiting_session \in Sessions \cup {Cardinality(Sessions) + 1}
  /\ dispatcher.next_id \in Nat
  /\ dispatcher.handlers \in Seq([id : 1 .. dispatcher.next_id,
                                  call : Sessions \cup {waiting_session}])
  /\ \A s \in DOMAIN guard : guard[s] \in 1 .. dispatcher.next_id
  /\ devices \in Seq([file : Files, by : Clients, requested_start : BOOLEAN])
  /\ announced \in Seq(0 .. Cardinality(Clients) - 1)
  /\ joined \in [Clients -> NotYet .. Cardinality(Clients)]

(***************************************************************************)
(* The dispatcher calls live sessions only, each once, in the order they   *)
(* were made and under the id its guard holds: the subscription binds a    *)
(* raw this, and of a session that was destroyed none is left.             *)
(***************************************************************************)
LiveHandlers ==
  running =>
    LET called == Called(dispatcher) IN
    /\ ToSet(called) = DOMAIN peer \cup {waiting_session}
    /\ \A j, k \in DOMAIN called : j < k => called[j] < called[k]
    /\ \A k \in DOMAIN called : dispatcher.handlers[k].id = guard[called[k]]

\* The messages not yet read that tell a client of a device.
Tellings(c) ==
  {k \in DOMAIN answers[c] : answers[c][k].action = "add"
                             /\ answers[c][k].status = "SUCCESS"}

(***************************************************************************)
(* A client that is accepted is told of every device announced from then   *)
(* on, once and in order, whoever added it and whatever other sessions     *)
(* begin and end meanwhile.                                                *)
(***************************************************************************)
ToldOfEveryDevice ==
  \A c \in Clients :
    joined[c] # NotYet /\ client[c] = "waiting" =>
      \E told \in [joined[c] + 1 .. Len(announced) -> Tellings(c)] :
        /\ \A i, j \in DOMAIN told : i < j => told[i] < told[j]
        /\ \A k \in Tellings(c) : \E i \in DOMAIN told : told[i] = k
        /\ \A i \in DOMAIN told : answers[c][told[i]].id = announced[i]

(***************************************************************************)
(* Whatever messages merge in one read, a client that prints "Device file  *)
(* does not exist" asked for a device, and none was added for it.          *)
(***************************************************************************)
RefusalIsOwn ==
  \A c \in Clients : \A k \in DOMAIN printed[c] :
    printed[c][k].status = "DEVICE_FILE_DOES_NOT_EXIST"
      => /\ command[c].action = "add"
         /\ \A d \in DOMAIN devices : devices[d].by # c

(***************************************************************************)
(* Every command that waits comes to an end, an add once a device of any   *)
(* client was announced to it, unless the user ended it.                   *)
(***************************************************************************)
CommandEnds ==
  \A c \in Clients :
    (client[c] = "waiting"
       /\ (\/ command[c].action # "add" \/ command[c].file \notin Files
           \/ joined[c] # NotYet /\ Len(announced) > joined[c]))
      ~> client[c] \in {"done", "interrupted", "failed"}

(***************************************************************************)
(* GetDevicesListCommand.cpp:12, "devices - get list of devices": a run of *)
(* it that ends well has read the list.                                    *)
(***************************************************************************)
DevicesPrintsList ==
  \A c \in Clients :
    command[c].action = "list"
      => \A k \in DOMAIN printed[c] : printed[c][k].action = "list"
=============================================================================
