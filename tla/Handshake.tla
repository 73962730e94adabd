----------------------------- MODULE Handshake -----------------------------
(***************************************************************************)
(* How a device and the daemon come to work together.  The device repeats  *)
(* START_DEVICE until a read begins with START_HOST; the daemon answers    *)
(* the first START_DEVICE that a device object sees, and no other.  Either *)
(* end may restart without the other, and the daemon relays frames of the  *)
(* tap device from the moment the device file is open.                     *)
(*                                                                         *)
(* The line is two sequences of messages.  A read of the device takes as   *)
(* many as have come and may end inside a packet, whose rest the next read *)
(* begins with; how the daemon puts its messages together again is the     *)
(* subject of HostUplink.  What it writes goes through write_queue_, as in *)
(* WriteQueue: every push starts a write of the front, every completion    *)
(* pops the front, and a write whose packet was popped writes freed bytes. *)
(* All writes under way on packets not yet popped are of the front, so     *)
(* their number is enough.                                                 *)
(***************************************************************************)
EXTENDS Integers, Sequences, SequencesExt

CONSTANTS RingSize,         \* START_DEVICE messages the line to the host holds
          MaxPackets,       \* bound: frames of the tap device
          MaxRestarts       \* bound: ends of the daemon, resets of the device

ASSUME HandshakeAssumption ==
  /\ RingSize \in Nat \ {0}
  /\ MaxPackets \in Nat
  /\ MaxRestarts \in Nat

VARIABLES device,           \* "announcing", "listening", "running"
          to_host,
          to_device,
          open,             \* the daemon has the device file open
          reading,          \* and its chain of reads goes on
          requested_start,
          queue,            \* write_queue_
          writes,           \* its async_write_some: how many are complete,
                            \* their handler to run, how many under way on a
                            \* packet that was popped, how many on the front
          sent,             \* packets pushed
          restarts,
          answer,           \* what became of START_HOST, see Answers
          crossed,          \* a packet was pushed with START_HOST in front
          misread           \* bytes of no message were taken for START_HOST

queueVars == <<queue, writes, answer>>
daemonVars == <<open, reading, requested_start, queue, writes>>
history == <<answer, crossed, misread>>
vars == <<device, to_host, to_device, daemonVars, sent, restarts, history>>

\* Not written, written with no packet before it on the line, or with one,
\* popped without having been written, missed by a device that was reset.
Answers == {"none", "ahead", "behind", "lost", "missed"}

NoWrites == [completed |-> 0, freed |-> 0, front |-> 0]

Waiting == device \in {"announcing", "listening"}

OnlyAnswers(line) == \A i \in DOMAIN line : line[i] = "START_HOST"

Init ==
  /\ device = "announcing"
  /\ to_host = <<>>
  /\ to_device = <<>>
  /\ open = FALSE
  /\ reading = FALSE
  /\ requested_start = FALSE
  /\ queue = <<>>
  /\ writes = NoWrites
  /\ sent = 0
  /\ restarts = 0
  /\ answer = "none"
  /\ crossed = FALSE
  /\ misread = FALSE

-----------------------------------------------------------------------------
(* The device: the loop of usb_main before its tasks are created.          *)

\* As if the ring had room always.
PushWithoutRoom ==
  /\ device = "announcing"
  /\ device' = "listening"
  /\ to_host' = Append(to_host, "START_DEVICE")
  /\ UNCHANGED <<to_device, daemonVars, sent, restarts, history>>

\* push_to_uart_with_synchro: with no room for 100 ms nothing is written.
PushStartDevice ==
  /\ device = "announcing"
  /\ device' = "listening"
  /\ to_host' = IF Len(to_host) < RingSize
                THEN Append(to_host, "START_DEVICE")
                ELSE to_host
  /\ UNCHANGED <<to_device, daemonVars, sent, restarts, history>>

\* START_DEVICE pushed before the loop and not in it.
ReadNothingListening ==
  /\ device = "listening"
  /\ to_device = <<>>
  /\ UNCHANGED vars

\* The read finds nothing for a second; what was written before arrives
\* sooner.
ReadNothing ==
  /\ device = "listening"
  /\ to_device = <<>>
  /\ device' = "announcing"
  /\ UNCHANGED <<to_host, to_device, daemonVars, sent, restarts, history>>

\* What a read of n messages leaves on the line.
Rest(n) ==
  LET left == SubSeq(to_device, n + 1, Len(to_device))
  IN  {left} \cup IF to_device[n] = "START_HOST" THEN {}
                  ELSE {<<"REST">> \o left}

\* START_HOST only when it is all that was read.
ReadWholeMessage ==
  /\ device = "listening"
  /\ \E n \in DOMAIN to_device :
       /\ to_device' \in Rest(n)
       /\ \/ /\ to_device[1] = "START_HOST" /\ n = 1
             /\ device' = "running"
             /\ UNCHANGED misread
          \/ /\ to_device[1] # "START_HOST" \/ n > 1
             /\ device' = "announcing"
             /\ UNCHANGED misread
          \/ /\ to_device[1] = "REST"
             /\ device' = "running"
             /\ misread' = TRUE
  /\ UNCHANGED <<to_host, daemonVars, sent, restarts, answer, crossed>>

(***************************************************************************)
(* The first byte decides, and whatever was read with it is thrown away.   *)
(***************************************************************************)
ReadSome ==
  /\ device = "listening"
  /\ \E n \in DOMAIN to_device :
       /\ to_device' \in Rest(n)
       /\ \/ /\ to_device[1] = "START_HOST"
             /\ device' = "running"
             /\ UNCHANGED misread
          \/ /\ to_device[1] # "START_HOST"
             /\ device' = "announcing"
             /\ UNCHANGED misread
          \/ /\ to_device[1] = "REST"
             /\ device' = "running"
             /\ misread' = TRUE
  /\ UNCHANGED <<to_host, daemonVars, sent, restarts, answer, crossed>>

\* jtag_receive_task takes what comes then, an answer as an unknown message.
Receive ==
  /\ device = "running"
  /\ to_device # <<>>
  /\ to_device' = Tail(to_device)
  /\ UNCHANGED <<device, to_host, daemonVars, sent, restarts, history>>

\* A reset of the device: what its driver held is lost, and the daemon's
\* read fails if the device leaves the bus.
Reset ==
  /\ restarts < MaxRestarts
  /\ restarts' = restarts + 1
  /\ device' = "announcing"
  /\ \E k \in 0 .. Len(to_device) :
       to_device' = SubSeq(to_device, k + 1, Len(to_device))
  /\ \E k \in 0 .. Len(to_host) : to_host' = SubSeq(to_host, 1, k)
  /\ reading' \in {reading, FALSE}
  /\ answer' = IF answer \in {"ahead", "behind"} THEN "missed" ELSE answer
  /\ misread' = FALSE
  /\ UNCHANGED <<open, requested_start, queue, writes, sent, crossed>>

-----------------------------------------------------------------------------
(* The daemon.                                                             *)

\* espnow_uart_device::open
Open ==
  /\ ~open
  /\ open' = TRUE
  /\ reading' = TRUE
  /\ requested_start' = FALSE
  /\ UNCHANGED <<device, to_host, to_device, queueVars, sent, restarts,
                 crossed, misread>>

(***************************************************************************)
(* write(2) on a message, when a is what became of the answer so far.  An  *)
(* error leaves the line as it is.  A device reads messages whole or       *)
(* throws them away, so a packet written in part is a packet.              *)
(***************************************************************************)
Perform(message, a) ==
  \/ to_device' = to_device /\ answer' = a
  \/ /\ to_device' = Append(to_device, message)
     /\ answer' = IF message # "START_HOST" THEN a
                  ELSE IF a = "ahead" \/ OnlyAnswers(to_device) THEN "ahead"
                  ELSE "behind"

(***************************************************************************)
(* start_writing, when write_queue_ has become q and its operations w: the *)
(* write of the front is tried at once, unless one waits for the tty.      *)
(***************************************************************************)
StartWriting(q, w, a) ==
  IF q = <<>>
  THEN writes' = w /\ answer' = a /\ UNCHANGED to_device
  ELSE \/ /\ writes' = [w EXCEPT !.front = @ + 1]
          /\ answer' = a
          /\ UNCHANGED to_device
       \/ /\ w.freed = 0 /\ w.front = 0
          /\ writes' = [w EXCEPT !.completed = @ + 1]
          /\ Perform(Head(q), a)

\* serial_port_socket::write
Push(message) ==
  /\ queue' = Append(queue, message)
  /\ StartWriting(queue', writes, answer)

\* Without requested_start_.
AnswerEach ==
  /\ reading
  /\ to_host # <<>>
  /\ to_host' = Tail(to_host)
  /\ requested_start' = TRUE
  /\ Push("START_HOST")
  /\ UNCHANGED <<device, open, reading, sent, restarts, crossed, misread>>

\* The START_DEVICE case of handle_serial_packet.
HandleStartDevice ==
  /\ reading
  /\ to_host # <<>>
  /\ to_host' = Tail(to_host)
  /\ requested_start' = TRUE
  /\ IF ~requested_start
     THEN Push("START_HOST")
     ELSE UNCHANGED <<to_device, queueVars>>
  /\ UNCHANGED <<device, open, reading, sent, restarts, crossed, misread>>

\* tun_read_handle does not ask whether the device has started.
TunRead ==
  /\ open
  /\ sent < MaxPackets
  /\ sent' = sent + 1
  /\ Push("PACKET")
  /\ crossed' = (crossed \/ (queue # <<>> /\ Head(queue) = "START_HOST"))
  /\ UNCHANGED <<device, to_host, open, reading, requested_start, restarts,
                 misread>>

\* The tty is ready for the oldest operation that waits.
Ready ==
  \/ /\ writes.freed > 0
     /\ writes' = [writes EXCEPT !.freed = @ - 1, !.completed = @ + 1]
     /\ Perform("REST", answer)
     /\ UNCHANGED <<device, to_host, open, reading, requested_start, queue,
                    sent, restarts, crossed, misread>>
  \/ /\ writes.freed = 0 /\ writes.front > 0
     /\ writes' = [writes EXCEPT !.front = @ - 1, !.completed = @ + 1]
     /\ Perform(Head(queue), answer)
     /\ UNCHANGED <<device, to_host, open, reading, requested_start, queue,
                    sent, restarts, crossed, misread>>

(***************************************************************************)
(* write_handle, whatever the operation wrote and whatever its result: the *)
(* front is popped, and what waits to write it will write freed bytes.     *)
(***************************************************************************)
WriteHandle ==
  /\ writes.completed > 0
  /\ LET w == [writes EXCEPT !.completed = @ - 1]
     IN  IF queue = <<>>
         THEN /\ writes' = w
              /\ UNCHANGED <<to_device, queue, answer>>
         ELSE /\ queue' = Tail(queue)
              /\ StartWriting(queue',
                              [w EXCEPT !.freed = @ + w.front, !.front = 0],
                              IF Head(queue) = "START_HOST" /\ answer = "none"
                              THEN "lost" ELSE answer)
  /\ UNCHANGED <<device, to_host, open, reading, requested_start, sent,
                 restarts, crossed, misread>>

\* The daemon ends: what it had not read, or not written out, may be lost.
End ==
  /\ open
  /\ restarts < MaxRestarts
  /\ restarts' = restarts + 1
  /\ open' = FALSE
  /\ reading' = FALSE
  /\ requested_start' = FALSE
  /\ queue' = <<>>
  /\ writes' = NoWrites
  /\ answer' = "none"
  /\ \E k \in 0 .. Len(to_device) : to_device' = SubSeq(to_device, 1, k)
  /\ \E k \in 0 .. Len(to_host) :
       to_host' = SubSeq(to_host, k + 1, Len(to_host))
  /\ UNCHANGED <<device, sent, crossed, misread>>

-----------------------------------------------------------------------------
Device == PushStartDevice \/ ReadNothing \/ ReadSome \/ Receive

Daemon == Open \/ HandleStartDevice \/ TunRead \/ Ready \/ WriteHandle \/ End

Next == Device \/ Reset \/ Daemon

(***************************************************************************)
(* The device's task, the tty and the io_context go on.  Nothing makes a   *)
(* user open the device, the tap device send, or anything restart.         *)
(***************************************************************************)
Spec ==
  /\ Init /\ [][Next]_vars
  /\ WF_vars(Device)
  /\ WF_vars(HandleStartDevice) /\ WF_vars(Ready) /\ WF_vars(WriteHandle)

-----------------------------------------------------------------------------
TypeOK ==
  /\ device \in {"announcing", "listening", "running"}
  /\ to_host \in Seq({"START_DEVICE"}) /\ Len(to_host) <= RingSize
  /\ to_device \in Seq({"START_HOST", "PACKET", "REST"})
  /\ open \in BOOLEAN /\ reading \in BOOLEAN /\ requested_start \in BOOLEAN
  /\ reading => open
  /\ requested_start => open
  /\ queue \in Seq({"START_HOST", "PACKET"})
  /\ writes \in [completed : Nat, freed : Nat, front : Nat]
  /\ writes.front > 0 => queue # <<>>
  /\ sent \in 0 .. MaxPackets
  /\ restarts \in 0 .. MaxRestarts
  /\ answer \in Answers
  /\ crossed \in BOOLEAN /\ misread \in BOOLEAN

(***************************************************************************)
(* The receive task of a running device meets no answer, on which it would *)
(* throw its buffer away, unless something has restarted or a packet was   *)
(* pushed while START_HOST was at the front of write_queue_, which starts  *)
(* a second write of START_HOST: however many START_DEVICEs were on the    *)
(* way, and however pushes and completions cross before, one START_HOST    *)
(* was written, and that the device took before it ran.  What the write of *)
(* a freed packet puts on the line is REST here, whatever its bytes.       *)
(***************************************************************************)
NoStrayAnswer ==
  restarts = 0 /\ ~crossed /\ device = "running" /\ ~misread
    => "START_HOST" \notin ToSet(to_device)

(***************************************************************************)
(* A device waits for an answer that is neither on the line nor still to   *)
(* be written only if it was reset after the answer was written, if the    *)
(* answer was written behind a packet, or if it was popped unwritten: its  *)
(* write failed, or an earlier write's completion took it from the queue.  *)
(* Neither a message read with the answer, nor repetitions, nor a daemon   *)
(* that ended before are a reason.                                         *)
(***************************************************************************)
StuckNeedsCause ==
  Waiting /\ requested_start /\ "START_HOST" \notin ToSet(to_device)
    => \/ answer \in {"behind", "lost", "missed"}
       \/ answer = "none" /\ "START_HOST" \in ToSet(queue)

(***************************************************************************)
(* A device that waits gets to run once a daemon that has not answered yet *)
(* and has nothing to write reads from it, whatever went before, unless a  *)
(* packet is sent, one of them restarts or the write of the answer fails.  *)
(***************************************************************************)
HandshakeCompletes ==
  \A r \in 0 .. MaxRestarts, s \in 0 .. MaxPackets :
    (/\ Waiting /\ reading /\ ~requested_start
     /\ OnlyAnswers(to_device)
     /\ queue = <<>> /\ writes = NoWrites
     /\ restarts = r /\ sent = s)
      ~> (device = "running" \/ restarts # r \/ sent # s \/ answer = "lost")

(***************************************************************************)
(* readme.md:9, "Acts as a bridge, translating incoming serial commands    *)
(* from the Linux host into ESP-NOW packets": a device whose file is open  *)
(* comes to run, when nothing restarts and no write of the answer fails.   *)
(***************************************************************************)
BridgeStarts == reading ~> (device = "running" \/ answer = "lost")
=============================================================================
