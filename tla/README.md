# Verification of EspNowOnLinux

TLA+ models of the bridge between Linux and ESP-NOW, the TLC runs that check
them on small instances, and proofs, checked by TLAPS, of the results that
matter most for instances of every size.

## The system

A daemon (`src/espnowdaemon/`) opens an ESP32's USB serial device and a tap
device and carries frames between the two; the firmware
(`src/main/usb_cdc_main.cpp`) carries them between the serial line and the air;
a command-line client (`src/espnowcontrol/`) asks the daemon, over TCP, to add a
device or to report on one.

```
 tap device <-> espnow_uart_device <-> serial_port_socket <== USB serial ==> firmware <-> ESP-NOW
                        |  new_device_event
 espnowcontrol <- TCP -> control_session <- event_dispatcher, device_manager
```

| component | state | operations | what makes it correct |
|---|---|---|---|
| `receiving_buffer` | bytes, `read_index`, `write_index` | get_writable, get_data, commit, consume, reset, move_data_to_front | its unread part is the unread part of the line |
| `jtag_receive_task`, `handle_packet_from_jtag` | a `receiving_buffer<512>` | read, take a frame, wait for its rest, discard | each frame goes to `esp_now_send` once, whole, in order |
| receive callback, packet pool, `receive_queue`, main loop | 15 slots, a queue of 6 indices | claim, send, receive, push, free | one owner per slot; packets keep their order; no slot is lost without end |
| UART transmit side | mutex `jtag_tx_semaphore`, 256-byte ring | packets, pings, logs | frames do not interleave |
| handshake | the device's loop, `requested_start_` | START_DEVICE, START_HOST | answered once, announced once |
| `serial_port_socket` | a `receiving_buffer<4096>`, `write_queue_` | read_handle, write, start_writing, write_handle | as the receive task; each packet written once |
| `espnow_uart_device` | `tun_fd_write_buffers_`, statistics, details | handle_serial_packet, tun_read_handle, handle_tun_write | every received packet goes to the tap device once |
| `device_manager` | the devices, in order | add, find, list | ids are unique and stay |
| `control_server`, `control_session` | sessions, one of them waiting | accept, the three requests, the event, end of a session | every command is answered, sessions that are gone are not called |
| `event_dispatcher`, `subscription_guard` | handlers in order, ids | subscribe, unsubscribe, publish | each live subscriber is called once |
| `espnowcontrol` | one command | connect, send, read once | prints the answer to its command |
| message formats | | serialize, deserialize | one inverts the other |
| `hello_world_main.c`, a second application, not built by `main/CMakeLists.txt` | a queue of 6 events, `send_param`, peers, blocks of received data | the send and receive callbacks, the task, the deinitialisation | one send under way at a time, `count` of them to the peer, no block lost |

How they interact: the daemon is one thread that runs an `asio::io_context`, so
its concurrency is that of operations that complete in an order of their own.
The firmware is FreeRTOS on one core: the receive task and the ping task at
priority 5, the Wi-Fi task, which runs the receive callback, above them, the
main task below; they share the packet pool, a queue and the UART mutex. The
two programs share nothing but the two byte streams of the serial line, which
may be cut into reads anywhere. The hard behaviours are therefore: reads that
split and join frames; frames cut short by a timeout, console text and stray
bytes between them; writes that overlap; timeouts of the queue and the mutex;
events that meet requests; either end restarting without the other.
`PROJECT.json` lists them, each at its line, with the properties that would show
it going wrong.

## Modules

| module | models | read with |
|---|---|---|
| `ReceivingBuffer` | `utility/receiving_buffer.hpp`: a record, each method an operator | |
| `FrameStream` | one direction of the serial line and the buffer at its end | `ReceivingBuffer` |
| `FrameRelay` | abstract: what a reader of the line promises, without a buffer | |
| `DeviceDownlink` | `jtag_receive_task`, `handle_packet_from_jtag` | `FrameStream`, implements `FrameRelay` |
| `HostUplink` | `read_handle`, `handle_serial_packet` | `FrameStream`, implements `FrameRelay` |
| `WriteQueue` | `write`, `start_writing`, `write_handle`; the tun queue and `handle_tun_write` | |
| `LossyFifo` | abstract: packets from the air, in order, at most once | |
| `ReceivePool` | the pool, the queue, the callback and the main loop | implements `LossyFifo` |
| `Handshake` | the device's loop before it runs, the daemon's answer, restarts of both | |
| `UartTx` | the mutex, the tasks that write, the three writes of a log | |
| `EventDispatcher` | `event_dispatcher`, `subscription_guard`: a record, each method an operator | |
| `ControlPlane` | sessions, devices and the clients | `EventDispatcher` |
| `EspnowExample` | `hello_world_main.c` | |
| `MessageFormats` | `messages/` and the code at both ends that packs and unpacks, in bytes | |
| `MC...` | the values of the constants for TLC | |
| `FrameRelayProofs`, `FrameStreamProofs`, `DeviceDownlinkProofs`, `HostUplinkProofs`, `ReceivePoolProofs`, `HandshakeProofs` | theorems | the module in the name |
| `FirmwareProofs` | theorems of the firmware's other parts | `UartTx`, `EspnowExample` |
| `DaemonProofs` | theorems of the daemon's queues, its control plane and the messages | `WriteQueue`, `ControlPlane`, `MessageFormats` |

**Bytes and frames.** A byte of the line is its position on the line, so a buffer
that holds the wrong byte holds the wrong number, and a message is the sequence
of positions it was made from. What the bytes say is in the frame that begins
at a position: its size, and the length its header *claims* (0 when its first
byte is no message id the reader knows). The formats in `messages/` give
`claim = size`, a sound frame; a write cut short in its payload gives
`claim > size`, console text `claim = 0`. A frame cut inside its header, by a partial
`async_write_some` or by a log whose size write times out, is `Unclear`: its id is
there, its length is read from the bytes that follow and may be anything, more than the
buffer holds included. Inside a frame whose start is lost the bytes may look like
anything, and every result of the handler is possible.
`ClaimsFit` is an assumption on what writers declare, and of nothing else: 11 + 498 bytes
fit into 512, 261 into 4096.

**DeviceDownlink.** `ReadJtag` is the read and the commit; the inner loop is
`Relay` (a frame handled and consumed), `WaitForRest` (-1), `Discard` (0) and
`Drained` (nothing left, and neither move nor reset, as in the code).
`LengthWraps` is `payload_size + 11` beyond 32 bits, of an `Unclear` frame or out of step.
`StallNeedsCause` says when a read has no room: the stall of finding 1, or a wait for a
length that no writer declared.

**HostUplink.** `SerialRead`, then `Take` for each message with what it does
(`Act`), then `ReadOn`, which moves the data to the front in every case.
`TunBufferOverrun` is the `memcpy` of more than a `packet_buffer` holds, which
only bytes that are no whole header can ask for; nothing is claimed of what follows. The
branch of `read_handle` for a handler that returns 0 is not there: this handler
never does.

**WriteQueue.** An asynchronous write is tried when it is started, unless an older
one waits, and holds a pointer to its packet; its handler runs later. A packet
that was freed in between is written as packet 0.

**ReceivePool.** The Wi-Fi task preempts the main task and is not preempted by it,
so a claim with its `memcpy` is one step; the wait in `xQueueSend` is not.
`QueueSendFails` is its timeout, after which the slot stays taken
(`hello_world_main.c:113-116` frees its memory there).

**Handshake.** The line is two sequences of messages. A read of the device takes as many
as have come (`ReadSome`), decides by the first and drops the rest; it may end inside
a packet, and the rest of that, `REST`, may look like START_HOST (`misread`). What the
daemon writes goes through `write_queue_` as in `WriteQueue`: `Push` starts a write of the
front, whatever is under way, `Ready` is a write that waited, `WriteHandle` pops the front
and starts the next. So START_HOST may be written twice, when a packet is pushed
with it in front (`crossed`), fail, or be popped by the completion of another write and never
be written; `answer` says what became of it. Writes of one queue that are not complete are all of
its front or of packets that were popped, so `writes` counts them in place of the list of
`WriteQueue`. A packet that was freed when it is written puts `REST` on the line. A packet written in part
is a packet here: a device in its loop throws either away, a device that runs is the subject of
`DeviceDownlink`. A restart loses any part of what the restarted end held; `Reset` may also end the
daemon's chain of reads, as a device that leaves the bus does.
What a running device writes is not there: the daemon takes no answer from it.

**UartTx.** Time passes in ticks of 100 ms, the timeout of a write, and only while a
write waits for room, since everything else takes microseconds: a wait for the mutex
is counted in them. `Take` lets the waiting task of highest priority go first, but not
before a task that has just given the mutex and takes it again at the same priority. The
text of ESP_LOG goes to the console past the mutex and is outside this module; `HostUplink` has it
as `TEXT` between frames.

**EventDispatcher.** `subscribe` gives the handler the next id, `unsubscribe` keeps what
has another id, in its order, `publish` calls them in order. The guard of a session is its id;
it is assigned once, when the session is made, and reset by the destructor.

**ControlPlane.** A session is made, and subscribes, before it is accepted; it ends,
and unsubscribes, when its client is gone. A failed accept makes the new session before
the old one is destroyed. `Parsed` is what protobuf makes of
messages that one read joins: the last action, and of each field of the messages that
merge the last value that was sent. A device is announced by `StartDevice`, the
START_DEVICE case of `handle_serial_packet` with the publish in it.

**EspnowExample.** The callbacks run in the Wi-Fi task: `SendCb` and `RecvCb` make an
event, `QueueSend` or its timeout `QueueSendFails` ends them; the return of the send callback
for a `tx_info` of NULL (`:69-72`) is left out, since the driver reports each send with its own. The task takes one event
at a time; `HandleSendCb` and `HandleRecvCb` are its two cases, `SendNext` is the send
after the delay, and every exit leads to the deinitialisation in two steps,
`DeleteQueue` and `EspnowDeinit`. What a frame is to `example_espnow_data_parse` is
its type: the example's own payload, "Message n", is an error to it, so the frames of
the other types come from another build. The properties speak of `Ahead`: the queue, the
event a callback is about to post, and the events of the sends under way, in the order
in which the task will meet them.

**MessageFormats.** Pure operators. An integer is the tuple of its bytes in memory, so
that `htonl` and the shifting loops of `buffer_utils` are what they do to bytes. It says
what the state machines take for granted when a message is a number of positions:
`Claim`, `Processed`, and the way of a payload from the tap device to `esp_now_send`
and from the receive callback to the tap device.

## Runs

| run | bounds | shows |
|---|---|---|
| `device_downlink` | buffer 4, header 2, 7 bytes, 5 kinds of frame: sound, empty, unknown, cut in the payload, cut in the header | implements `FrameRelay`; a read has no room only after a drain at the last cell or in a wait for a length no writer declared; relays every sound frame it is in step with unless stalled |
| `device_stall` | buffer 4, header 2, 8 bytes, sound frames | **violation**: see finding 1 |
| `host_uplink` | buffer 4, header 2, tun buffer 3, 6 bytes, 6 kinds of frame, logs cut in their text and in their header among them | implements `FrameRelay`; the tap queue, the statistics and the answer to the handshake agree with the messages; every sound message it is in step with is handled in the end, unless the tty fails. The same run evaluates `MCMessageFormats` |
| `write_queue` | 3 packets, both queues | a packet never overtakes, no queue idles, and without overlap each packet is written once |
| `write_overlap` | 2 packets | **violation**: finding 2 |
| `receive_pool` | 4 slots, queue 2, 7 packets | one owner, bounded leak, order, implements `LossyFifo`, a slot is always freed again |
| `handshake` | ring 1, 2 packets, 2 restarts | no stray answer unless a packet was pushed with START_HOST in front; a device waits in vain only after a reset behind the answer, an answer behind a packet, or one popped unwritten; the handshake completes |
| `handshake_behind` | ring 2, 1 packet, no restart | **violation**: finding 4 |
| `uart_tx` | mutex timeout 4 ticks, 3 frames | frames together, the callback's wait is bounded, pushes end |
| `control_plane` | 3 clients, one device file, 1 failed accept | live subscriptions, announcements complete and in order, commands end |
| `control_list` | the same | **violation**: finding 3 |
| `espnow_example` | 2 peers, room for 1, queue 2, 2 sends, 4 frames | one chain of sends, all of them counted, no block of data lost, an end |

Why the bounds are enough. The buffer of four takes the largest frame with one
byte to spare, and the line is nearly twice its length, six to eight bytes: it fills, is moved with one
and with two bytes left, and drains both at its last cell and before. The
reader starts at every offset of the first frame. Three packets are the least
that let a push meet one write under way and another behind it. Four slots and
a queue of two leave two slots to leak, one more than `QueueSize + 1`; seven
packets reuse each. Two restarts are one of each end, in either order, and the ring for START_DEVICE is full
with one. Two packets are the least that let START_HOST meet a write under way before it and
another push behind it, and write freed bytes. Three frames let two logs keep a third task waiting beyond
four ticks, the least that is longer than one log. Three clients are one that adds, one that is told as well,
and one that comes or goes. In the example two peers with room for one meet the full
list, a queue of two fills with frames while a send is reported, a count of two goes
through 1 and 0, and four frames are a broadcast that begins the unicasts, a unicast
that ends the broadcasts and two that fill the queue.
`MCMessageFormats` takes values of 1, 2 and 4 bytes from five that differ in sign and
meaning, payloads of 0, 1 and 3 bytes, and a slot with another packet's payload; the loops
of `buffer_utils` are there folds, compared with `ReadValue` and `WriteValue`.
The theorems below do not depend on bounds, save
`MaxBytes`, `MaxPackets`, `MaxRestarts`, `MaxFrames`, `MaxArrived` and `MaxSessions`, which
may be any number.

**Fairness.** Weak fairness of the receive task's steps: it has priority 5 and its
read returns after 100 ms. Of the daemon's handlers: the `io_context` runs
what has completed. Of `Ready` in `WriteQueue`: the other end goes on reading
the line. Of the main loop and of the end of `xQueueSend` in `ReceivePool`: every
wait there has a timeout or waits for the other side. Of the device's loop in
`Handshake`, whose reads and writes have timeouts, of its `Ready` and `WriteHandle`, as in
`WriteQueue`, and of every task in `UartTx`, whose
write ends by room or by its timeout. In `ControlPlane`, of accepting some client, of each
session's read, and of each client's: what waits for one client does not wait for another.
In `EspnowExample`, of the task, whose delays end, of `xQueueSend` where there is room, and
strong fairness of `SendCb`: the driver reports each send, but its task also brings
frames, and between two of them the report is not enabled. Nothing is assumed of the arrival of frames, packets or START_DEVICE, of
errors, restarts, or of users. One assumption is worth a second look: in the stall of
finding 1 a read of 0 bytes returns at once and the task at priority 5 never
blocks, so that the main task need not run any more; `ReceivePool` assumes that
it does.

Each property has a mutant in `PROJECT.json`, a plausible mistake in the code
under which TLC finds it violated.

## Findings

1. `usb_cdc_main.cpp:213`: a frame that ends at the last byte of the receive buffer
   stops the relaying for good (`device_stall`).
2. `serial_port_socket.cpp:38`, and the tun queue alike: a push while a write is
   under way writes the first packet twice (`write_overlap`), START_HOST too, which then reaches a device that
   runs (`NoStrayAnswer` excludes it by `crossed`); the pop may then
   free what an operation points to, and `handle_tun_write` may pop an empty deque.
3. `control_session.cpp:123`: an announcement that comes before the response is taken
   for it (`control_list`).
4. `usb_cdc_main.cpp:296`: a packet written just before START_HOST makes the device throw
   the answer away, and there is no other (`handshake_behind`).

Seen and not the subject of a run: a frame cut inside its header makes
`usb_cdc_main.cpp:185` wait for a length made of other bytes, which may be more than the
buffer holds, and then the task waits for ever with the buffer full, `espnow_uart_device.cpp:186`
likewise for a log (`StallNeedsCause` allows the first, and only for such lengths); `test_packet_to_send.cpp:18-19` asserts a size of 12
where `serialize`, with its 4 bytes of length, gives 16; `boot_time_` is never set,
so the uptime is that of the clock; `open` reports every failure as a file that does
not exist. `device_manager.cpp:7` adds a file that is added already, and
`DEVICE_ALREADY_EXISTS` (`control_messages.proto:13`) is never returned. The device name, ten
chars of which the tenth may be used, is made a string up to the first NUL. The firmware
says it speaks ESP-NOW V2, whose frames may be longer than a slot's `payload[250]`; of a frame
of the tap device beyond 512 bytes the rest is cut off, and one of more than 250 bytes of
payload is refused by an `esp_now_send` of V1. In `hello_world_main.c` the payload
"Message n" (`:149`) is never what `example_espnow_data_parse` looks for, so two such devices
broadcast for ever and never begin their unicasts; the queue is deleted (`:368`) before
the callbacks are taken down.

## Proofs

- `FrameRelayProofs!RelaySafe`: what the abstract relay hands on is in order
  (`InOrder`), each piece a stretch of the line (`Intact`), and of a
  reader that began at a frame and has met sound frames only nothing consumed is missing
  (`NothingLost`), whatever comes behind. The inductive invariant adds
  where the frames lie: they do not overlap, and as long as the frames met are sound the
  relay is at the start of one.
- `FrameStreamProofs`: lemmas about the buffer, one per operation: each keeps
  the indices in order and the unread bytes equal to the unread line.
- `DeviceDownlinkProofs`: `DeviceTypeOK` and `DeviceBufferHoldsStream` from one invariant,
  types, buffer contents and `RoomAtHeader`, that a waiting task at a whole header has
  room for the rest; `DeviceRefinesRelay`, each step is a step of `FrameRelay` or a
  stutter, by the buffer's contents; `DeviceNothingLost` from that and `RelaySafe`; and
  `DeviceStallNeedsCause` from `RoomAtHeader`, which leaves a wait at bytes that are no
  whole header, and `DeviceNothingLost`, by which a task that has met sound frames only is
  at a frame. Nothing is assumed there of the lengths read in place of a header.
- `HostUplinkProofs`: `HostTypeOK`, `HostRefinesRelay` and, with `RelaySafe`,
  `HostNothingLost`, by the lemmas of `FrameStreamProofs`; `HostTapGetsReceived` and
  `HostAnsweredOnce` from an invariant on what was handled and queued (`History`): all of it
  begins before the next byte to be handled, where the line no longer changes, and
  `requested_start_` says whether a START_DEVICE is in it.
- `ReceivePoolProofs`: `PoolTypeOK` and `PoolOneOwner`. The invariant adds that a
  leaked slot has no owner and a taken one holds a packet; `Owners` states it
  without sets of sets, which is the form the steps preserve. `PoolLeakBounded` counts: a
  slot leaks while the queue holds `QueueSize` others, so the free, the leaked and the held
  ones cannot be more than `Slots`. `PoolImplementsFifo` maps the slots in the queue
  to the packets in them; a send that was waiting is the newest of `Transit` and so is evicted
  or kept. `PoolPassedInOrder` adds that packets are numbered as they come.
- `HandshakeProofs`: `HandshakeTypeOK`, `HandshakeStuckNeedsCause` and
  `HandshakeNoStrayAnswer`. A step of the daemon pops or pushes and then starts a write, so the
  invariant is made of relations between values (`First`, `ToCome`, `One`) that either half
  keeps (`PerformKeeps`, `StartWritingKeeps`). `First`: an answer that was not written behind a packet
  is the first message on the line until the device takes it; `ToCome`: once requested it is in the queue
  until something became of it. `One`, for `NoStrayAnswer`: one answer at most is on the line
  and one in the queue, with one write of it at most, and once it was written it is queued
  only at the front, with no write under way on it, until its handler pops it.
- `FirmwareProofs!UartWifiGetsMutex`: while the callback waits, its ticks are no more
  than the writes the holder has done, and no other task can take the mutex when it is
  given. `UartTypeOK`, and `UartFramesTogether` from an invariant on the line (`LInv`):
  the pieces of the holder's frame are the end of the line, none of a frame that
  waits is there yet, and no two tasks have the same frame.
- `DaemonProofs`, the write queues: `QueueTypesHold`, `QueueNoIdleQueue`,
  `QueueNoOvertaking` and `QueueExactWhenAlone` from one invariant, `QInv`. What is in
  a queue are the last packets pushed, in order, so its front has a number even after
  pops that ran ahead; every write under way was started on the front of its time, so they
  are in order and none is beyond the front; and what was written is not beyond any write
  that still waits. `NoOvertaking` is not inductive without the last two. As long as no
  push met a write under way there is one write at most, and it is that of the front.
- `DaemonProofs`, the control plane: `ControlTypes`, `ControlLiveHandlers`,
  `ControlToldOfEveryDevice` and `ControlRefusalIsOwn`, for every set of clients, from `CInv`. It
  says of the dispatcher that its handlers are those of the live sessions in the order of
  ids and of sessions (`Subscribed`), and the lemmas under it follow `Subscribe`,
  `Unsubscribe` and `Called` through a sequence of any length: that what `unsubscribe`
  leaves is in order, is where the ranks in its definition are needed. With that, `publish`
  reaches each accepted client once, so the announcements on the way to it are those since it
  joined. A refusal needs that a request is read once and that a device is added by the
  request of its client.
- `DaemonProofs`, the messages, for every payload: a value is read as it was written
  (`ValueRoundTrip`), a packet is as long as its header claims (`PacketsSound`), the two ends
  invert each other (`PacketToSendRoundTrip`, `ReceivedPacketTaken`, `StartDeviceRoundTrip`),
  a reused slot is pushed as the packet it holds (`SlotPushesPacket`, for data of at most
  `Payload` bytes), a part of a packet waits for the rest (`PartWaitsForRest`), and the
  tap device's frames fit (`TapFrameFits`).

- `FirmwareProofs`, the example: `ExampleTypes`, `ExampleOneSendAtATime`,
  `ExampleUnicastsCounted` and `ExampleBlocksOwned`, for any peers, queue size, count and number of
  frames, from `EInv`. Each step adds one event to `Ahead`, takes one out of it, or leaves it as
  it is (`AheadOf...`), and three lemmas say what that does to the sends and the blocks
  (`Without...`). The invariant adds to the properties that there is at most one
  broadcast and one unicast ahead, the broadcast first (without this order the task
  could sleep after a unicast with the report of a broadcast still ahead), that the
  task sleeps only when nothing is ahead (so an event given up on a full queue is a frame's
  and takes its block along), that it never broadcasts and unicasts by its flags at once, and
  that blocks are numbered as frames come.

Assumptions: those on the constants, which TLC evaluates on the runs: `CapacityAssumption`,
`FramesAssumption`, `MaxBytesAssumption`, `ClaimsFit`, `HeaderAssumption`,
`HandshakeAssumption`, `UartAssumption`, `SizesAssumption`, `PayloadAssumption`,
`TunBytesAssumption`, `MaxPacketsAssumption`, `CommandsAssumption` (the set of clients is
finite) and `ExampleAssumption` (the broadcast address is no peer's, and the queue and the
count are not 0).

Every invariant, every action property and every refinement the passing runs check is a
theorem. What only TLC checks is liveness, which needs fairness and ENABLED, beyond the
provers here: `RelayedUnlessStalled`, `EveryMessageHandled`, `Drains`, `SlotFreedAgain`,
`HandshakeCompletes`, `PushEnds`, `CommandEnds` and `UnicastsEnd`. The loops of `buffer_utils`
are compared with `ReadValue` and `WriteValue` by TLC alone, as they are folds.

## Not modelled

`get_uptime`, `get_statistics` and what is printed; guards that are moved or dispatchers
called from their own handlers, which nothing does; `response_` shared by two writes of one
session, which takes a socket with tens of thousands of unread messages; the two ends of
the bridge composed in one state machine, since each direction is a stream of its own and
they meet only in the handshake, which `Handshake` has; initialisation of NVS, Wi-Fi
and ESP-NOW, which aborts or goes on; the test scripts. The drivers, `asio`, protobuf and
FreeRTOS are modelled by what the code uses of them.

## Plan

The order of the modules was that of what the system is for: the two directions of the
serial line, the packet pool and the write queues, the handshake, the mutex, the control
plane, the example, the formats; and of each, the runs before the proofs. All of it is
done: every module of the table above, the proofs of every safety property of the runs, and
three refinements proved. What could be added:

1. The composition of `ReceivePool` and `UartTx`, where the callback's log and the main
   loop's push meet at the mutex while the queue is full.
2. `ControlPlane` with a socket that can fill, for `response_`, and with reads that end inside
   a message.
3. More of what the formats promise: a log cut to its length, and `Processed` of a message
   of any kind.
