--------------------------- MODULE MessageFormats ---------------------------
(***************************************************************************)
(* The messages as bytes: buffer_utils and io of messages/, and the code   *)
(* of both ends that packs and unpacks them.  A uint8_t, uint16_t or       *)
(* uint32_t is the tuple of its bytes in the memory of a little-endian     *)
(* machine, as the ESP32-C3 and its hosts are.  A reader that keeps the    *)
(* rest of its span is given whole, as the fields at their offsets.        *)
(***************************************************************************)
EXTENDS Integers, Sequences

CONSTANTS Payload,          \* bytes of packet::payload: 250
          TunBytes          \* bytes of tun_fd_buffer_: 512

ASSUME PayloadAssumption == Payload \in Nat /\ Payload <= 65535
ASSUME TunBytesAssumption ==
  TunBytes \in Nat /\ 14 <= TunBytes /\ TunBytes <= 65535

Byte == 0 .. 255

START_DEVICE    == 0
LOG_INFO_UART   == 105      \* 'i'
RECEIVED_PACKET == 82       \* 'R'
PACKET_TO_SEND  == 83       \* 'S'

Lesser(a, b) == IF a <= b THEN a ELSE b

-----------------------------------------------------------------------------
\* The uint32_t n, and the number a uint32_t is.
Memory(n) == <<n % 256, (n \div 256) % 256, (n \div 65536) % 256,
               n \div 16777216>>
Number(v) == v[1] + 256 * (v[2] + 256 * (v[3] + 256 * v[4]))

\* htonl, htons, and ntohl, ntohs: the bytes in the other order.
HostToNetwork(value) == [i \in DOMAIN value |-> value[Len(value) + 1 - i]]

\* basic_buffer_utils<T>: the loops shift the bytes in and out, most
\* significant first, on the value in network order.
ReadValue(buffer, size) ==
  HostToNetwork([i \in 1 .. size |-> buffer[size + 1 - i]])
WriteValue(value) ==
  [i \in DOMAIN value |-> HostToNetwork(value)[Len(value) + 1 - i]]

-----------------------------------------------------------------------------
\* start_device, field after field, and the header it must have.
Header == <<101, 115, 112, 110, 111, 119, 111, 110,
            108, 105, 110, 117, 120>>         \* "espnowonlinux"
StartDeviceSize == 1 + 13 + 10 + 1 + 3 + 6

StartDevices ==
  [id : {START_DEVICE}, header : {Header}, device_name : [1 .. 10 -> Byte],
   version : Byte, fw_version : [1 .. 3 -> Byte],
   mac_address : [1 .. 6 -> Byte]]

WriteStartDevice(m) ==
  ((<<m.id>> \o m.header) \o (m.device_name \o <<m.version>>))
    \o (m.fw_version \o m.mac_address)

ReadStartDevice(b) ==
  [id |-> b[1], header |-> SubSeq(b, 2, 14),
   device_name |-> SubSeq(b, 15, 24), version |-> b[25],
   fw_version |-> SubSeq(b, 26, 28), mac_address |-> SubSeq(b, 29, 34)]

-----------------------------------------------------------------------------
\* packet_to_send and received_packet: id, mac, length, data.
Serialize(id, mac, data) ==
  (<<id>> \o mac) \o (HostToNetwork(Memory(Len(data))) \o data)

\* The bytes a packet's header declares; a sum beyond 32 bits is
\* DeviceDownlink's LengthWraps.
Claim(b) == 11 + Number(HostToNetwork(SubSeq(b, 8, 11)))

DeserializePacketToSend(b) ==
  LET length == Number(HostToNetwork(SubSeq(b, 8, 11)))
  IN  [destination_mac |-> SubSeq(b, 2, 7),
       data |-> SubSeq(b, 12, 11 + length)]

\* Of the span behind the id, no more than it holds.
DeserializeReceivedPacket(b) ==
  LET length == Number(HostToNetwork(SubSeq(b, 7, 10)))
  IN  [mac |-> SubSeq(b, 1, 6),
       data |-> SubSeq(b, 11, 10 + Lesser(length, Len(b) - 10))]

\* A log: its length and the text.
WriteLog(message) ==
  <<LOG_INFO_UART>> \o (HostToNetwork(Memory(Len(message))) \o message)
LogClaim(b) == 5 + Number(HostToNetwork(SubSeq(b, 2, 5)))

-----------------------------------------------------------------------------
(***************************************************************************)
(* From the tap device to esp_now_send.  The read takes no more of a frame *)
(* than tun_fd_buffer_ holds; a frame of another ethertype is passed over. *)
(***************************************************************************)
TunRead(frame) == SubSeq(frame, 1, Lesser(Len(frame), TunBytes))

IsEspnow(b) == HostToNetwork(SubSeq(b, 13, 14)) = <<181, 136>>   \* 0x88B5

TunReadHandle(b) ==
  IF IsEspnow(b)
  THEN Serialize(PACKET_TO_SEND, SubSeq(b, 1, 6), SubSeq(b, 15, Len(b)))
  ELSE <<>>

(***************************************************************************)
(* From the receive callback to the tap device: the slot is a packed       *)
(* packet, used again with what the last one left in its payload.  The     *)
(* callback writes data into it without a look at the length.              *)
(***************************************************************************)
Slots == [src_mac : [1 .. 6 -> Byte], payload_size : [1 .. 4 -> Byte],
          payload : [1 .. Payload -> Byte]]

Fill(slot, mac, data) ==
  [src_mac |-> mac, payload_size |-> Memory(Len(data)),
   payload |-> [i \in DOMAIN slot.payload |->
                  IF i <= Len(data) THEN data[i] ELSE slot.payload[i]]]

Pushed(slot) ==
  SubSeq((<<RECEIVED_PACKET>> \o slot.src_mac)
           \o (HostToNetwork(slot.payload_size) \o slot.payload),
         1, 11 + Number(slot.payload_size))

\* What handle_serial_packet returns for a RECEIVED_PACKET.
Processed(b) ==
  IF Len(b) < 11 THEN -1
  ELSE IF Number(HostToNetwork(SubSeq(b, 8, 11))) > Len(b) - 11 THEN -1
  ELSE 11 + Len(DeserializeReceivedPacket(SubSeq(b, 2, Len(b))).data)

\* The Ethernet frame it queues for the tap device.
EtherFrame(m) ==
  (<<255, 255, 255, 255, 255, 255>> \o m.mac) \o (<<136, 181>> \o m.data)
=============================================================================
