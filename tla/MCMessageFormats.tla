-------------------------- MODULE MCMessageFormats --------------------------
(***************************************************************************)
(* The formats evaluated on a few messages, and the loops of buffer_utils  *)
(* against what ReadValue and WriteValue say of them.                      *)
(***************************************************************************)
EXTENDS MessageFormats

LOCAL INSTANCE SequencesExt

\* value <<= 8; value |= buffer[i]
ReadLoop(buffer, size, value) ==
  HostToNetwork(FoldLeft(LAMBDA v, x : <<x>> \o SubSeq(v, 1, size - 1),
                         value, SubSeq(buffer, 1, size)))

\* buffer[sizeof(T) - 1 - i] = value & 0xFF; value >>= 8
WriteLoop(value) ==
  FoldLeft(LAMBDA out, x : <<x>> \o out, <<>>, HostToNetwork(value))

SomeBytes == {0, 1, 82, 181, 255}
SomeMac == <<17, 34, 51, 68, 85, 102>>
SomeData == UNION {[1 .. n -> {0, 255}] : n \in {0, 1, 3}}
EmptySlot == [src_mac |-> SomeMac, payload_size |-> Memory(7),
              payload |-> [i \in 1 .. Payload |-> 9]]

ASSUME LoopsAgree ==
  \A size \in {1, 2, 4} : \A value \in [1 .. size -> SomeBytes] :
    /\ WriteValue(value) = WriteLoop(value)
    /\ \A old \in [1 .. size -> {0, 255}] :
         ReadValue(value, size) = ReadLoop(value, size, old)

ASSUME MessagesAgree ==
  \A data \in SomeData :
    LET sent  == Serialize(PACKET_TO_SEND, SomeMac, data)
        heard == Pushed(Fill(EmptySlot, SomeMac, data))
        frame == SomeMac \o SomeMac \o <<136, 181>> \o data
    IN  /\ Claim(sent) = Len(sent)
        /\ DeserializePacketToSend(sent)
             = [destination_mac |-> SomeMac, data |-> data]
        /\ heard = Serialize(RECEIVED_PACKET, SomeMac, data)
        /\ Processed(heard) = Len(heard)
        /\ EtherFrame(DeserializeReceivedPacket(Tail(heard)))
             = <<255, 255, 255, 255, 255, 255>> \o SomeMac
                 \o <<136, 181>> \o data
        /\ TunReadHandle(TunRead(frame)) = sent
        /\ TunReadHandle([frame EXCEPT ![14] = 6]) = <<>>
        /\ LogClaim(WriteLog(data)) = Len(WriteLog(data))

ASSUME StartDeviceAgrees ==
  \A name \in [1 .. 10 -> {0, 65}] :
    LET m == [id |-> START_DEVICE, header |-> Header, device_name |-> name,
              version |-> 2, fw_version |-> <<0, 1, 0>>,
              mac_address |-> SomeMac]
    IN  /\ Len(WriteStartDevice(m)) = StartDeviceSize
        /\ ReadStartDevice(WriteStartDevice(m) \o SomeMac) = m
=============================================================================
