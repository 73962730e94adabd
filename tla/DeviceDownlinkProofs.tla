------------------------ MODULE DeviceDownlinkProofs ------------------------
(***************************************************************************)
(* jtag_receive_task, for every capacity, every set of frames and every    *)
(* way the line may cut them up.                                           *)
(***************************************************************************)
EXTENDS DeviceDownlink, FrameStreamProofs

\* At a frame whose header is whole the task has room for the rest.
RoomAtHeader ==
  pc = "read" /\ DataSize(buffer) > 0 /\ Legible(Front)
    => WritableSize(buffer) > 0

IInv == TypeOK /\ BufferHoldsStream /\ RoomAtHeader

LEMMA InvFacts == TypeOK /\ BufferHoldsStream => StreamInv
  BY DEF TypeOK, StreamInv

\* handle_packet_from_jtag never claims more than the buffer holds, and at a
\* frame whose header is whole what that declares.
LEMMA ResultFacts ==
  ASSUME StreamInv, NEW r \in HandlePacketFromJtag, DataSize(buffer) > 0
  PROVE  /\ r \in {-1, 0} \cup 1 .. DataSize(buffer)
         /\ Legible(Front) =>
              /\ r = 0 => frame_at[Front].claim = 0
              /\ r = -1 => DataSize(buffer) < frame_at[Front].claim
              /\ r > 0 => r = frame_at[Front].claim
  <1>1. DataSize(buffer) \in Nat
    BY StreamFacts
  <1>2. CASE Legible(Front)
    <2> DEFINE c == frame_at[Front].claim
    <2>1. c \in Nat
      BY <1>2, FramesAssumption DEF StreamInv, LineTypeOK, Legible
    <2>2. r = IF c = 0 THEN 0 ELSE IF DataSize(buffer) < c THEN -1 ELSE c
      BY <1>2 DEF HandlePacketFromJtag
    <2> HIDE DEF c
    <2>3. /\ r \in {-1, 0} \cup 1 .. DataSize(buffer)
          /\ r = 0 => c = 0
          /\ r = -1 => DataSize(buffer) < c
          /\ r > 0 => r = c
      BY <1>1, <2>1, <2>2
    <2> QED
      BY <2>3 DEF c
  <1>3. CASE ~Legible(Front)
    <2>1. r \in {-1, 0} \/ r \in HeaderSize .. DataSize(buffer)
      BY <1>3 DEF HandlePacketFromJtag, AnyLength
    <2> QED
      BY <1>1, <1>3, <2>1, HeaderAssumption
  <1> QED
    BY <1>2, <1>3

-----------------------------------------------------------------------------
LEMMA InitInv == Init => IInv
  <1> SUFFICES ASSUME Init PROVE IInv
    OBVIOUS
  <1>1. StreamInv /\ DataSize(buffer) = 0
    BY LineInitInv DEF Init
  <1> QED
    BY <1>1 DEF IInv, Init, TypeOK, StreamInv, RoomAtHeader

(***************************************************************************)
(* The handling of one message or the end of a pass over the buffer: what  *)
(* it does to the line, the buffer and the radio.                          *)
(***************************************************************************)
LEMMA RelayFacts ==
  ASSUME StreamInv, Relay
  PROVE  \E r \in 1 .. DataSize(buffer) :
           /\ StreamInv' /\ Front' = Front + r
           /\ radio' = Append(radio, Unread(r))
           /\ Legible(Front) => r = frame_at[Front].claim
  <1>1. PICK r \in HandlePacketFromJtag :
          /\ r > 0
          /\ radio' = Append(radio, Unread(r))
          /\ buffer' = Consume(buffer, r)
    BY DEF Relay, Unread
  <1>2. DataSize(buffer) > 0 /\ UNCHANGED <<line, pulled>>
    BY DEF Relay
  <1>3. /\ r \in 1 .. DataSize(buffer)
        /\ Legible(Front) => r = frame_at[Front].claim
    BY <1>1, <1>2, ResultFacts, StreamFacts
  <1>4. StreamInv' /\ Front' = Front + r
    BY <1>1, <1>2, <1>3, ConsumeInv
  <1> QED
    BY <1>1, <1>3, <1>4

\* To wait is to have room, if the length is what its writer declared.
LEMMA WaitFacts ==
  ASSUME StreamInv, WaitForRest
  PROVE  /\ StreamInv' /\ Front' = Front
         /\ Legible(Front) => WritableSize(buffer') > 0
  <1>1. /\ buffer' = MoveDataToFront(buffer)
        /\ UNCHANGED <<line, pulled>>
        /\ DataSize(buffer) > 0 /\ -1 \in HandlePacketFromJtag
    BY DEF WaitForRest
  <1>2. /\ StreamInv' /\ Front' = Front
        /\ WritableSize(buffer') = Capacity - DataSize(buffer)
    BY <1>1, MoveInv
  <1>3. ASSUME Legible(Front) PROVE DataSize(buffer) < Capacity
    <2>1. Front \in DOMAIN frame_at /\ frame_at[Front].claim # Unclear
      BY <1>3 DEF Legible
    <2>2. DataSize(buffer) < frame_at[Front].claim
      BY <1>1, <1>3, ResultFacts
    <2>3. frame_at[Front].claim \in Nat /\ frame_at[Front].claim <= Capacity
      BY <2>1, FramesAssumption, ClaimsFit DEF StreamInv, LineTypeOK
    <2> QED
      BY <2>2, <2>3, StreamFacts
  <1> QED
    BY <1>2, <1>3, StreamFacts

LEMMA DiscardFacts ==
  ASSUME StreamInv, Discard
  PROVE  StreamInv' /\ Front' = pulled /\ DataSize(buffer') = 0
  <1>1. buffer' = Reset(buffer) /\ UNCHANGED <<line, pulled>>
    BY DEF Discard
  <1>2. StreamInv' /\ Front' = pulled
    BY <1>1, ResetInv
  <1>3. DataSize(buffer') = 0
    <2>1. buffer \in Buffers
      BY DEF StreamInv, LineTypeOK
    <2> QED
      BY <1>1, <2>1 DEF Reset, DataSize, Buffers
  <1> QED
    BY <1>2, <1>3

-----------------------------------------------------------------------------
LEMMA StepInv == IInv /\ [Next]_vars => IInv'
  <1> SUFFICES ASSUME IInv, [Next]_vars PROVE IInv'
    OBVIOUS
  <1>1. /\ StreamInv /\ RoomAtHeader
        /\ pc \in {"read", "handle", "aborted"} /\ radio \in Seq(Seq(Int))
    BY InvFacts DEF IInv, TypeOK
  <1>2. ASSUME StreamInv', RoomAtHeader',
               pc' \in {"read", "handle", "aborted"}, radio' \in Seq(Seq(Int))
        PROVE  IInv'
    BY <1>2 DEF IInv, TypeOK, StreamInv
  <1>3. ASSUME NEW f \in Frames, HostWrite(f) PROVE IInv'
    <2>1. Write(f) /\ UNCHANGED <<pc, radio>>
      BY <1>3 DEF HostWrite
    <2>2. StreamInv' /\ Front' = Front /\ UNCHANGED buffer
      BY <1>1, <2>1, WriteInv DEF Write
    <2>3. DataSize(buffer) > 0 /\ Legible(Front)' => Legible(Front)
      <3> SUFFICES ASSUME DataSize(buffer) > 0, Legible(Front)'
                   PROVE  Legible(Front)
        OBVIOUS
      <3>1. Front # written
        BY <1>1, StreamFacts
      <3>2. frame_at' = [p \in DOMAIN frame_at \cup {written} |->
                           IF p = written THEN f ELSE frame_at[p]]
        BY <2>1 DEF Write
      <3> QED
        BY <2>2, <3>1, <3>2 DEF Legible
    <2>4. RoomAtHeader'
      BY <1>1, <2>1, <2>2, <2>3 DEF RoomAtHeader, DataSize, WritableSize
    <2> QED
      BY <1>1, <1>2, <2>1, <2>2, <2>4
  <1>4. CASE ReadJtag
    BY <1>1, <1>2, <1>4, ReadInv DEF ReadJtag, RoomAtHeader
  <1>5. CASE Drained
    <2>1. UNCHANGED <<line, pulled, buffer, radio>> /\ pc' = "read"
          /\ DataSize(buffer) = 0
      BY <1>5 DEF Drained
    <2>2. StreamInv' /\ DataSize(buffer') = 0
      BY <1>1, <2>1 DEF StreamInv, LineTypeOK, BufferHoldsStream, Front, line
    <2>3. ~(DataSize(buffer') > 0)
      BY <2>2
    <2> QED
      BY <1>1, <1>2, <2>1, <2>2, <2>3 DEF RoomAtHeader
  <1>6. CASE WaitForRest
    <2>1. /\ StreamInv' /\ Front' = Front
          /\ Legible(Front) => WritableSize(buffer') > 0
      BY <1>1, <1>6, WaitFacts
    <2>2. UNCHANGED <<line, pulled, radio>> /\ pc' = "read"
      BY <1>6 DEF WaitForRest
    <2>3. RoomAtHeader'
      BY <2>1, <2>2 DEF RoomAtHeader, Legible, line
    <2> QED
      BY <1>1, <1>2, <2>1, <2>2, <2>3
  <1>7. CASE Discard
    <2>1. StreamInv' /\ ~(DataSize(buffer') > 0)
      BY <1>1, <1>7, DiscardFacts
    <2> QED
      BY <1>1, <1>2, <1>7, <2>1 DEF RoomAtHeader, Discard
  <1>8. CASE Relay
    <2>1. PICK r \in 1 .. DataSize(buffer) :
            StreamInv' /\ radio' = Append(radio, Unread(r))
      BY <1>1, <1>8, RelayFacts
    <2>2. Unread(r) \in Seq(Int)
      <3>1. Unread(r) = [i \in 1 .. r |-> Front + i - 1]
        BY <1>1, UnreadFacts
      <3>2. r \in Nat /\ Front \in Nat
        BY <1>1, StreamFacts
      <3> QED
        BY <3>1, <3>2
    <2>3. pc = "handle" /\ pc' = pc
      BY <1>8 DEF Relay
    <2> QED
      BY <1>1, <1>2, <2>1, <2>2, <2>3 DEF RoomAtHeader
  <1>9. CASE LengthWraps
    <2>1. UNCHANGED <<line, pulled, buffer, radio>> /\ pc' = "aborted"
      BY <1>9 DEF LengthWraps
    <2>2. StreamInv'
      BY <1>1, <2>1 DEF StreamInv, LineTypeOK, BufferHoldsStream, Front, line
    <2> QED
      BY <1>1, <1>2, <2>1, <2>2 DEF RoomAtHeader
  <1>10. CASE UNCHANGED vars
    BY <1>1, <1>2, <1>10 DEF vars, StreamInv, LineTypeOK, BufferHoldsStream,
                             Front, RoomAtHeader, Legible
  <1> QED
    BY <1>3, <1>4, <1>5, <1>6, <1>7, <1>8, <1>9, <1>10 DEF Next, Handle

LEMMA Invariance == Spec => []IInv
  <1> QED
    BY InitInv, StepInv, PTL DEF Spec

(***************************************************************************)
(* The indices of the buffer stay within it.                               *)
(***************************************************************************)
THEOREM DeviceTypeOK == Spec => []TypeOK
  <1>1. IInv => TypeOK
    BY DEF IInv
  <1> QED
    BY <1>1, Invariance, PTL

(***************************************************************************)
(* The buffer holds the unread stretch of the line, whatever was moved,    *)
(* reset or consumed in it.                                                *)
(***************************************************************************)
THEOREM DeviceBufferHoldsStream == Spec => []BufferHoldsStream
  <1>1. IInv => BufferHoldsStream
    BY DEF IInv
  <1> QED
    BY <1>1, Invariance, PTL

-----------------------------------------------------------------------------
(* The task implements FrameRelay.                                         *)

LEMMA InitRefines == Init => Relaying!Init
  <1> SUFFICES ASSUME Init PROVE Relaying!Init
    OBVIOUS
  <1>1. LineInit /\ radio = <<>>
    BY DEF Init
  <1>2. Front = started_at
    BY <1>1, LineInitInv
  <1> QED
    BY <1>1, <1>2 DEF LineInit, Relaying!Init

LEMMA StepRefines ==
  IInv /\ [Next]_vars => [Relaying!Next]_(Relaying!vars)
  <1> SUFFICES ASSUME IInv, [Next]_vars
               PROVE  Relaying!Next \/ UNCHANGED Relaying!vars
    OBVIOUS
  <1>1. StreamInv
    BY InvFacts DEF IInv
  <1>2. ASSUME UNCHANGED line, Front' = Front, radio' = radio
        PROVE  UNCHANGED Relaying!vars
    BY <1>2 DEF line, Relaying!vars
  <1>3. ASSUME UNCHANGED line, ~Relaying!AtSoundFrame,
               Front' \in Front + 1 .. written,
               radio' \in {radio, Append(radio,
                                         Relaying!Bytes(Front, Front' - Front))}
        PROVE  Relaying!Next
    BY <1>3 DEF line, Relaying!Next, Relaying!Skip
  <1>4. ASSUME NEW f \in Frames, HostWrite(f) PROVE Relaying!Next
    <2>1. Front' = Front
      BY <1>1, <1>4, WriteInv DEF HostWrite
    <2> QED
      BY <1>4, <2>1 DEF HostWrite, Write, Relaying!Next, Relaying!Send
  <1>5. CASE ReadJtag
    BY <1>1, <1>2, <1>5, ReadInv DEF ReadJtag, Read
  <1>6. CASE Drained \/ LengthWraps
    BY <1>2, <1>6 DEF Drained, LengthWraps, Front
  <1>7. CASE WaitForRest
    BY <1>1, <1>2, <1>7, WaitFacts DEF WaitForRest
  <1>8. CASE Discard
    <2>1. /\ Front' = pulled /\ UNCHANGED <<line, radio>>
          /\ DataSize(buffer) > 0 /\ 0 \in HandlePacketFromJtag
      BY <1>1, <1>8, DiscardFacts DEF Discard
    <2>2. Front' \in Front + 1 .. written
      BY <1>1, <2>1, StreamFacts
    <2>3. ~Relaying!AtSoundFrame
      <3> SUFFICES ASSUME Relaying!AtSoundFrame PROVE FALSE
        OBVIOUS
      <3>1. /\ Front \in DOMAIN frame_at
            /\ frame_at[Front].claim = frame_at[Front].size
        BY DEF Relaying!AtSoundFrame, Relaying!Sound
      <3>2. frame_at[Front].size \in Nat \ {0}
        BY <1>1, <3>1, FramesAssumption DEF StreamInv, LineTypeOK
      <3>3. Legible(Front)
        BY <3>1, <3>2 DEF Legible, Unclear
      <3>4. frame_at[Front].claim = 0
        BY <1>1, <2>1, <3>3, ResultFacts
      <3> QED
        BY <3>1, <3>2, <3>4
    <2> QED
      BY <1>3, <2>1, <2>2, <2>3
  <1>9. CASE Relay
    <2>1. PICK r \in 1 .. DataSize(buffer) :
            /\ StreamInv' /\ Front' = Front + r
            /\ radio' = Append(radio, Unread(r))
            /\ Legible(Front) => r = frame_at[Front].claim
      BY <1>1, <1>9, RelayFacts
    <2>2. UNCHANGED line
      BY <1>9 DEF Relay
    <2>3. r = Front' - Front /\ Front' \in Front + 1 .. written
      BY <1>1, <2>1, StreamFacts, SMTT(40)
    <2>4. Unread(r) = Relaying!Bytes(Front, r)
      BY <1>1, UnreadFacts DEF Relaying!Bytes
    <2>5. CASE Relaying!AtSoundFrame
      <3>1. r = frame_at[Front].size
        <4>1. /\ Front \in DOMAIN frame_at
              /\ frame_at[Front].claim = frame_at[Front].size
          BY <2>5 DEF Relaying!AtSoundFrame, Relaying!Sound
        <4>2. frame_at[Front].size \in Nat \ {0}
          BY <1>1, <4>1, FramesAssumption DEF StreamInv, LineTypeOK
        <4>3. Legible(Front)
          BY <4>1, <4>2 DEF Legible, Unclear
        <4> QED
          BY <2>1, <4>1, <4>3
      <3>2. /\ Front' = Front + frame_at[Front].size
            /\ Front' <= written
            /\ radio' = Append(radio,
                               Relaying!Bytes(Front, frame_at[Front].size))
        BY <1>1, <2>1, <2>3, <2>4, <3>1, StreamFacts, SMTT(40)
      <3> QED
        BY <2>2, <2>5, <3>2 DEF line, Relaying!Next, Relaying!Deliver
    <2>6. CASE ~Relaying!AtSoundFrame
      BY <1>3, <2>1, <2>2, <2>3, <2>4, <2>6
    <2> QED
      BY <2>5, <2>6
  <1>10. CASE UNCHANGED vars
    BY <1>2, <1>10 DEF vars, line, Front
  <1> QED
    BY <1>4, <1>5, <1>6, <1>7, <1>8, <1>9, <1>10 DEF Next, Handle

(***************************************************************************)
(* esp_now_send gets what FrameRelay promises.                             *)
(***************************************************************************)
THEOREM DeviceRefinesRelay == Spec => RelaySpec
  <1> QED
    BY InitRefines, StepRefines, Invariance, PTL
       DEF Spec, RelaySpec, Relaying!Spec

RelayProofs == INSTANCE FrameRelayProofs WITH delivered <- Front, out <- radio

(***************************************************************************)
(* A task that began at a frame has given every frame it consumed to       *)
(* esp_now_send, while it has met sound frames only.                       *)
(***************************************************************************)
THEOREM DeviceNothingLost == Spec => []NothingLost
  <1>1. RelayProofs!FramesOK
    BY FramesAssumption DEF RelayProofs!FramesOK
  <1>2. RelayProofs!Spec =>
          [](RelayProofs!InOrder /\ RelayProofs!Intact
               /\ RelayProofs!NothingLost)
    BY <1>1, RelayProofs!RelaySafe
  <1>3. Init => RelayProofs!Init
    BY InitRefines DEF Relaying!Init, RelayProofs!Init
  <1>4. IInv /\ [Next]_vars => [RelayProofs!Next]_(RelayProofs!vars)
    BY StepRefines
       DEF Relaying!Next, RelayProofs!Next, Relaying!vars, RelayProofs!vars,
           Relaying!Send, RelayProofs!Send, Relaying!Deliver,
           RelayProofs!Deliver, Relaying!Skip, RelayProofs!Skip,
           Relaying!AtSoundFrame, RelayProofs!AtSoundFrame,
           Relaying!Sound, RelayProofs!Sound, Relaying!Bytes,
           RelayProofs!Bytes
  <1>5. RelayProofs!NothingLost => NothingLost
    BY DEF NothingLost, RelayProofs!NothingLost, Relaying!NothingLost,
           RelayProofs!Boundary, Relaying!Boundary, RelayProofs!Sound,
           Relaying!Sound, RelayProofs!Bytes, Relaying!Bytes
  <1> QED
    BY <1>2, <1>3, <1>4, <1>5, Invariance, PTL DEF Spec, RelayProofs!Spec

(***************************************************************************)
(* The task faces a read with no room only if it has drained the buffer at *)
(* its last cell, or waits for a length that no writer declared; and then  *)
(* it began inside a frame or has met an unsound one, for on sound frames  *)
(* it is in step (NothingLost).                                            *)
(***************************************************************************)
THEOREM DeviceStallNeedsCause == Spec => []StallNeedsCause
  <1>1. IInv /\ NothingLost => StallNeedsCause
    <2> SUFFICES ASSUME IInv, NothingLost,
                        pc = "read", WritableSize(buffer) = 0,
                        DataSize(buffer) # 0
                 PROVE  /\ ~Legible(Front)
                        /\ Boundary(started_at) =>
                             \E p \in DOMAIN frame_at :
                               p \in started_at .. Front /\ ~Sound(frame_at[p])
      BY DEF StallNeedsCause
    <2>1. StreamInv /\ RoomAtHeader
      BY InvFacts DEF IInv
    <2>2. DataSize(buffer) > 0 /\ ~(WritableSize(buffer) > 0)
      BY <2>1, StreamFacts
    <2>3. ~Legible(Front)
      BY <2>1, <2>2 DEF RoomAtHeader
    <2>4. ASSUME Boundary(started_at),
                 \A p \in DOMAIN frame_at :
                   p \in started_at .. Front => Sound(frame_at[p])
          PROVE  FALSE
      <3>1. /\ Front \in started_at .. Front /\ Front # written
            /\ started_at .. Front - 1 \subseteq started_at .. Front
        BY <2>1, <2>2, StreamFacts
      <3>2. Boundary(Front)
        BY <2>4, <3>1 DEF NothingLost, Relaying!NothingLost, Boundary,
                          Relaying!Boundary, Sound, Relaying!Sound
      <3>3. Front \in DOMAIN frame_at /\ Sound(frame_at[Front])
        BY <2>4, <3>1, <3>2 DEF Boundary
      <3>4. frame_at[Front].size \in Nat \ {0}
        BY <2>1, <3>3, FramesAssumption DEF StreamInv, LineTypeOK
      <3>5. Legible(Front)
        BY <3>3, <3>4 DEF Legible, Sound, Unclear
      <3> QED
        BY <2>3, <3>5
    <2> QED
      BY <2>3, <2>4
  <1> QED
    BY <1>1, Invariance, DeviceNothingLost, PTL
=============================================================================
