-------------------------- MODULE HostUplinkProofs --------------------------
(***************************************************************************)
(* The daemon's read handler, for every capacity, every set of messages    *)
(* and every way the tty may cut them up.                                  *)
(***************************************************************************)
EXTENDS HostUplink, FrameStreamProofs

IInv == TypeOK /\ BufferHoldsStream

LEMMA InvFacts == IInv => StreamInv
  BY DEF IInv, TypeOK, StreamInv

\* handle_serial_packet never claims more than the buffer holds, takes what
\* begins at its front for the message that it is, and of a message whose
\* writer made the header exactly what that declares.
LEMMA OutcomeFacts ==
  ASSUME StreamInv, NEW o \in Outcomes, DataSize(buffer) > 0
  PROVE  /\ o.processed \in {-1} \cup 1 .. DataSize(buffer)
         /\ Front \notin DOMAIN frame_at =>
              o.kind \in {"STRAY", "RECEIVED_PACKET"}
         /\ Front \in DOMAIN frame_at =>
              /\ o.kind = frame_at[Front].kind
              /\ o.kind = "TEXT" <=> frame_at[Front].claim = 0
              /\ Legible(Front) /\ o.kind # "TEXT" /\ o.processed > 0 =>
                   o.processed = frame_at[Front].claim
  <1>1. DataSize(buffer) \in Nat
    BY StreamFacts
  <1>2. CASE Legible(Front)
    <2> DEFINE c == frame_at[Front].claim
               k == frame_at[Front].kind
               p == IF k = "TEXT" THEN DataSize(buffer)
                    ELSE IF DataSize(buffer) < c THEN -1 ELSE c
    <2>1. c \in Nat /\ (k = "TEXT" <=> c = 0)
      BY <1>2, FramesAssumption, HeaderAssumption
         DEF StreamInv, LineTypeOK, Legible
    <2>2. o = [kind |-> k, processed |-> p]
      BY <1>2 DEF Outcomes
    <2>3. o.kind = k /\ o.processed = p
      BY <2>2
    <2> HIDE DEF c, k
    <2>4. /\ p \in {-1} \cup 1 .. DataSize(buffer)
          /\ k # "TEXT" /\ p > 0 => p = c
      BY <1>1, <2>1
    <2> HIDE DEF p
    <2> QED
      BY <1>2, <2>1, <2>3, <2>4 DEF c, k, Legible
  <1>3. CASE Front \in DOMAIN frame_at /\ ~Legible(Front)
    <2> DEFINE c == frame_at[Front].claim
               k == frame_at[Front].kind
    <2>1. /\ c = Unclear /\ k \in DOMAIN LeastLength
          /\ (k = "TEXT" <=> c = 0)
      BY <1>3, HeaderAssumption DEF StreamInv, LineTypeOK, Legible
    <2>2. c # 0
      BY <2>1 DEF Unclear
    <2>3. /\ o.kind = k
          /\ o.processed \in {-1} \cup (LeastLength[k] .. DataSize(buffer))
      BY <1>3 DEF Outcomes
    <2>4. LeastLength[k] \in Nat \ {0}
      BY <2>1, HeaderAssumption DEF LeastLength
    <2> DEFINE n == LeastLength[k]
    <2> HIDE DEF c, k, n
    <2>5. n \in Nat \ {0}
          /\ o.processed \in {-1} \cup (n .. DataSize(buffer))
      BY <2>3, <2>4 DEF n
    <2>6. o.processed \in {-1} \cup 1 .. DataSize(buffer)
      BY <1>1, <2>5
    <2> QED
      BY <1>3, <2>1, <2>2, <2>3, <2>6 DEF c, k
  <1>4. CASE Front \notin DOMAIN frame_at
    <2>1. /\ o.kind \in {"STRAY", "RECEIVED_PACKET"}
          /\ \/ o.processed \in {-1} \cup 1 .. DataSize(buffer)
             \/ o.processed \in HeaderSize .. DataSize(buffer)
      BY <1>4 DEF Outcomes, Legible
    <2> QED
      BY <1>1, <1>4, <2>1, HeaderAssumption DEF Legible
  <1> QED
    BY <1>2, <1>3, <1>4

\* The messages and bytes of a step of the handler.
LEMMA TakeFacts ==
  ASSUME StreamInv, Take
  PROVE  \E o \in Outcomes :
           /\ o.processed \in 1 .. DataSize(buffer)
           /\ Act(o.kind, Unread(o.processed))
           /\ handled' = IF o.kind = "TEXT" THEN handled
                         ELSE Append(handled, Unread(o.processed))
           /\ StreamInv' /\ Front' = Front + o.processed
           /\ Unread(o.processed) = [i \in 1 .. o.processed |-> Front + i - 1]
           /\ Unread(o.processed) \in Seq(Int)
           /\ Len(Unread(o.processed)) = o.processed
           /\ Unread(o.processed)[1] = Front
  <1>1. /\ DataSize(buffer) > 0
        /\ UNCHANGED <<line, pulled>>
    BY DEF Take
  <1>2. PICK o \in Outcomes :
          /\ o.processed > 0
          /\ Act(o.kind, Unread(o.processed))
          /\ handled' = IF o.kind = "TEXT" THEN handled
                        ELSE Append(handled, Unread(o.processed))
          /\ buffer' = Consume(buffer, o.processed)
    BY DEF Take
  <1> DEFINE r == o.processed
  <1>3. r \in 1 .. DataSize(buffer)
    BY <1>1, <1>2, OutcomeFacts
  <1>4. StreamInv' /\ Front' = Front + r
    BY <1>1, <1>2, <1>3, ConsumeInv
  <1>5. Unread(r) = [i \in 1 .. r |-> Front + i - 1]
    BY <1>3, UnreadFacts
  <1>6. r \in Nat \ {0} /\ Front \in Nat
    BY <1>3, StreamFacts
  <1>7. /\ Unread(r) \in Seq(Int) /\ Len(Unread(r)) = r
        /\ Unread(r)[1] = Front
    <2> HIDE DEF r
    <2> QED
      BY <1>5, <1>6
  <1> QED
    BY <1>2, <1>3, <1>4, <1>5, <1>7

\* What a taken message does to the rest of the state keeps its types.
LEMMA ActTypes ==
  ASSUME TypeOK, NEW kind, NEW message \in Seq(Int), Act(kind, message)
  PROVE  /\ requested_start' \in BOOLEAN
         /\ to_tun' \in Seq(Seq(Int))
         /\ broadcast_received' \in Nat
         /\ answered' \in Seq({"start_host", "new_device_event"})
  <1>1. /\ to_tun \in Seq(Seq(Int)) /\ broadcast_received \in Nat
        /\ answered \in Seq({"start_host", "new_device_event"})
    BY DEF TypeOK
  <1>2. requested_start' \in BOOLEAN
    <2>1. requested_start' = (requested_start \/ kind = "START_DEVICE")
      BY DEF Act
    <2>2. CASE requested_start \/ kind = "START_DEVICE"
      BY <2>1, <2>2
    <2>3. CASE ~(requested_start \/ kind = "START_DEVICE")
      BY <2>1, <2>3
    <2> QED
      BY <2>2, <2>3
  <1>3. to_tun' \in Seq(Seq(Int)) /\ broadcast_received' \in Nat
    <2>1. CASE kind = "RECEIVED_PACKET"
      <3>1. /\ to_tun' = Append(to_tun, message)
            /\ broadcast_received' = broadcast_received + 1
        BY <2>1 DEF Act
      <3> QED
        BY <1>1, <3>1
    <2>2. CASE kind # "RECEIVED_PACKET"
      BY <1>1, <2>2 DEF Act
    <2> QED
      BY <2>1, <2>2
  <1>4. answered' \in Seq({"start_host", "new_device_event"})
    <2> DEFINE A == {"start_host", "new_device_event"}
    <2>1. <<"start_host", "new_device_event">> \in Seq(A)
      OBVIOUS
    <2>2. answered' \in {answered,
                         answered \o <<"start_host", "new_device_event">>}
      BY DEF Act
    <2>3. answered \o <<"start_host", "new_device_event">> \in Seq(A)
      <3> HIDE DEF A
      <3>1. answered \in Seq(A)
        BY <1>1 DEF A
      <3> QED
        BY <2>1, <3>1
    <2> QED
      BY <1>1, <2>2, <2>3
  <1> QED
    BY <1>2, <1>3, <1>4

-----------------------------------------------------------------------------
LEMMA InitInv == Init => IInv
  <1> SUFFICES ASSUME Init PROVE IInv
    OBVIOUS
  <1>1. StreamInv
    BY LineInitInv DEF Init
  <1>2. <<>> \in Seq(Seq(Int))
        /\ <<>> \in Seq({"start_host", "new_device_event"})
    OBVIOUS
  <1> QED
    BY <1>1, <1>2 DEF IInv, Init, TypeOK, StreamInv

LEMMA StepInv == IInv /\ [Next]_vars => IInv'
  <1> SUFFICES ASSUME IInv, [Next]_vars PROVE IInv'
    OBVIOUS
  <1> DEFINE PcOK == pc \in {"reading", "handling", "stopped", "undefined"}
             EffectsOK == /\ requested_start \in BOOLEAN
                          /\ handled \in Seq(Seq(Int))
                          /\ to_tun \in Seq(Seq(Int))
                          /\ broadcast_received \in Nat
                          /\ answered \in Seq({"start_host",
                                               "new_device_event"})
  <1>1. StreamInv /\ PcOK /\ EffectsOK
    BY InvFacts DEF IInv, TypeOK
  <1>2. ASSUME StreamInv', PcOK', EffectsOK' PROVE IInv'
    BY <1>2 DEF IInv, TypeOK, StreamInv
  <1>3. ASSUME UNCHANGED effects PROVE EffectsOK'
    BY <1>1, <1>3 DEF effects
  <1> HIDE DEF EffectsOK
  <1>4. ASSUME UNCHANGED <<line, pulled, buffer>> PROVE StreamInv'
    BY <1>1, <1>4 DEF StreamInv, LineTypeOK, BufferHoldsStream, Front, line
  <1>5. ASSUME NEW f \in Frames, DeviceWrite(f) PROVE IInv'
    BY <1>1, <1>2, <1>3, <1>5, WriteInv DEF DeviceWrite
  <1>6. CASE SerialRead
    BY <1>1, <1>2, <1>3, <1>6, ReadInv DEF SerialRead
  <1>7. CASE ReadError
    BY <1>1, <1>2, <1>3, <1>4, <1>7 DEF ReadError
  <1>8. CASE ReadOn
    BY <1>1, <1>2, <1>3, <1>8, MoveInv DEF ReadOn
  <1>9. CASE Take
    <2>1. PICK o \in Outcomes :
            /\ Act(o.kind, Unread(o.processed))
            /\ handled' = IF o.kind = "TEXT" THEN handled
                          ELSE Append(handled, Unread(o.processed))
            /\ StreamInv'
            /\ Unread(o.processed) \in Seq(Int)
      BY <1>1, <1>9, TakeFacts
    <2> DEFINE message == Unread(o.processed)
    <2>2. handled' \in Seq(Seq(Int))
      BY <1>1, <2>1 DEF EffectsOK
    <2>3. EffectsOK'
      BY <2>1, <2>2, ActTypes DEF EffectsOK, IInv
    <2>4. PcOK'
      BY <1>1, <1>9 DEF Take
    <2> QED
      BY <1>2, <2>1, <2>3, <2>4
  <1>10. CASE TunBufferOverrun
    BY <1>1, <1>2, <1>3, <1>4, <1>10 DEF TunBufferOverrun
  <1>11. CASE UNCHANGED vars
    BY <1>1, <1>2, <1>3, <1>4, <1>11 DEF vars, line
  <1> QED
    BY <1>5, <1>6, <1>7, <1>8, <1>9, <1>10, <1>11 DEF Next, Handle

LEMMA Invariance == Spec => []IInv
  <1> QED
    BY InitInv, StepInv, PTL DEF Spec

(***************************************************************************)
(* The types, with the indices of the buffer within it.                    *)
(***************************************************************************)
THEOREM HostTypeOK == Spec => []TypeOK
  <1>1. IInv => TypeOK
    BY DEF IInv
  <1> QED
    BY <1>1, Invariance, PTL

-----------------------------------------------------------------------------
(* The handler implements FrameRelay.                                      *)

LEMMA InitRefines == Init => Handling!Init
  <1> SUFFICES ASSUME Init PROVE Handling!Init
    OBVIOUS
  <1>1. LineInit /\ handled = <<>>
    BY DEF Init
  <1>2. Front = started_at
    BY <1>1, LineInitInv
  <1> QED
    BY <1>1, <1>2 DEF LineInit, Handling!Init

LEMMA TakeRefines ==
  ASSUME StreamInv, Take
  PROVE  Handling!Next
  <1>1. PICK o \in Outcomes :
          /\ o.processed \in 1 .. DataSize(buffer)
          /\ handled' = IF o.kind = "TEXT" THEN handled
                        ELSE Append(handled, Unread(o.processed))
          /\ Front' = Front + o.processed
          /\ Unread(o.processed) = [i \in 1 .. o.processed |-> Front + i - 1]
    BY TakeFacts
  <1> DEFINE r == o.processed
  <1>2. DataSize(buffer) > 0 /\ UNCHANGED line
    BY DEF Take
  <1>3. /\ r = Front' - Front /\ Front' \in Front + 1 .. written
        /\ r > 0
    BY <1>1, StreamFacts
  <1>4. Unread(r) = Handling!Bytes(Front, r)
    BY <1>1 DEF Handling!Bytes
  <1>5. CASE Handling!AtSoundFrame
    <2>1. /\ Front \in DOMAIN frame_at
          /\ frame_at[Front].claim = frame_at[Front].size
      BY <1>5 DEF Handling!AtSoundFrame, Handling!Sound
    <2>2. frame_at[Front].size \in Nat \ {0}
      BY <2>1, FramesAssumption DEF StreamInv, LineTypeOK
    <2>3. o.kind # "TEXT" /\ r = frame_at[Front].size
      <3>1. Legible(Front) /\ frame_at[Front].claim # 0
        BY <2>1, <2>2 DEF Legible, Unclear
      <3> QED
        BY <1>2, <1>3, <2>1, <3>1, OutcomeFacts
    <2>4. /\ Front' = Front + frame_at[Front].size
          /\ Front' <= written
          /\ handled' = Append(handled,
                               Handling!Bytes(Front, frame_at[Front].size))
      <3>1. Front' = Front + frame_at[Front].size /\ Front' <= written
        <4>1. Front' <= written
          BY <1>3, StreamFacts
        <4>2. Front' = Front + r
          BY <1>1
        <4> HIDE DEF r
        <4> QED
          BY <2>3, <4>1, <4>2
      <3>2. handled' = Append(handled, Unread(r))
        BY <1>1, <2>3
      <3> QED
        BY <1>4, <2>3, <3>1, <3>2
    <2> QED
      BY <1>2, <1>5, <2>4 DEF line, Handling!Next, Handling!Deliver
  <1>6. CASE ~Handling!AtSoundFrame
    <2>1. handled' \in {handled,
                        Append(handled, Handling!Bytes(Front, Front' - Front))}
      BY <1>1, <1>3, <1>4
    <2> QED
      BY <1>2, <1>3, <1>6, <2>1 DEF line, Handling!Next, Handling!Skip
  <1> QED
    BY <1>5, <1>6

LEMMA StepRefines ==
  IInv /\ [Next]_vars => [Handling!Next]_(Handling!vars)
  <1> SUFFICES ASSUME IInv, [Next]_vars
               PROVE  Handling!Next \/ UNCHANGED Handling!vars
    OBVIOUS
  <1>1. StreamInv
    BY InvFacts
  <1>2. ASSUME UNCHANGED line, Front' = Front, handled' = handled
        PROVE  UNCHANGED Handling!vars
    BY <1>2 DEF line, Handling!vars
  <1>3. ASSUME NEW f \in Frames, DeviceWrite(f) PROVE Handling!Next
    <2>1. Front' = Front
      BY <1>1, <1>3, WriteInv DEF DeviceWrite
    <2> QED
      BY <1>3, <2>1
         DEF DeviceWrite, Write, effects, Handling!Next, Handling!Send
  <1>4. CASE SerialRead
    BY <1>1, <1>2, <1>4, ReadInv DEF SerialRead, Read, effects
  <1>5. CASE ReadError \/ TunBufferOverrun
    BY <1>2, <1>5 DEF ReadError, TunBufferOverrun, effects, Front
  <1>6. CASE ReadOn
    BY <1>1, <1>2, <1>6, MoveInv DEF ReadOn, effects
  <1>7. CASE Take
    BY <1>1, <1>7, TakeRefines
  <1>8. CASE UNCHANGED vars
    BY <1>2, <1>8 DEF vars, line, effects, Front
  <1> QED
    BY <1>3, <1>4, <1>5, <1>6, <1>7, <1>8 DEF Next, Handle

(***************************************************************************)
(* handle_serial_packet gets what FrameRelay promises.                     *)
(***************************************************************************)
THEOREM HostRefinesRelay == Spec => HandlingSpec
  <1> QED
    BY InitRefines, StepRefines, Invariance, PTL
       DEF Spec, HandlingSpec, Handling!Spec

RelayProofs == INSTANCE FrameRelayProofs WITH delivered <- Front, out <- handled

(***************************************************************************)
(* A daemon that began at a frame has handled every message it consumed,   *)
(* while it has met sound frames only.                                     *)
(***************************************************************************)
THEOREM HostNothingLost == Spec => []NothingLost
  <1>1. RelayProofs!FramesOK
    BY FramesAssumption DEF RelayProofs!FramesOK
  <1>2. RelayProofs!Spec =>
          [](RelayProofs!InOrder /\ RelayProofs!Intact
               /\ RelayProofs!NothingLost)
    BY <1>1, RelayProofs!RelaySafe
  <1>3. Init => RelayProofs!Init
    BY InitRefines DEF Handling!Init, RelayProofs!Init
  <1>4. IInv /\ [Next]_vars => [RelayProofs!Next]_(RelayProofs!vars)
    BY StepRefines
       DEF Handling!Next, RelayProofs!Next, Handling!vars, RelayProofs!vars,
           Handling!Send, RelayProofs!Send, Handling!Deliver,
           RelayProofs!Deliver, Handling!Skip, RelayProofs!Skip,
           Handling!AtSoundFrame, RelayProofs!AtSoundFrame,
           Handling!Sound, RelayProofs!Sound, Handling!Bytes,
           RelayProofs!Bytes
  <1>5. RelayProofs!NothingLost => NothingLost
    BY DEF NothingLost, RelayProofs!NothingLost, Handling!NothingLost,
           RelayProofs!Boundary, Handling!Boundary, RelayProofs!Sound,
           Handling!Sound, RelayProofs!Bytes, Handling!Bytes
  <1> QED
    BY <1>2, <1>3, <1>4, <1>5, Invariance, PTL DEF Spec, RelayProofs!Spec

-----------------------------------------------------------------------------
(* What became of the messages.  The history speaks of frames by the place *)
(* they begin at, all of them behind the reader, where the line no longer  *)
(* changes.                                                                *)

IsA(p, kind) == p \in DOMAIN frame_at /\ frame_at[p].kind = kind

AskedFor == \E k \in 1 .. Len(handled) : IsA(handled[k][1], "START_DEVICE")

\* The messages begin before Front.
Past(messages) ==
  \A k \in 1 .. Len(messages) :
    messages[k][1] \in Int /\ messages[k][1] < Front

PacketsQueued ==
  /\ Len(to_tun) = broadcast_received
  /\ \A k \in 1 .. Len(handled) :
       IsA(handled[k][1], "RECEIVED_PACKET") =>
         \E j \in 1 .. Len(to_tun) : to_tun[j] = handled[k]
  /\ \A j, k \in 1 .. Len(to_tun) : j < k => to_tun[j][1] < to_tun[k][1]

Answered ==
  /\ requested_start <=> AskedFor
  /\ answered = IF requested_start THEN <<"start_host", "new_device_event">>
                ELSE <<>>

History == Past(handled) /\ Past(to_tun) /\ PacketsQueued /\ Answered

LEMMA HistoryFacts == History => TapGetsReceived /\ AnsweredOnce
  <1> SUFFICES ASSUME History PROVE TapGetsReceived /\ AnsweredOnce
    OBVIOUS
  <1>1. TapGetsReceived
    BY DEF History, PacketsQueued, IsA, TapGetsReceived
  <1>2. AnsweredOnce
    BY DEF History, Answered, AskedFor, IsA, AnsweredOnce
  <1> QED
    BY <1>1, <1>2

\* A step other than Take leaves the history alone, and no step changes
\* what begins behind the reader.
LEMMA OtherSteps ==
  ASSUME StreamInv, [Next]_vars, ~Take
  PROVE  UNCHANGED effects /\ Front' = Front
  <1>1. ASSUME NEW f \in Frames, DeviceWrite(f)
        PROVE  UNCHANGED effects /\ Front' = Front
    BY <1>1, WriteInv DEF DeviceWrite
  <1>2. CASE SerialRead
    BY <1>2, ReadInv DEF SerialRead
  <1>3. CASE ReadError \/ TunBufferOverrun
    BY <1>3 DEF ReadError, TunBufferOverrun, Front
  <1>4. CASE ReadOn
    BY <1>4, MoveInv DEF ReadOn
  <1>5. CASE UNCHANGED vars
    BY <1>5 DEF vars, Front
  <1> QED
    BY <1>1, <1>2, <1>3, <1>4, <1>5 DEF Next, Handle

LEMMA OldFramesStay ==
  ASSUME StreamInv, [Next]_vars, NEW p \in Int, p < Front, NEW kind
  PROVE  IsA(p, kind)' <=> IsA(p, kind)
  <1>1. ASSUME NEW f \in Frames, DeviceWrite(f)
        PROVE  IsA(p, kind)' <=> IsA(p, kind)
    <2>1. p # written
      BY StreamFacts
    <2>2. frame_at' = [q \in DOMAIN frame_at \cup {written} |->
                         IF q = written THEN f ELSE frame_at[q]]
      BY <1>1 DEF DeviceWrite, Write
    <2> QED
      BY <2>1, <2>2 DEF IsA
  <1>2. ASSUME UNCHANGED frame_at PROVE IsA(p, kind)' <=> IsA(p, kind)
    BY <1>2 DEF IsA
  <1>3. CASE SerialRead \/ ReadError \/ Handle \/ UNCHANGED vars
    BY <1>2, <1>3 DEF SerialRead, Read, ReadError, Handle, ReadOn, Take,
                      TunBufferOverrun, line, vars
  <1> QED
    BY <1>1, <1>3 DEF Next

LEMMA HistoryInit == Init => History
  <1> SUFFICES ASSUME Init PROVE History
    OBVIOUS
  <1>1. /\ handled = <<>> /\ to_tun = <<>> /\ broadcast_received = 0
        /\ requested_start = FALSE /\ answered = <<>>
    BY DEF Init
  <1>2. Past(handled) /\ Past(to_tun)
    BY <1>1 DEF Past
  <1>3. PacketsQueued
    BY <1>1 DEF PacketsQueued
  <1>4. Answered
    BY <1>1 DEF Answered, AskedFor
  <1> QED
    BY <1>2, <1>3, <1>4 DEF History

LEMMA OtherHistory ==
  ASSUME StreamInv, [Next]_vars, ~Take, History
  PROVE  History'
  <1>1. /\ UNCHANGED <<requested_start, handled, to_tun, broadcast_received,
                       answered>>
        /\ Front' = Front
    BY OtherSteps DEF effects
  <1>2. \A k \in 1 .. Len(handled) :
          /\ IsA(handled[k][1], "START_DEVICE")' <=>
               IsA(handled[k][1], "START_DEVICE")
          /\ IsA(handled[k][1], "RECEIVED_PACKET")' <=>
               IsA(handled[k][1], "RECEIVED_PACKET")
    <2> SUFFICES ASSUME NEW k \in 1 .. Len(handled)
                 PROVE  /\ IsA(handled[k][1], "START_DEVICE")' <=>
                             IsA(handled[k][1], "START_DEVICE")
                        /\ IsA(handled[k][1], "RECEIVED_PACKET")' <=>
                             IsA(handled[k][1], "RECEIVED_PACKET")
      OBVIOUS
    <2> DEFINE p == handled[k][1]
    <2>1. p \in Int /\ p < Front /\ p' = p
      BY <1>1 DEF History, Past
    <2> QED
      BY <1>1, <2>1, OldFramesStay DEF IsA
  <1>3. Past(handled)' /\ Past(to_tun)'
    BY <1>1 DEF History, Past
  <1>4. PacketsQueued'
    BY <1>1, <1>2 DEF History, PacketsQueued
  <1>5. Answered'
    BY <1>1, <1>2 DEF History, Answered, AskedFor
  <1> QED
    BY <1>3, <1>4, <1>5 DEF History

\* Sequences of messages that grow by one.
LEMMA AppendFacts ==
  ASSUME NEW S, NEW s \in Seq(S), NEW x \in S
  PROVE  /\ Len(Append(s, x)) = Len(s) + 1 /\ Len(s) \in Nat
         /\ Append(s, x)[Len(s) + 1] = x
         /\ \A i \in 1 .. Len(s) : Append(s, x)[i] = s[i]
  OBVIOUS

LEMMA PastGrows ==
  ASSUME StreamInv, NEW s \in Seq(Seq(Int)), NEW x \in Seq(Int), Past(s),
         x[1] = Front, NEW n \in Nat \ {0}, Front' = Front + n
  PROVE  /\ \A k \in 1 .. Len(s) : s[k][1] \in Int /\ s[k][1] < Front'
         /\ \A k \in 1 .. Len(Append(s, x)) :
              Append(s, x)[k][1] \in Int /\ Append(s, x)[k][1] < Front'
  <1>1. Front \in Nat
    BY StreamFacts
  <1>2. \A k \in 1 .. Len(s) : s[k][1] \in Int /\ s[k][1] < Front'
    BY <1>1 DEF Past
  <1>3. ASSUME NEW k \in 1 .. Len(Append(s, x))
        PROVE  Append(s, x)[k][1] \in Int /\ Append(s, x)[k][1] < Front'
    <2> DEFINE t == Append(s, x)
    <2>1. /\ Len(t) = Len(s) + 1 /\ Len(s) \in Nat /\ t[Len(s) + 1] = x
          /\ \A i \in 1 .. Len(s) : t[i] = s[i]
      BY AppendFacts
    <2> HIDE DEF t
    <2>2. CASE k \in 1 .. Len(s)
      BY <1>2, <2>1, <2>2 DEF t
    <2>3. CASE k = Len(s) + 1
      <3>1. t[k][1] = Front
        BY <2>1, <2>3
      <3> QED
        BY <1>1, <3>1 DEF t
    <2> QED
      BY <2>1, <2>2, <2>3 DEF t
  <1> QED
    BY <1>2, <1>3

LEMMA TakeHistory ==
  ASSUME IInv, Take, History
  PROVE  History'
  <1>1. StreamInv /\ to_tun \in Seq(Seq(Int)) /\ handled \in Seq(Seq(Int))
        /\ broadcast_received \in Nat
    BY InvFacts DEF IInv, TypeOK
  <1>2. PICK o \in Outcomes :
          /\ o.processed \in 1 .. DataSize(buffer)
          /\ Act(o.kind, Unread(o.processed))
          /\ handled' = IF o.kind = "TEXT" THEN handled
                        ELSE Append(handled, Unread(o.processed))
          /\ Front' = Front + o.processed
          /\ Unread(o.processed) \in Seq(Int)
          /\ Unread(o.processed)[1] = Front
    BY <1>1, TakeFacts
  <1> DEFINE message == Unread(o.processed)
             kind == o.kind
             n == o.processed
  <1>3. n \in Nat \ {0}
    <2>1. DataSize(buffer) \in Nat
      BY <1>1, StreamFacts
    <2>2. n \in 1 .. DataSize(buffer)
      BY <1>2
    <2> HIDE DEF n
    <2> QED
      BY <2>1, <2>2
  <1>4. UNCHANGED frame_at
    BY DEF Take, line
  <1>5. \A k : IsA(Front, k) /\ k \in {"START_DEVICE", "RECEIVED_PACKET"}
          => kind = k
    BY <1>1, <1>2, OutcomeFacts DEF IsA, Take
  <1>6. kind = "START_DEVICE" => IsA(Front, "START_DEVICE")
    BY <1>1, <1>2, OutcomeFacts DEF IsA, Take
  <1>7. /\ message \in Seq(Int) /\ message[1] = Front
        /\ Act(kind, message) /\ Front' = Front + n
        /\ handled' = IF kind = "TEXT" THEN handled
                      ELSE Append(handled, message)
    BY <1>2
  <1> HIDE DEF message, kind, n
  <1>8. /\ to_tun' = IF kind = "RECEIVED_PACKET" THEN Append(to_tun, message)
                     ELSE to_tun
        /\ broadcast_received' = IF kind = "RECEIVED_PACKET"
                                 THEN broadcast_received + 1
                                 ELSE broadcast_received
        /\ requested_start' = (requested_start \/ kind = "START_DEVICE")
        /\ answered' = IF kind = "START_DEVICE" /\ ~requested_start
                       THEN answered \o <<"start_host", "new_device_event">>
                       ELSE answered
    BY <1>7 DEF Act
  <1>9. Past(handled)'
    <2>1. Past(handled)
      BY DEF History
    <2> QED
      BY <1>1, <1>3, <1>7, <2>1, PastGrows DEF Past
  <1>10. Past(to_tun)'
    <2>1. Past(to_tun)
      BY DEF History
    <2> QED
      BY <1>1, <1>3, <1>7, <1>8, <2>1, PastGrows DEF Past
  <1>11. /\ \A i \in 1 .. Len(handled) : handled'[i] = handled[i]
         /\ Len(handled) \in Nat
         /\ \/ kind = "TEXT" /\ Len(handled') = Len(handled)
            \/ /\ kind # "TEXT" /\ Len(handled') = Len(handled) + 1
               /\ handled'[Len(handled) + 1] = message
    BY <1>1, <1>7, AppendFacts
  <1>12. PacketsQueued'
    <2>1. PacketsQueued /\ Past(to_tun)
      BY DEF History
    <2>2. /\ Len(to_tun) \in Nat
          /\ \A i \in 1 .. Len(to_tun) : to_tun'[i] = to_tun[i]
          /\ \/ kind # "RECEIVED_PACKET" /\ to_tun' = to_tun
             \/ /\ kind = "RECEIVED_PACKET" /\ Len(to_tun') = Len(to_tun) + 1
                /\ to_tun'[Len(to_tun) + 1] = message
      BY <1>1, <1>7, <1>8, AppendFacts
    <2>3. Len(to_tun') = broadcast_received'
      BY <1>8, <2>1, <2>2 DEF PacketsQueued
    <2>4. ASSUME NEW k \in 1 .. Len(handled'),
                 IsA(handled'[k][1], "RECEIVED_PACKET")
          PROVE  \E j \in 1 .. Len(to_tun') : to_tun'[j] = handled'[k]
      <3>1. CASE k \in 1 .. Len(handled)
        <4>1. handled'[k] = handled[k]
          BY <1>11, <3>1
        <4>2. IsA(handled[k][1], "RECEIVED_PACKET")
          BY <2>4, <4>1
        <4>3. PICK j \in 1 .. Len(to_tun) : to_tun[j] = handled[k]
          BY <2>1, <3>1, <4>2 DEF PacketsQueued
        <4>4. to_tun'[j] = handled'[k] /\ j \in 1 .. Len(to_tun')
          BY <2>2, <4>1, <4>3
        <4> QED
          BY <4>4
      <3>2. CASE k = Len(handled) + 1 /\ handled'[k] = message
        <4>1. kind = "RECEIVED_PACKET"
          BY <1>5, <1>7, <2>4, <3>2
        <4> QED
          BY <2>2, <3>2, <4>1
      <3> QED
        BY <1>11, <3>1, <3>2
    <2>5. ASSUME NEW j \in 1 .. Len(to_tun'), NEW k \in 1 .. Len(to_tun'), j < k
          PROVE  to_tun'[j][1] < to_tun'[k][1]
      <3>1. CASE k \in 1 .. Len(to_tun)
        <4>1. j \in 1 .. Len(to_tun)
          BY <2>2, <2>5, <3>1
        <4>2. to_tun[j][1] < to_tun[k][1]
          BY <2>1, <2>5, <3>1, <4>1 DEF PacketsQueued
        <4> QED
          BY <2>2, <3>1, <4>1, <4>2
      <3>2. CASE k = Len(to_tun) + 1 /\ to_tun'[k] = message
        <4>1. j \in 1 .. Len(to_tun)
          BY <2>2, <2>5, <3>2
        <4>2. to_tun[j][1] < Front /\ to_tun'[j] = to_tun[j]
          BY <2>1, <2>2, <4>1 DEF Past
        <4> QED
          BY <1>7, <3>2, <4>2
      <3> QED
        BY <2>2, <3>1, <3>2
    <2>6. \A k \in 1 .. Len(handled') :
            IsA(handled'[k][1], "RECEIVED_PACKET") =>
              \E j \in 1 .. Len(to_tun') : to_tun'[j] = handled'[k]
      BY <2>4
    <2> QED
      BY <1>4, <2>3, <2>5, <2>6 DEF PacketsQueued, IsA
  <1>13. Answered'
    <2>1. Answered
      BY DEF History
    <2> DEFINE AskedNow == \E k \in 1 .. Len(handled') :
                             IsA(handled'[k][1], "START_DEVICE")
    <2>2. AskedNow <=> (AskedFor \/ kind = "START_DEVICE")
      <3>1. ASSUME AskedFor PROVE AskedNow
        <4>1. PICK k \in 1 .. Len(handled) :
                IsA(handled[k][1], "START_DEVICE")
          BY <3>1 DEF AskedFor
        <4>2. k \in 1 .. Len(handled') /\ handled'[k] = handled[k]
          BY <1>11
        <4> QED
          BY <4>1, <4>2
      <3>2. ASSUME kind = "START_DEVICE" PROVE AskedNow
        <4>1. /\ Len(handled') = Len(handled) + 1
              /\ handled'[Len(handled')] = message
              /\ Len(handled') \in 1 .. Len(handled')
          BY <1>11, <3>2
        <4>2. IsA(message[1], "START_DEVICE")
          BY <1>6, <1>7, <3>2
        <4> QED
          BY <4>1, <4>2
      <3>3. ASSUME AskedNow, kind # "START_DEVICE" PROVE AskedFor
        <4>1. PICK k \in 1 .. Len(handled') :
                IsA(handled'[k][1], "START_DEVICE")
          BY <3>3
        <4>2. CASE k \in 1 .. Len(handled)
          <5>1. handled'[k] = handled[k]
            BY <1>11, <4>2
          <5> QED
            BY <4>1, <4>2, <5>1 DEF AskedFor
        <4>3. CASE k = Len(handled) + 1 /\ handled'[k] = message
          BY <1>5, <1>7, <3>3, <4>1, <4>3
        <4> QED
          BY <1>11, <4>2, <4>3
      <3> QED
        BY <3>1, <3>2, <3>3
    <2>3. <<>> \o <<"start_host", "new_device_event">>
            = <<"start_host", "new_device_event">>
      OBVIOUS
    <2>4. requested_start' <=> AskedFor'
      <3>1. AskedFor' <=> AskedNow
        BY <1>4 DEF AskedFor, IsA
      <3> HIDE DEF AskedNow
      <3> QED
        BY <1>8, <2>1, <2>2, <3>1 DEF Answered
    <2>5. answered' = IF requested_start'
                      THEN <<"start_host", "new_device_event">> ELSE <<>>
      <3>1. CASE requested_start
        BY <1>8, <2>1, <3>1 DEF Answered
      <3>2. CASE ~requested_start /\ kind = "START_DEVICE"
        BY <1>8, <2>1, <2>3, <3>2 DEF Answered
      <3>3. CASE ~requested_start /\ kind # "START_DEVICE"
        BY <1>8, <2>1, <3>3 DEF Answered
      <3> QED
        BY <3>1, <3>2, <3>3
    <2> QED
      BY <2>4, <2>5 DEF Answered
  <1> QED
    BY <1>9, <1>10, <1>12, <1>13 DEF History

LEMMA HistoryInvariance == Spec => []History
  <1>1. IInv /\ History /\ [Next]_vars => History'
    BY InvFacts, OtherHistory, TakeHistory
  <1> QED
    BY <1>1, HistoryInit, Invariance, PTL DEF Spec

(***************************************************************************)
(* Every received packet handled is queued for the tap device, in order    *)
(* and once, and the statistics count them.                                *)
(***************************************************************************)
THEOREM HostTapGetsReceived == Spec => []TapGetsReceived
  <1> QED
    BY HistoryFacts, HistoryInvariance, PTL

(***************************************************************************)
(* A device is answered and announced once, when it has asked.             *)
(***************************************************************************)
THEOREM HostAnsweredOnce == Spec => []AnsweredOnce
  <1> QED
    BY HistoryFacts, HistoryInvariance, PTL
=============================================================================
