--------------------------- MODULE FirmwareProofs ---------------------------
(***************************************************************************)
(* Two parts of main/ that have nothing to do with each other: the UART    *)
(* transmit side, for every timeout longer than a log's writes and any     *)
(* number of frames, and the ESP-NOW example, for any peers, queue size    *)
(* and send count.                                                         *)
(***************************************************************************)
EXTENDS UartTx, EspnowExample, SequenceTheorems, FiniteSetTheorems, TLAPS

(***************************************************************************)
(* The UART transmit side.                                                 *)
(***************************************************************************)

Waiters == {t \in Tasks : state[t] = "waiting"}

\* The types of what the wait depends on.
WaitTypes ==
  /\ state \in [Tasks -> {"idle", "waiting", "writing"}]
  /\ part \in [Tasks -> 0 .. 3]
  /\ waited \in [Tasks -> Nat]
  /\ mutex \in Tasks \cup {"free"}
  /\ blocked \in BOOLEAN

\* The mutex excludes.
OneWriter == \A t \in Tasks : state[t] = "writing" <=> mutex = t

\* The callback has waited no longer than the holder has been writing.
WaitBehindWriter ==
  state["wifi"] = "waiting" =>
    /\ waited["wifi"] <= 3
    /\ \A t \in Tasks : mutex = t => waited["wifi"] <= part[t]

IInv == WaitTypes /\ OneWriter /\ WaitBehindWriter

LEMMA TaskFacts ==
  /\ "wifi" \in Tasks /\ "free" \notin Tasks
  /\ \A t \in Tasks : Writes[t] \in {1, 3} /\ Priority[t] \in {1, 5, 23}
  /\ \A t \in Tasks : t # "wifi" => Priority[t] < Priority["wifi"]
  BY DEF Tasks, Writes, Priority

LEMMA InitIInv == Init => IInv
  <1> SUFFICES ASSUME Init PROVE IInv
    OBVIOUS
  <1>1. WaitTypes
    <2>1. state \in [Tasks -> {"idle", "waiting", "writing"}]
      BY DEF Init
    <2>2. part \in [Tasks -> 0 .. 3]
      BY 0 \in 0 .. 3 DEF Init
    <2>3. waited \in [Tasks -> Nat]
      BY 0 \in Nat DEF Init
    <2>4. mutex \in Tasks \cup {"free"} /\ blocked \in BOOLEAN
      BY DEF Init
    <2> QED
      BY <2>1, <2>2, <2>3, <2>4 DEF WaitTypes
  <1>2. OneWriter /\ WaitBehindWriter
    BY TaskFacts DEF Init, OneWriter, WaitBehindWriter
  <1> QED
    BY <1>1, <1>2 DEF IInv

\* With the callback waiting no other task takes the mutex.
LEMMA TakeInv ==
  ASSUME IInv, NEW t \in Tasks, Take(t)
  PROVE  IInv'
  <1> USE TaskFacts DEF IInv, Take
  <1>1. WaitTypes'
    BY DEF WaitTypes
  <1>2. OneWriter'
    BY DEF WaitTypes, OneWriter
  <1>3. WaitBehindWriter'
    <2> SUFFICES ASSUME state'["wifi"] = "waiting" PROVE FALSE
      BY DEF WaitBehindWriter
    <2>1. t # "wifi" /\ state["wifi"] = "waiting"
      BY DEF WaitTypes
    <2>2. Priority["wifi"] <= Priority[t] /\ Priority[t] < Priority["wifi"]
      BY <2>1
    <2> QED
      BY <2>2
  <1> QED
    BY <1>1, <1>2, <1>3

\* Each tick of the wait is one of the holder's writes.
LEMMA TickInv ==
  ASSUME IInv, Tick
  PROVE  IInv'
  <1> USE TaskFacts DEF IInv
  <1>1. PICK t \in Tasks :
          /\ state[t] = "writing" /\ part[t] < Writes[t]
          /\ part' = [part EXCEPT ![t] = @ + 1]
    BY DEF Tick
  <1>2. /\ waited' = [u \in Tasks |-> IF u \in Waiters THEN waited[u] + 1
                                      ELSE waited[u]]
        /\ UNCHANGED <<state, mutex>> /\ blocked' = FALSE
    BY DEF Tick, AllWait, Waiters
  <1>3. WaitTypes'
    <2>1. part' \in [Tasks -> 0 .. 3]
      BY <1>1 DEF WaitTypes
    <2>2. waited' \in [Tasks -> Nat]
      BY <1>2 DEF WaitTypes
    <2> QED
      BY <1>2, <2>1, <2>2 DEF WaitTypes
  <1>4. OneWriter'
    BY <1>2 DEF OneWriter
  <1>5. WaitBehindWriter'
    <2> SUFFICES ASSUME state["wifi"] = "waiting"
                 PROVE  /\ waited'["wifi"] <= 3
                        /\ \A u \in Tasks : mutex = u
                             => waited'["wifi"] <= part'[u]
      BY <1>2 DEF WaitBehindWriter
    <2>1. mutex = t
      BY <1>1 DEF OneWriter
    <2>2. waited["wifi"] <= part[t]
      BY <2>1 DEF WaitBehindWriter
    <2>3. waited'["wifi"] = waited["wifi"] + 1 /\ part'[t] = part[t] + 1
      BY <1>1, <1>2 DEF WaitTypes, Waiters
    <2>4. part'[t] \in 0 .. 3 /\ waited["wifi"] \in Nat /\ part[t] \in 0 .. 3
      BY <1>3 DEF WaitTypes
    <2> QED
      BY <2>1, <2>2, <2>3, <2>4
  <1> QED
    BY <1>3, <1>4, <1>5

LEMMA TaskInv ==
  ASSUME IInv, NEW t \in Tasks,
         Push(t) \/ GiveUp(t) \/ Write(t) \/ NoRoom(t) \/ Give(t)
  PROVE  IInv'
  <1> USE TaskFacts DEF IInv
  <1>1. CASE Push(t)
    <2>1. WaitTypes'
      BY <1>1 DEF Push, WaitTypes
    <2>2. OneWriter'
      BY <1>1 DEF Push, WaitTypes, OneWriter
    <2>3. WaitBehindWriter'
      <3>1. CASE t = "wifi"
        <4>1. waited'["wifi"] = 0
          BY <1>1, <3>1 DEF Push, WaitTypes
        <4>2. \A u \in Tasks : 0 <= part'[u]
          BY <2>1 DEF WaitTypes
        <4> QED
          BY <4>1, <4>2 DEF WaitBehindWriter
      <3>2. CASE t # "wifi"
        <4>1. /\ state'["wifi"] = state["wifi"]
              /\ waited'["wifi"] = waited["wifi"]
              /\ mutex' = mutex /\ mutex # t
              /\ \A u \in Tasks : u # t => part'[u] = part[u]
          BY <1>1, <3>2 DEF Push, WaitTypes, OneWriter
        <4> QED
          BY <4>1 DEF WaitBehindWriter
      <3> QED
        BY <3>1, <3>2
    <2> QED
      BY <2>1, <2>2, <2>3
  <1>2. CASE GiveUp(t)
    BY <1>2 DEF GiveUp, WaitTypes, OneWriter, WaitBehindWriter
  <1>3. CASE Write(t)
    <2>1. WaitTypes'
      <3>1. part[t] + 1 \in 0 .. 3
        <4> HIDE DEF IInv
        <4>1. part[t] \in 0 .. 3
          BY DEF IInv, WaitTypes
        <4>2. part[t] < Writes[t]
          BY <1>3 DEF Write
        <4>3. Writes[t] = 1 \/ Writes[t] = 3
          BY TaskFacts
        <4> QED
          BY <4>1, <4>2, <4>3
      <3>2. part' \in [Tasks -> 0 .. 3]
        BY <1>3, <3>1 DEF Write, WaitTypes
      <3>3. UNCHANGED <<state, waited, mutex>> /\ blocked' = FALSE
        BY <1>3 DEF Write
      <3> QED
        BY <3>2, <3>3 DEF WaitTypes
    <2>2. /\ mutex = t /\ part'[t] = part[t] + 1
          /\ \A u \in Tasks : u # t => part'[u] = part[u]
          /\ UNCHANGED <<state, waited, mutex>>
      BY <1>3 DEF Write, WaitTypes, OneWriter
    <2>3. WaitBehindWriter'
      <3>1. part[t] \in 0 .. 3 /\ waited["wifi"] \in Nat
        BY DEF WaitTypes
      <3> QED
        BY <2>2, <3>1 DEF WaitBehindWriter
    <2> QED
      BY <2>1, <2>2, <2>3 DEF OneWriter
  <1>4. CASE NoRoom(t)
    BY <1>4 DEF NoRoom, WaitTypes, OneWriter, WaitBehindWriter
  <1>5. CASE Give(t)
    BY <1>5 DEF Give, WaitTypes, OneWriter, WaitBehindWriter
  <1> QED
    BY <1>1, <1>2, <1>3, <1>4, <1>5

LEMMA NextIInv == IInv /\ [Next]_vars => IInv'
  <1>1. ASSUME IInv, UNCHANGED vars PROVE IInv'
    BY <1>1 DEF vars, IInv, WaitTypes, OneWriter, WaitBehindWriter
  <1> QED
    BY <1>1, TakeInv, TickInv, TaskInv DEF Next

(***************************************************************************)
(* The callback's log waits for the mutex for at most the three writes of  *)
(* one other log.                                                          *)
(***************************************************************************)
THEOREM UartWifiGetsMutex == Spec => []WifiGetsMutex
  <1>1. IInv => WifiGetsMutex
    BY DEF IInv, WaitBehindWriter, WifiGetsMutex
  <1>2. Spec => []IInv
    BY InitIInv, NextIInv, PTL DEF Spec
  <1> QED
    BY <1>1, <1>2, PTL

-----------------------------------------------------------------------------
(* The pieces on the line.  The holder of the mutex is the only one that   *)
(* adds any: the pieces of its frame are the end of the line, and there is *)
(* none yet of a frame that waits.                                         *)

Pieces == [frame : 1 .. MaxFrames, part : 1 .. 3]

FrameNumbers ==
  /\ \A t \in Tasks : frame[t] <= frames /\ (state[t] # "idle" => frame[t] > 0)
  /\ \A i \in 1 .. Len(line) : line[i].frame <= frames
  /\ \A t, u \in Tasks :
       t # u /\ state[t] # "idle" /\ state[u] # "idle" => frame[t] # frame[u]

NoneWhileWaiting ==
  \A t \in Tasks : state[t] = "waiting" =>
    \A i \in 1 .. Len(line) : line[i].frame # frame[t]

WriterAtEnd ==
  \A t \in Tasks : state[t] = "writing" =>
    \A i \in 1 .. Len(line) : line[i].frame = frame[t] =>
      /\ line[i].part <= part[t]
      /\ \A k \in i .. Len(line) : line[k].frame = frame[t]

Ordered ==
  \A i, j \in 1 .. Len(line) :
    i < j /\ line[i].frame = line[j].frame
      => \A k \in i .. j - 1 :
           /\ line[k].frame = line[j].frame
           /\ line[k].part < line[k + 1].part

LInv == TypeOK /\ FrameNumbers /\ NoneWhileWaiting /\ WriterAtEnd /\ Ordered

LEMMA LineTypes ==
  ASSUME TypeOK
  PROVE  /\ line \in Seq(Pieces) /\ Len(line) \in Nat
         /\ \A i \in 1 .. Len(line) :
              /\ line[i] \in Pieces
              /\ line[i].frame \in Nat /\ line[i].part \in Nat
         /\ \A t \in Tasks : frame[t] \in Nat /\ part[t] \in Nat
         /\ frames \in Nat /\ MaxFrames \in Nat /\ MutexTimeout \in Nat
  <1>1. line \in Seq(Pieces) /\ Len(line) \in Nat
    BY DEF TypeOK, Pieces
  <1>2. \A i \in 1 .. Len(line) : line[i] \in Pieces
    BY <1>1
  <1>3. \A x \in Pieces : x.frame \in Nat /\ x.part \in Nat
    BY DEF Pieces
  <1>4. \A t \in Tasks : frame[t] \in Nat /\ part[t] \in Nat
    <2>1. frame \in [Tasks -> 0 .. MaxFrames] /\ part \in [Tasks -> 0 .. 3]
      BY DEF TypeOK
    <2>2. 0 .. MaxFrames \subseteq Nat /\ 0 .. 3 \subseteq Nat
      BY UartAssumption
    <2> QED
      BY <2>1, <2>2
  <1>5. frames \in Nat /\ MaxFrames \in Nat /\ MutexTimeout \in Nat
    BY UartAssumption DEF TypeOK
  <1> QED
    BY <1>1, <1>2, <1>3, <1>4, <1>5

LEMMA InitLInv == Init => LInv
  <1> SUFFICES ASSUME Init PROVE LInv
    OBVIOUS
  <1>1. line = <<>> /\ frames = 0
    BY DEF Init
  <1>2. TypeOK
    <2>1. /\ frame \in [Tasks -> 0 .. MaxFrames]
          /\ part \in [Tasks -> 0 .. 3]
          /\ waited \in [Tasks -> 0 .. MutexTimeout]
          /\ \A t \in Tasks : part[t] = 0
      BY UartAssumption DEF Init
    <2>2. /\ state \in [Tasks -> {"idle", "waiting", "writing"}]
          /\ mutex \in Tasks \cup {"free"} /\ blocked \in BOOLEAN
      BY DEF Init
    <2>3. \A t \in Tasks : part[t] <= Writes[t]
      BY <2>1, TaskFacts
    <2>4. frames \in 0 .. MaxFrames /\ line \in Seq(Pieces)
      BY <1>1, UartAssumption
    <2> QED
      BY <2>1, <2>2, <2>3, <2>4 DEF TypeOK, Pieces
  <1>3. \A t \in Tasks : state[t] = "idle" /\ frame[t] = 0
    BY DEF Init
  <1> QED
    BY <1>1, <1>2, <1>3 DEF LInv, FrameNumbers, NoneWhileWaiting, WriterAtEnd,
                            Ordered

\* A step that leaves the line as it is, and no task nearer to it.
LEMMA QuietStep ==
  ASSUME LInv, TypeOK', UNCHANGED <<frames, line, frame, part>>,
         \A t \in Tasks : /\ state'[t] = "waiting" => state[t] = "waiting"
                          /\ state'[t] = "writing" => state[t] # "idle"
  PROVE  LInv'
  <1>1. \A t \in Tasks : state[t] \in {"idle", "waiting", "writing"}
    BY DEF LInv, TypeOK
  <1>2. \A t \in Tasks : state'[t] # "idle" => state[t] # "idle"
    <2>1. \A t \in Tasks : state'[t] \in {"idle", "waiting", "writing"}
      BY DEF TypeOK
    <2> QED
      BY <2>1
  <1>3. FrameNumbers'
    BY <1>2 DEF LInv, FrameNumbers
  <1>4. NoneWhileWaiting'
    BY DEF LInv, NoneWhileWaiting
  <1>5. WriterAtEnd'
    BY <1>1 DEF LInv, WriterAtEnd, NoneWhileWaiting
  <1>6. Ordered'
    BY DEF LInv, Ordered
  <1> QED
    BY <1>3, <1>4, <1>5, <1>6 DEF LInv

LEMMA PushLInv ==
  ASSUME LInv, NEW t \in Tasks, Push(t)
  PROVE  LInv'
  <1>1. /\ frames < MaxFrames /\ frames' = frames + 1 /\ state[t] = "idle"
        /\ state' = [state EXCEPT ![t] = "waiting"]
        /\ frame' = [frame EXCEPT ![t] = frames + 1]
        /\ part' = [part EXCEPT ![t] = 0]
        /\ waited' = [waited EXCEPT ![t] = 0]
        /\ UNCHANGED <<mutex, blocked, line>>
    BY DEF Push
  <1>2. /\ frames \in Nat /\ MaxFrames \in Nat /\ MutexTimeout \in Nat
        /\ \A u \in Tasks : frame[u] \in Nat
        /\ \A i \in 1 .. Len(line) : line[i].frame \in Nat
    BY LineTypes DEF LInv
  <1>3. /\ state'[t] = "waiting" /\ frame'[t] = frames + 1 /\ part'[t] = 0
        /\ \A u \in Tasks : u # t => /\ state'[u] = state[u]
                                     /\ frame'[u] = frame[u]
                                     /\ part'[u] = part[u]
    BY <1>1 DEF LInv, TypeOK
  <1>4. TypeOK'
    <2>1. /\ frame' \in [Tasks -> 0 .. MaxFrames]
          /\ part' \in [Tasks -> 0 .. 3]
          /\ waited' \in [Tasks -> 0 .. MutexTimeout]
          /\ frames' \in 0 .. MaxFrames
      BY <1>1, <1>2 DEF LInv, TypeOK
    <2>2. \A u \in Tasks : part'[u] <= Writes[u]
      <3>1. 0 <= Writes[t]
        BY TaskFacts
      <3>2. \A u \in Tasks : part[u] <= Writes[u]
        BY DEF LInv, TypeOK
      <3> QED
        BY <1>3, <3>1, <3>2
    <2> QED
      BY <1>1, <2>1, <2>2 DEF LInv, TypeOK
  <1>5. FrameNumbers'
    BY <1>1, <1>2, <1>3 DEF LInv, FrameNumbers
  <1>6. NoneWhileWaiting'
    <2>1. \A i \in 1 .. Len(line) : line[i].frame # frames + 1
      BY <1>2 DEF LInv, FrameNumbers
    <2> QED
      BY <1>1, <1>3, <2>1 DEF LInv, NoneWhileWaiting
  <1>7. WriterAtEnd'
    BY <1>1, <1>3 DEF LInv, WriterAtEnd
  <1>8. Ordered'
    BY <1>1 DEF LInv, Ordered
  <1> QED
    BY <1>4, <1>5, <1>6, <1>7, <1>8 DEF LInv

\* The writer adds a piece to the line, or counts one that was lost.
LEMMA WriteLInv ==
  ASSUME LInv, OneWriter, TypeOK', NEW t \in Tasks, state[t] = "writing",
         part' = [part EXCEPT ![t] = @ + 1],
         line' = line \/ line' = Append(line, Piece(t)),
         UNCHANGED <<state, frame, frames>>
  PROVE  LInv'
  <1>1. /\ line \in Seq(Pieces) /\ line' \in Seq(Pieces)
        /\ \A u \in Tasks : frame[u] \in Nat /\ part[u] \in Nat
        /\ frames \in Nat
    <2>1. line' \in Seq(Pieces)
      BY DEF TypeOK, Pieces
    <2> QED
      BY <2>1, LineTypes DEF LInv
  <1>2. /\ part'[t] = part[t] + 1
        /\ \A u \in Tasks : u # t => part'[u] = part[u] /\ state[u] # "writing"
    BY DEF LInv, TypeOK, OneWriter
  <1>3. \A i \in 1 .. Len(line) :
          line[i].frame \in Nat /\ line[i].part \in Nat
    BY LineTypes DEF LInv
  <1>4. CASE line' = line
    <2>1. FrameNumbers' /\ NoneWhileWaiting' /\ Ordered'
      BY <1>4 DEF LInv, FrameNumbers, NoneWhileWaiting, Ordered
    <2>2. WriterAtEnd'
      BY <1>1, <1>2, <1>3, <1>4 DEF LInv, WriterAtEnd
    <2> QED
      BY <2>1, <2>2 DEF LInv
  <1>5. CASE line' = Append(line, Piece(t))
    <2> DEFINE n == Len(line)
    <2>1. /\ n \in Nat /\ Len(line') = n + 1
          /\ \A i \in 1 .. n : line'[i] = line[i]
          /\ line'[n + 1] = Piece(t)
      <3>1. Piece(t) \in Pieces
        <4>1. /\ line'[Len(line) + 1] = Piece(t)
              /\ Len(line) + 1 \in 1 .. Len(line')
          BY <1>1, <1>5
        <4> QED
          BY <1>1, <4>1
      <3> QED
        BY <1>1, <1>5, <3>1
    <2>2. line'[n + 1].frame = frame[t] /\ line'[n + 1].part = part[t] + 1
      BY <2>1 DEF Piece
    <2> HIDE DEF n
    <2>3. frame[t] <= frames /\ FrameNumbers
      BY DEF LInv, FrameNumbers
    <2>4. FrameNumbers'
      <3>1. \A i \in 1 .. n + 1 : line'[i].frame <= frames
        <4> SUFFICES ASSUME NEW i \in 1 .. n + 1
                     PROVE  line'[i].frame <= frames
          OBVIOUS
        <4>1. CASE i \in 1 .. n
          BY <2>1, <2>3, <4>1 DEF FrameNumbers, n
        <4>2. CASE i = n + 1
          BY <2>2, <2>3, <4>2
        <4> QED
          BY <2>1, <4>1, <4>2
      <3> QED
        BY <2>1, <2>3, <3>1 DEF FrameNumbers
    <2>5. NoneWhileWaiting'
      <3> SUFFICES ASSUME NEW u \in Tasks, state[u] = "waiting",
                          NEW i \in 1 .. n + 1
                   PROVE  line'[i].frame # frame[u]
        BY <2>1 DEF NoneWhileWaiting
      <3>1. CASE i \in 1 .. n
        BY <2>1, <3>1 DEF LInv, NoneWhileWaiting, n
      <3>2. CASE i = n + 1
        BY <2>2, <2>3, <3>2 DEF FrameNumbers
      <3> QED
        BY <2>1, <3>1, <3>2
    <2>6. ASSUME NEW i \in 1 .. n, line[i].frame = frame[t]
          PROVE  /\ line[i].part <= part[t]
                 /\ \A k \in i .. n : line[k].frame = frame[t]
      BY <2>6 DEF LInv, WriterAtEnd, n
    <2>7. WriterAtEnd'
      <3> SUFFICES ASSUME NEW i \in 1 .. n + 1, line'[i].frame = frame[t]
                   PROVE  /\ line'[i].part <= part[t] + 1
                          /\ \A k \in i .. n + 1 : line'[k].frame = frame[t]
        BY <1>2, <2>1 DEF WriterAtEnd
      <3>1. CASE i \in 1 .. n
        <4>1. /\ line[i].frame = frame[t] /\ line'[i].part = line[i].part
              /\ line[i].part \in Nat
          BY <1>3, <2>1, <3>1 DEF n
        <4>2. /\ line[i].part <= part[t]
              /\ \A k \in i .. n : line[k].frame = frame[t]
          BY <2>6, <3>1, <4>1
        <4>3. ASSUME NEW k \in i .. n + 1 PROVE line'[k].frame = frame[t]
          <5>1. CASE k \in i .. n
            BY <2>1, <3>1, <4>2, <5>1
          <5>2. CASE k = n + 1
            BY <2>2, <5>2
          <5> QED
            BY <2>1, <5>1, <5>2
        <4> QED
          BY <1>1, <4>1, <4>2, <4>3
      <3>2. CASE i = n + 1
        <4>1. \A k \in i .. n + 1 : k = n + 1
          BY <2>1, <3>2
        <4> QED
          BY <1>1, <2>2, <3>2, <4>1
      <3> QED
        BY <2>1, <3>1, <3>2
    <2>8. Ordered'
      <3> SUFFICES ASSUME NEW i \in 1 .. n + 1, NEW j \in 1 .. n + 1, i < j,
                          line'[i].frame = line'[j].frame,
                          NEW k \in i .. j - 1
                   PROVE  /\ line'[k].frame = line'[j].frame
                          /\ line'[k].part < line'[k + 1].part
        BY <2>1 DEF Ordered
      <3>1. i \in 1 .. n /\ k \in 1 .. n /\ line'[i] = line[i]
            /\ line'[k] = line[k] /\ i <= k
        BY <2>1
      <3>2. CASE j \in 1 .. n
        <4>1. line'[j] = line[j] /\ line'[k + 1] = line[k + 1]
          BY <2>1, <3>1, <3>2
        <4> QED
          BY <3>1, <3>2, <4>1 DEF LInv, Ordered, n
      <3>3. CASE j = n + 1
        <4>1. line[i].frame = frame[t]
          BY <2>2, <3>1, <3>3
        <4>2. \A l \in i .. n : line[l].frame = frame[t]
          BY <2>6, <3>1, <4>1
        <4>3. line[k].frame = frame[t] /\ line'[k].frame = line'[j].frame
          BY <2>1, <2>2, <3>1, <3>3, <4>2
        <4>4. CASE k = n
          <5>1. line[k].part <= part[t] /\ line[k].part \in Nat
            BY <1>3, <2>6, <3>1, <4>3 DEF n
          <5> QED
            BY <1>1, <2>2, <3>1, <4>3, <4>4, <5>1
        <4>5. CASE k < n
          <5>1. /\ n \in 1 .. n /\ i < n /\ k \in i .. n - 1
                /\ line[n].frame = frame[t]
            BY <2>1, <3>1, <4>2, <4>5
          <5>2. line[k].part < line[k + 1].part
            BY <3>1, <4>1, <5>1 DEF LInv, Ordered, n
          <5>3. line'[k + 1] = line[k + 1]
            BY <2>1, <3>1, <4>5
          <5> QED
            BY <3>1, <4>3, <5>2, <5>3
        <4> QED
          BY <2>1, <3>1, <4>4, <4>5
      <3> QED
        BY <2>1, <3>2, <3>3
    <2> QED
      BY <2>4, <2>5, <2>7, <2>8 DEF LInv
  <1> QED
    BY <1>4, <1>5

\* A piece of the line, and the count of the writes.
LEMMA PieceTypes ==
  ASSUME LInv, NEW t \in Tasks, state[t] = "writing", part[t] < Writes[t]
  PROVE  /\ Piece(t) \in Pieces
         /\ part[t] + 1 \in 0 .. 3 /\ part[t] + 1 <= Writes[t]
  <1>1. frame[t] \in 0 .. MaxFrames /\ frame[t] > 0 /\ MaxFrames \in Nat
    BY UartAssumption DEF LInv, TypeOK, FrameNumbers
  <1>2. part[t] \in 0 .. 3 /\ (Writes[t] = 1 \/ Writes[t] = 3)
    BY TaskFacts DEF LInv, TypeOK
  <1>3. part[t] + 1 \in 1 .. 3 /\ part[t] + 1 <= Writes[t]
    BY <1>2
  <1> QED
    BY <1>1, <1>3 DEF Piece, Pieces

LEMMA NextLInv == LInv /\ OneWriter /\ [Next]_vars => LInv'
  <1> SUFFICES ASSUME LInv, OneWriter, [Next]_vars PROVE LInv'
    OBVIOUS
  <1>1. ASSUME NEW t \in Tasks, Take(t) \/ GiveUp(t) \/ NoRoom(t) \/ Give(t)
        PROVE  LInv'
    <2>1. TypeOK'
      BY <1>1 DEF LInv, TypeOK, Take, GiveUp, NoRoom, Give
    <2>2. /\ UNCHANGED <<frames, line, frame, part>>
          /\ \A u \in Tasks : /\ state'[u] = "waiting" => state[u] = "waiting"
                              /\ state'[u] = "writing" => state[u] # "idle"
      BY <1>1 DEF LInv, TypeOK, Take, GiveUp, NoRoom, Give
    <2> QED
      BY <2>1, <2>2, QuietStep
  <1>2. ASSUME NEW t \in Tasks, Write(t) PROVE LInv'
    <2>1. /\ state[t] = "writing" /\ part[t] < Writes[t]
          /\ line' = Append(line, Piece(t))
          /\ part' = [part EXCEPT ![t] = @ + 1]
          /\ blocked' = FALSE
          /\ UNCHANGED <<state, frame, waited, mutex, frames>>
      BY <1>2 DEF Write
    <2>2. /\ Piece(t) \in Pieces
          /\ part[t] + 1 \in 0 .. 3 /\ part[t] + 1 <= Writes[t]
      BY <2>1, PieceTypes
    <2>3. TypeOK'
      <3>1. /\ part' \in [Tasks -> 0 .. 3]
            /\ \A u \in Tasks : part'[u] <= Writes[u]
        BY <2>1, <2>2 DEF LInv, TypeOK
      <3>2. line' \in Seq(Pieces)
        <4>1. line \in Seq(Pieces)
          BY DEF LInv, TypeOK, Pieces
        <4> QED
          BY <2>1, <2>2, <4>1
      <3> QED
        BY <2>1, <3>1, <3>2 DEF LInv, TypeOK, Pieces
    <2> QED
      BY <2>1, <2>3, WriteLInv
  <1>3. CASE Tick
    <2>1. PICK t \in Tasks :
            /\ state[t] = "writing" /\ part[t] < Writes[t]
            /\ part' = [part EXCEPT ![t] = @ + 1]
            /\ line' \in {line, Append(line, Piece(t))}
      BY <1>3 DEF Tick
    <2>2. /\ Piece(t) \in Pieces
          /\ part[t] + 1 \in 0 .. 3 /\ part[t] + 1 <= Writes[t]
      BY <2>1, PieceTypes
    <2>3. /\ blocked' = FALSE /\ UNCHANGED <<state, frame, mutex, frames>>
          /\ waited' = [u \in Tasks |-> IF u \in Waiters THEN waited[u] + 1
                                        ELSE waited[u]]
          /\ \A u \in Waiters : waited[u] < MutexTimeout
      BY <1>3 DEF Tick, AllWait, Waiters
    <2>4. TypeOK'
      <3>1. /\ part' \in [Tasks -> 0 .. 3]
            /\ \A u \in Tasks : part'[u] <= Writes[u]
        BY <2>1, <2>2 DEF LInv, TypeOK
      <3>2. line' \in Seq(Pieces)
        <4>1. line \in Seq(Pieces)
          BY DEF LInv, TypeOK, Pieces
        <4> QED
          BY <2>1, <2>2, <4>1
      <3>3. waited' \in [Tasks -> 0 .. MutexTimeout]
        BY <2>3, UartAssumption DEF LInv, TypeOK
      <3> QED
        BY <2>3, <3>1, <3>2, <3>3 DEF LInv, TypeOK, Pieces
    <2> QED
      BY <2>1, <2>3, <2>4, WriteLInv
  <1>4. CASE UNCHANGED vars
    BY <1>4 DEF vars, LInv, TypeOK, FrameNumbers, NoneWhileWaiting,
                WriterAtEnd, Ordered
  <1> QED
    BY <1>1, <1>2, <1>3, <1>4, PushLInv DEF Next

LEMMA LineInvariance == Spec => []LInv
  <1>1. IInv => OneWriter
    BY DEF IInv
  <1> QED
    BY <1>1, InitIInv, NextIInv, InitLInv, NextLInv, PTL DEF Spec

(***************************************************************************)
(* The types of the four tasks, the mutex and the line.                    *)
(***************************************************************************)
THEOREM UartTypeOK == Spec => []TypeOK
  <1>1. LInv => TypeOK
    BY DEF LInv
  <1> QED
    BY <1>1, LineInvariance, PTL

(***************************************************************************)
(* Frames are never written one inside another, whatever times out.        *)
(***************************************************************************)
THEOREM UartFramesTogether == Spec => []FramesTogether
  <1>1. LInv => FramesTogether
    <2> SUFFICES ASSUME LInv PROVE FramesTogether
      OBVIOUS
    <2>1. DOMAIN line = 1 .. Len(line)
      BY DEF LInv, TypeOK
    <2> QED
      BY <2>1 DEF LInv, Ordered, FramesTogether
  <1> QED
    BY <1>1, LineInvariance, PTL

-----------------------------------------------------------------------------
(***************************************************************************)
(* The example application.  What the task will hear of is one sequence of *)
(* events, to which a step adds one or from which it takes one.            *)
(***************************************************************************)
Kind(e) == IF e.id = "RECV_CB" THEN "block"
           ELSE IF e.mac = Broadcast THEN "broadcast" ELSE "unicast"

\* The places in a of the events of a kind; whether there is one at most;
\* whether the broadcasts are before the unicasts.
Of(a, kind) == {k \in 1 .. Len(a) : Kind(a[k]) = kind}
One(a, kind) == \A j, k \in Of(a, kind) : j = k
BroadcastsFirst(a) ==
  \A j \in Of(a, "broadcast"), k \in Of(a, "unicast") : j < k

DataOf(a) == {a[k].data : k \in Of(a, "block")}
Distinct(a) == \A j, k \in Of(a, "block") : a[j].data = a[k].data => j = k

\* The place, in what an event was taken from at p, of its m-th one.
Old(m, p) == IF m < p THEN m ELSE m + 1

\* b is a without its p-th element.
Without(b, a, p) ==
  /\ Len(a) \in Nat /\ Len(b) \in Nat
  /\ p \in 1 .. Len(a) /\ Len(b) = Len(a) - 1
  /\ \A m \in 1 .. Len(b) : b[m] = a[Old(m, p)]

LEMMA OldPlaces ==
  ASSUME NEW n \in Nat, NEW p \in 1 .. n
  PROVE  /\ \A m \in 1 .. n - 1 : Old(m, p) \in 1 .. n /\ Old(m, p) # p
         /\ \A j, m \in 1 .. n - 1 : j < m <=> Old(j, p) < Old(m, p)
         /\ \A j, m \in 1 .. n - 1 : Old(j, p) = Old(m, p) => j = m
         /\ \A k \in 1 .. n : k # p => \E m \in 1 .. n - 1 : Old(m, p) = k
  <1>1. /\ \A m \in 1 .. n - 1 : Old(m, p) \in 1 .. n /\ Old(m, p) # p
        /\ \A j, m \in 1 .. n - 1 : j < m <=> Old(j, p) < Old(m, p)
        /\ \A j, m \in 1 .. n - 1 : Old(j, p) = Old(m, p) => j = m
    BY DEF Old
  <1>2. ASSUME NEW k \in 1 .. n, k # p
        PROVE  \E m \in 1 .. n - 1 : Old(m, p) = k
    <2>1. CASE k < p
      <3>1. k \in 1 .. n - 1 /\ Old(k, p) = k
        BY <2>1 DEF Old
      <3>2. QED
        BY <3>1
    <2>2. CASE ~(k < p)
      <3>1. k - 1 \in 1 .. n - 1 /\ Old(k - 1, p) = k
        BY <1>2, <2>2 DEF Old
      <3>2. QED
        BY <3>1
    <2>3. QED
      BY <2>1, <2>2
  <1>3. QED
    BY <1>1, <1>2

\* What is left of a kind.
LEMMA WithoutKind ==
  ASSUME NEW a, NEW b, NEW p, Without(b, a, p), NEW kind
  PROVE  /\ One(a, kind) => One(b, kind)
         /\ Kind(a[p]) # kind =>
              /\ One(b, kind) => One(a, kind)
              /\ Of(a, kind) = {} <=> Of(b, kind) = {}
         /\ Kind(a[p]) = kind =>
              /\ Of(a, kind) # {}
              /\ One(a, kind) <=> Of(b, kind) = {}
  <1> DEFINE n == Len(a)
  <1>1. /\ n \in Nat /\ p \in 1 .. n /\ Len(b) = n - 1
        /\ \A m \in 1 .. n - 1 : b[m] = a[Old(m, p)]
    BY DEF Without
  <1>2. /\ \A m \in 1 .. n - 1 : Old(m, p) \in 1 .. n /\ Old(m, p) # p
        /\ \A j, m \in 1 .. n - 1 : Old(j, p) = Old(m, p) => j = m
        /\ \A k \in 1 .. n : k # p => \E m \in 1 .. n - 1 : Old(m, p) = k
    BY <1>1, OldPlaces
  <1> HIDE DEF n
  <1>3. Of(a, kind) = {k \in 1 .. n : Kind(a[k]) = kind}
    BY DEF Of, n
  <1>4. Of(b, kind) = {m \in 1 .. n - 1 : Kind(a[Old(m, p)]) = kind}
    BY <1>1 DEF Of
  <1>5. \A m \in Of(b, kind) :
          m \in 1 .. n - 1 /\ Old(m, p) \in Of(a, kind) /\ Old(m, p) # p
    BY <1>2, <1>3, <1>4
  <1>6. \A k \in Of(a, kind) : k # p => \E m \in Of(b, kind) : Old(m, p) = k
    BY <1>2, <1>3, <1>4
  <1>7. p \in Of(a, kind) <=> Kind(a[p]) = kind
    BY <1>1, <1>3
  <1>8. One(a, kind) => One(b, kind)
    BY <1>2, <1>5 DEF One
  <1>9. ASSUME Kind(a[p]) # kind
        PROVE  /\ One(b, kind) => One(a, kind)
               /\ Of(a, kind) = {} <=> Of(b, kind) = {}
    <2>1. \A k \in Of(a, kind) : \E m \in Of(b, kind) : Old(m, p) = k
      BY <1>6, <1>7, <1>9
    <2>2. QED
      BY <1>5, <2>1 DEF One
  <1>10. ASSUME Kind(a[p]) = kind
         PROVE  /\ Of(a, kind) # {}
                /\ One(a, kind) <=> Of(b, kind) = {}
    <2>1. p \in Of(a, kind)
      BY <1>7, <1>10
    <2>2. ASSUME One(a, kind), NEW m \in Of(b, kind)
          PROVE  FALSE
      BY <1>5, <2>1, <2>2 DEF One
    <2>3. ASSUME Of(b, kind) = {}, NEW k \in Of(a, kind)
          PROVE  k = p
      BY <1>6, <2>3
    <2>4. QED
      BY <2>1, <2>2, <2>3 DEF One
  <1>11. QED
    BY <1>8, <1>9, <1>10

\* And of the order.
LEMMA WithoutOrder ==
  ASSUME NEW a, NEW b, NEW p, Without(b, a, p)
  PROVE  /\ BroadcastsFirst(a) => BroadcastsFirst(b)
         /\ BroadcastsFirst(b)
              /\ (Kind(a[p]) = "unicast" => p = Len(a))
              /\ (Kind(a[p]) = "broadcast" => Of(b, "unicast") = {})
              => BroadcastsFirst(a)
  <1> DEFINE n == Len(a)
  <1>1. /\ n \in Nat /\ p \in 1 .. n /\ Len(b) = n - 1
        /\ \A m \in 1 .. n - 1 : b[m] = a[Old(m, p)]
    BY DEF Without
  <1>2. /\ \A m \in 1 .. n - 1 : Old(m, p) \in 1 .. n /\ Old(m, p) # p
        /\ \A j, m \in 1 .. n - 1 : j < m <=> Old(j, p) < Old(m, p)
        /\ \A k \in 1 .. n : k # p => \E m \in 1 .. n - 1 : Old(m, p) = k
    BY <1>1, OldPlaces
  <1> HIDE DEF n
  <1>3. \A kind : Of(a, kind) = {k \in 1 .. n : Kind(a[k]) = kind}
    BY DEF Of, n
  <1>4. \A kind : Of(b, kind) = {m \in 1 .. n - 1 : Kind(a[Old(m, p)]) = kind}
    BY <1>1 DEF Of
  <1>5. \A kind : \A m \in Of(b, kind) :
          m \in 1 .. n - 1 /\ Old(m, p) \in Of(a, kind)
    BY <1>2, <1>3, <1>4
  <1>6. \A kind : \A k \in Of(a, kind) :
          k # p => \E m \in Of(b, kind) : m \in 1 .. n - 1 /\ Old(m, p) = k
    BY <1>2, <1>3, <1>4
  <1>7. BroadcastsFirst(a) => BroadcastsFirst(b)
    BY <1>2, <1>5 DEF BroadcastsFirst
  <1>8. ASSUME BroadcastsFirst(b),
               Kind(a[p]) = "unicast" => p = n,
               Kind(a[p]) = "broadcast" => Of(b, "unicast") = {},
               NEW j \in Of(a, "broadcast"), NEW k \in Of(a, "unicast")
        PROVE  j < k
    <2>1. j \in 1 .. n /\ k \in 1 .. n /\ j # k
      BY <1>3
    <2>2. CASE k = p
      <3>1. k = n
        BY <1>3, <1>8, <2>2
      <3>2. QED
        BY <1>1, <2>1, <3>1
    <2>3. CASE k # p
      <3>1. PICK m \in Of(b, "unicast") : m \in 1 .. n - 1 /\ Old(m, p) = k
        BY <1>6, <2>3
      <3>2. j # p
        BY <1>3, <1>8, <3>1
      <3>3. PICK i \in Of(b, "broadcast") : i \in 1 .. n - 1 /\ Old(i, p) = j
        BY <1>6, <3>2
      <3>4. i < m
        BY <1>8, <3>1, <3>3 DEF BroadcastsFirst
      <3>5. QED
        BY <1>2, <3>1, <3>3, <3>4
    <2>4. QED
      BY <2>2, <2>3
  <1>9. QED
    BY <1>7, <1>8 DEF BroadcastsFirst, n

\* And of the blocks of received data.
LEMMA WithoutData ==
  ASSUME NEW a, NEW b, NEW p, Without(b, a, p)
  PROVE  /\ Distinct(a) => Distinct(b)
         /\ DataOf(b) \subseteq DataOf(a)
         /\ Kind(a[p]) # "block" =>
              DataOf(a) = DataOf(b) /\ (Distinct(b) => Distinct(a))
         /\ Kind(a[p]) = "block" =>
              /\ DataOf(a) = DataOf(b) \cup {a[p].data}
              /\ Distinct(a) => a[p].data \notin DataOf(b)
              /\ Distinct(b) /\ a[p].data \notin DataOf(b) => Distinct(a)
  <1> DEFINE n == Len(a)
             A == Of(a, "block")
             B == Of(b, "block")
  <1>1. /\ n \in Nat /\ p \in 1 .. n /\ Len(b) = n - 1
        /\ \A m \in 1 .. n - 1 : b[m] = a[Old(m, p)]
    BY DEF Without
  <1>2. /\ \A m \in 1 .. n - 1 : Old(m, p) \in 1 .. n /\ Old(m, p) # p
        /\ \A j, m \in 1 .. n - 1 : Old(j, p) = Old(m, p) => j = m
        /\ \A k \in 1 .. n : k # p => \E m \in 1 .. n - 1 : Old(m, p) = k
    BY <1>1, OldPlaces
  <1> HIDE DEF n
  <1>3. A = {k \in 1 .. n : Kind(a[k]) = "block"}
    BY DEF Of, n
  <1>4. B = {m \in 1 .. n - 1 : Kind(a[Old(m, p)]) = "block"}
    BY <1>1 DEF Of
  <1>5. \A m \in B : /\ m \in 1 .. n - 1 /\ Old(m, p) \in A /\ Old(m, p) # p
                     /\ b[m].data = a[Old(m, p)].data
    BY <1>1, <1>2, <1>3, <1>4
  <1>6. \A k \in A : k # p =>
          \E m \in B : Old(m, p) = k /\ b[m].data = a[k].data
    BY <1>1, <1>2, <1>3, <1>4
  <1>7. p \in A <=> Kind(a[p]) = "block"
    BY <1>1, <1>3
  <1> HIDE DEF A, B
  <1>8. \A j, m \in B : Old(j, p) = Old(m, p) => j = m
    BY <1>2, <1>5
  <1>9. DataOf(a) = {a[k].data : k \in A} /\ DataOf(b) = {b[k].data : k \in B}
    BY DEF DataOf, A, B
  <1>10. Distinct(a) => Distinct(b)
    BY <1>5, <1>8 DEF Distinct, A, B
  <1>11. DataOf(b) \subseteq DataOf(a)
    BY <1>5, <1>9
  <1>12. ASSUME Kind(a[p]) # "block"
         PROVE  DataOf(a) = DataOf(b) /\ (Distinct(b) => Distinct(a))
    <2>1. \A k \in A : \E m \in B : Old(m, p) = k /\ b[m].data = a[k].data
      BY <1>6, <1>7, <1>12
    <2>2. DataOf(a) \subseteq DataOf(b)
      BY <1>9, <2>1
    <2>3. ASSUME Distinct(b), NEW j \in A, NEW k \in A, a[j].data = a[k].data
          PROVE  j = k
      <3>1. PICK i \in B : Old(i, p) = j /\ b[i].data = a[j].data
        BY <2>1
      <3>2. PICK m \in B : Old(m, p) = k /\ b[m].data = a[k].data
        BY <2>1
      <3>3. i = m
        BY <2>3, <3>1, <3>2 DEF Distinct, B
      <3>4. QED
        BY <3>1, <3>2, <3>3
    <2>4. QED
      BY <1>11, <2>2, <2>3 DEF Distinct, A
  <1>13. ASSUME Kind(a[p]) = "block"
         PROVE  /\ DataOf(a) = DataOf(b) \cup {a[p].data}
                /\ Distinct(a) => a[p].data \notin DataOf(b)
                /\ Distinct(b) /\ a[p].data \notin DataOf(b) => Distinct(a)
    <2>1. p \in A
      BY <1>7, <1>13
    <2>2. \A k \in A : k # p =>
            \E m \in B : Old(m, p) = k /\ b[m].data = a[k].data
      BY <1>6
    <2>3. DataOf(a) = DataOf(b) \cup {a[p].data}
      <3>1. \A k \in A : a[k].data \in DataOf(b) \cup {a[p].data}
        BY <1>9, <2>2
      <3>2. QED
        BY <1>9, <1>11, <2>1, <3>1
    <2>4. ASSUME Distinct(a), NEW m \in B, b[m].data = a[p].data
          PROVE  FALSE
      BY <1>5, <2>1, <2>4 DEF Distinct, A
    <2>5. ASSUME Distinct(b), a[p].data \notin DataOf(b),
                 NEW j \in A, NEW k \in A, a[j].data = a[k].data
          PROVE  j = k
      <3>1. \A i \in A : i # p => a[i].data \in DataOf(b)
        BY <1>9, <2>2
      <3>2. CASE j = p \/ k = p
        BY <2>5, <3>1, <3>2
      <3>3. CASE j # p /\ k # p
        <4>1. PICK i \in B : Old(i, p) = j /\ b[i].data = a[j].data
          BY <2>2, <3>3
        <4>2. PICK m \in B : Old(m, p) = k /\ b[m].data = a[k].data
          BY <2>2, <3>3
        <4>3. i = m
          BY <2>5, <4>1, <4>2 DEF Distinct, B
        <4>4. QED
          BY <4>1, <4>2, <4>3
      <3>4. QED
        BY <3>2, <3>3
    <2>6. QED
      BY <1>9, <2>3, <2>4, <2>5 DEF Distinct, A
  <1>14. QED
    BY <1>10, <1>11, <1>12, <1>13

-----------------------------------------------------------------------------
(* What the task will hear of, and what each step makes of it.             *)

Sent(mac) == [id |-> "SEND_CB", mac |-> mac]

AheadOf(q, c, u) == q \o c \o [k \in DOMAIN u |-> Sent(u[k])]

\* Its types, and where its elements come from.
LEMMA AheadElements ==
  ASSUME NEW q \in Seq(Events), NEW c \in Seq(Events), NEW u \in Seq(Macs)
  PROVE  /\ AheadOf(q, c, u) \in Seq(Events)
         /\ Len(AheadOf(q, c, u)) = Len(q) + Len(c) + Len(u)
         /\ \A k \in 1 .. Len(q) : AheadOf(q, c, u)[k] = q[k]
         /\ \A k \in 1 .. Len(c) : AheadOf(q, c, u)[Len(q) + k] = c[k]
         /\ \A k \in 1 .. Len(u) :
              AheadOf(q, c, u)[Len(q) + Len(c) + k] = Sent(u[k])
  <1> DEFINE s == [k \in DOMAIN u |-> Sent(u[k])]
             qc == q \o c
  <1>1. \A mac \in Macs : Sent(mac) \in Events
    BY DEF Sent, Events
  <1>2. DOMAIN u = 1 .. Len(u) /\ Len(u) \in Nat
    BY LenProperties
  <1>3. s \in [1 .. Len(u) -> Events]
    BY <1>1, <1>2, ElementOfSeq
  <1>4. s \in Seq(Events)
    BY <1>2, <1>3, SeqDef
  <1>5. Len(s) = Len(u)
    BY <1>2, <1>3, <1>4, LenProperties
  <1>6. \A k \in 1 .. Len(u) : s[k] = Sent(u[k])
    BY <1>2
  <1> HIDE DEF s
  <1>7. /\ qc \in Seq(Events) /\ Len(qc) = Len(q) + Len(c)
        /\ \A k \in 1 .. Len(q) + Len(c) :
             qc[k] = IF k <= Len(q) THEN q[k] ELSE c[k - Len(q)]
    BY ConcatProperties
  <1>8. Len(q) \in Nat /\ Len(c) \in Nat
    BY LenProperties
  <1>9. /\ \A k \in 1 .. Len(q) : qc[k] = q[k]
        /\ \A k \in 1 .. Len(c) : qc[Len(q) + k] = c[k]
    <2>1. \A k \in 1 .. Len(q) : qc[k] = q[k]
      BY <1>7, <1>8
    <2>2. ASSUME NEW k \in 1 .. Len(c)
          PROVE  qc[Len(q) + k] = c[k]
      <3>1. /\ Len(q) + k \in 1 .. Len(q) + Len(c)
            /\ ~(Len(q) + k <= Len(q)) /\ Len(q) + k - Len(q) = k
        BY <1>8
      <3>2. QED
        BY <1>7, <3>1
    <2>3. QED
      BY <2>1, <2>2
  <1> HIDE DEF qc
  <1>10. AheadOf(q, c, u) = qc \o s
    BY DEF AheadOf, qc, s
  <1>11. /\ qc \o s \in Seq(Events) /\ Len(qc \o s) = Len(qc) + Len(s)
         /\ \A k \in 1 .. Len(qc) + Len(s) :
              (qc \o s)[k] = IF k <= Len(qc) THEN qc[k] ELSE s[k - Len(qc)]
    <2>1. qc \in Seq(Events)
      BY <1>7
    <2>2. QED
      BY <1>4, <2>1, ConcatProperties
  <1>12. \A k \in 1 .. Len(q) + Len(c) : (qc \o s)[k] = qc[k]
    BY <1>2, <1>5, <1>7, <1>8, <1>11
  <1>13. ASSUME NEW k \in 1 .. Len(u)
         PROVE  (qc \o s)[Len(q) + Len(c) + k] = Sent(u[k])
    <2>1. /\ Len(qc) + k \in 1 .. Len(qc) + Len(s)
          /\ ~(Len(qc) + k <= Len(qc)) /\ Len(qc) + k - Len(qc) = k
      BY <1>2, <1>5, <1>7, <1>8
    <2>2. (qc \o s)[Len(qc) + k] = s[k]
      BY <1>11, <2>1
    <2>3. QED
      BY <1>6, <1>7, <2>2
  <1>14. /\ \A k \in 1 .. Len(q) : k \in 1 .. Len(q) + Len(c)
         /\ \A k \in 1 .. Len(c) : Len(q) + k \in 1 .. Len(q) + Len(c)
    BY <1>8
  <1>15. QED
    BY <1>5, <1>7, <1>9, <1>10, <1>11, <1>12, <1>13, <1>14

\* A sequence is its elements.
LEMMA SameElements ==
  ASSUME NEW a \in Seq(Events), NEW b \in Seq(Events), Len(a) = Len(b),
         \A k \in 1 .. Len(a) : a[k] = b[k]
  PROVE  a = b
  BY SeqEqual

\* A send that is done is on its way to the queue instead.
LEMMA AheadOfSent ==
  ASSUME NEW q \in Seq(Events), NEW u \in Seq(Macs), u # <<>>
  PROVE  AheadOf(q, <<Sent(Head(u))>>, Tail(u)) = AheadOf(q, <<>>, u)
  <1> DEFINE c == <<Sent(Head(u))>>
             a == AheadOf(q, c, Tail(u))
             b == AheadOf(q, <<>>, u)
  <1>1. /\ Head(u) \in Macs /\ Head(u) = u[1] /\ Tail(u) \in Seq(Macs)
        /\ Len(u) \in Nat \ {0} /\ Len(Tail(u)) = Len(u) - 1
        /\ \A k \in 1 .. Len(Tail(u)) : Tail(u)[k] = u[k + 1]
    BY HeadTailProperties, ElementOfSeq, EmptySeq, LenProperties
  <1>2. /\ c \in Seq(Events) /\ Len(c) = 1 /\ c[1] = Sent(u[1])
    BY <1>1 DEF Sent, Events
  <1>3. <<>> \in Seq(Events) /\ Len(<<>>) = 0
    OBVIOUS
  <1>4. Len(q) \in Nat
    BY LenProperties
  <1> HIDE DEF c
  <1>5. /\ a \in Seq(Events) /\ Len(a) = Len(q) + 1 + Len(u) - 1
        /\ \A k \in 1 .. Len(q) : a[k] = q[k]
        /\ \A k \in 1 .. 1 : a[Len(q) + k] = c[k]
        /\ \A k \in 1 .. Len(u) - 1 : a[Len(q) + 1 + k] = Sent(Tail(u)[k])
    <2>1. /\ a \in Seq(Events)
          /\ Len(a) = Len(q) + Len(c) + Len(Tail(u))
          /\ \A k \in 1 .. Len(q) : a[k] = q[k]
          /\ \A k \in 1 .. Len(c) : a[Len(q) + k] = c[k]
          /\ \A k \in 1 .. Len(Tail(u)) :
               a[Len(q) + Len(c) + k] = Sent(Tail(u)[k])
      BY <1>1, <1>2, AheadElements, ZenonT(40)
    <2> HIDE DEF a
    <2>2. QED
      BY <1>1, <1>2, <1>4, <2>1
  <1>6. /\ b \in Seq(Events) /\ Len(b) = Len(q) + Len(u)
        /\ \A k \in 1 .. Len(q) : b[k] = q[k]
        /\ \A k \in 1 .. Len(u) : b[Len(q) + k] = Sent(u[k])
    <2>1. /\ b \in Seq(Events)
          /\ Len(b) = Len(q) + Len(<<>>) + Len(u)
          /\ \A k \in 1 .. Len(q) : b[k] = q[k]
          /\ \A k \in 1 .. Len(<<>>) : b[Len(q) + k] = <<>>[k]
          /\ \A k \in 1 .. Len(u) :
               b[Len(q) + Len(<<>>) + k] = Sent(u[k])
      BY <1>3, AheadElements, ZenonT(40)
    <2> HIDE DEF b
    <2>2. QED
      BY <1>1, <1>3, <1>4, <2>1
  <1> HIDE DEF a, b
  <1>7. ASSUME NEW k \in 1 .. Len(b)
        PROVE  a[k] = b[k]
    <2>1. CASE k <= Len(q)
      BY <1>4, <1>5, <1>6, <2>1
    <2>2. CASE k = Len(q) + 1
      <3>1. a[Len(q) + 1] = c[1] /\ b[Len(q) + 1] = Sent(u[1])
        BY <1>1, <1>4, <1>5, <1>6
      <3>2. QED
        BY <1>2, <2>2, <3>1
    <2>3. CASE k > Len(q) + 1
      <3> DEFINE i == k - Len(q) - 1
      <3>1. i \in 1 .. Len(u) - 1 /\ i + 1 \in 1 .. Len(u)
        BY <1>1, <1>4, <1>6, <2>3
      <3>2. k = Len(q) + 1 + i /\ k = Len(q) + (i + 1)
        BY <1>1, <1>4, <1>6, <2>3
      <3> HIDE DEF i
      <3>3. a[k] = Sent(Tail(u)[i]) /\ b[k] = Sent(u[i + 1])
        BY <1>5, <1>6, <3>1, <3>2
      <3>4. QED
        BY <1>1, <3>1, <3>3
    <2>4. QED
      BY <1>1, <1>4, <1>6, <2>1, <2>2, <2>3
  <1>8. a = b
    BY <1>1, <1>4, <1>5, <1>6, <1>7, SameElements
  <1>9. QED
    BY <1>8 DEF a, b, c

\* Or in the queue.
LEMMA AheadOfQueued ==
  ASSUME NEW q \in Seq(Events), NEW c \in Seq(Events), NEW u \in Seq(Macs)
  PROVE  AheadOf(q \o c, <<>>, u) = AheadOf(q, c, u)
  <1>1. q \o c \in Seq(Events)
    BY ConcatProperties
  <1>2. (q \o c) \o <<>> = q \o c
    BY <1>1, ConcatEmptySeq
  <1>3. QED
    BY <1>2 DEF AheadOf

\* The callback of a frame comes between.
LEMMA AheadOfCallback ==
  ASSUME NEW q \in Seq(Events), NEW c \in Seq(Events), NEW u \in Seq(Macs),
         Len(c) = 1
  PROVE  /\ Without(AheadOf(q, <<>>, u), AheadOf(q, c, u), Len(q) + 1)
         /\ AheadOf(q, c, u)[Len(q) + 1] = c[1]
  <1> DEFINE a == AheadOf(q, c, u)
             b == AheadOf(q, <<>>, u)
             p == Len(q) + 1
  <1>1. <<>> \in Seq(Events) /\ Len(<<>>) = 0
    OBVIOUS
  <1>2. Len(q) \in Nat /\ Len(u) \in Nat
    BY LenProperties
  <1>3. /\ a \in Seq(Events) /\ Len(a) = Len(q) + 1 + Len(u)
        /\ \A k \in 1 .. Len(q) : a[k] = q[k]
        /\ \A k \in 1 .. 1 : a[Len(q) + k] = c[k]
        /\ \A k \in 1 .. Len(u) : a[Len(q) + 1 + k] = Sent(u[k])
    <2>1. /\ a \in Seq(Events)
          /\ Len(a) = Len(q) + Len(c) + Len(u)
          /\ \A k \in 1 .. Len(q) : a[k] = q[k]
          /\ \A k \in 1 .. Len(c) : a[Len(q) + k] = c[k]
          /\ \A k \in 1 .. Len(u) :
               a[Len(q) + Len(c) + k] = Sent(u[k])
      BY AheadElements, ZenonT(40)
    <2> HIDE DEF a
    <2>2. QED
      BY <1>2, <2>1
  <1>4. /\ b \in Seq(Events) /\ Len(b) = Len(q) + Len(u)
        /\ \A k \in 1 .. Len(q) : b[k] = q[k]
        /\ \A k \in 1 .. Len(u) : b[Len(q) + k] = Sent(u[k])
    <2>1. /\ b \in Seq(Events)
          /\ Len(b) = Len(q) + Len(<<>>) + Len(u)
          /\ \A k \in 1 .. Len(q) : b[k] = q[k]
          /\ \A k \in 1 .. Len(<<>>) : b[Len(q) + k] = <<>>[k]
          /\ \A k \in 1 .. Len(u) :
               b[Len(q) + Len(<<>>) + k] = Sent(u[k])
      BY <1>1, AheadElements, ZenonT(40)
    <2> HIDE DEF b
    <2>2. QED
      BY <1>1, <1>2, <2>1
  <1> HIDE DEF a, b
  <1>5. ASSUME NEW m \in 1 .. Len(b)
        PROVE  b[m] = a[Old(m, p)]
    <2>1. CASE m <= Len(q)
      <3>1. Old(m, p) = m /\ m \in 1 .. Len(q)
        BY <1>2, <1>4, <2>1 DEF Old
      <3>2. QED
        BY <1>3, <1>4, <3>1
    <2>2. CASE ~(m <= Len(q))
      <3> DEFINE i == m - Len(q)
      <3>1. i \in 1 .. Len(u) /\ m = Len(q) + i
        BY <1>2, <1>4, <2>2
      <3>2. Old(m, p) = Len(q) + 1 + i
        BY <1>2, <1>4, <2>2 DEF Old
      <3> HIDE DEF i, p
      <3>3. b[m] = Sent(u[i]) /\ a[Old(m, p)] = Sent(u[i])
        BY <1>3, <1>4, <3>1, <3>2
      <3>4. QED
        BY <3>3
    <2>3. QED
      BY <2>1, <2>2
  <1>6. /\ Len(a) \in Nat /\ Len(b) \in Nat
        /\ p \in 1 .. Len(a) /\ Len(b) = Len(a) - 1 /\ a[p] = c[1]
    BY <1>2, <1>3, <1>4
  <1> HIDE DEF p
  <1>7. Without(b, a, p) /\ a[p] = c[1]
    BY <1>5, <1>6 DEF Without
  <1>8. QED
    BY <1>7 DEF a, b, p

\* The task takes the first.
LEMMA AheadOfTail ==
  ASSUME NEW q \in Seq(Events), NEW c \in Seq(Events), NEW u \in Seq(Macs),
         q # <<>>
  PROVE  /\ Without(AheadOf(Tail(q), c, u), AheadOf(q, c, u), 1)
         /\ AheadOf(q, c, u)[1] = Head(q)
  <1> DEFINE a == AheadOf(q, c, u)
             b == AheadOf(Tail(q), c, u)
  <1>1. /\ Head(q) = q[1] /\ Tail(q) \in Seq(Events)
        /\ Len(q) \in Nat \ {0} /\ Len(Tail(q)) = Len(q) - 1
        /\ \A k \in 1 .. Len(Tail(q)) : Tail(q)[k] = q[k + 1]
    BY HeadTailProperties, EmptySeq, LenProperties
  <1>2. Len(c) \in Nat /\ Len(u) \in Nat
    BY LenProperties
  <1>3. /\ a \in Seq(Events) /\ Len(a) = Len(q) + Len(c) + Len(u)
        /\ \A k \in 1 .. Len(q) : a[k] = q[k]
        /\ \A k \in 1 .. Len(c) : a[Len(q) + k] = c[k]
        /\ \A k \in 1 .. Len(u) : a[Len(q) + Len(c) + k] = Sent(u[k])
    BY AheadElements
  <1>4. /\ b \in Seq(Events) /\ Len(b) = Len(q) - 1 + Len(c) + Len(u)
        /\ \A k \in 1 .. Len(q) - 1 : b[k] = q[k + 1]
        /\ \A k \in 1 .. Len(c) : b[Len(q) - 1 + k] = c[k]
        /\ \A k \in 1 .. Len(u) : b[Len(q) - 1 + Len(c) + k] = Sent(u[k])
    <2>1. /\ b \in Seq(Events)
          /\ Len(b) = Len(Tail(q)) + Len(c) + Len(u)
          /\ \A k \in 1 .. Len(Tail(q)) : b[k] = Tail(q)[k]
          /\ \A k \in 1 .. Len(c) : b[Len(Tail(q)) + k] = c[k]
          /\ \A k \in 1 .. Len(u) :
               b[Len(Tail(q)) + Len(c) + k] = Sent(u[k])
      BY <1>1, AheadElements, ZenonT(40)
    <2> HIDE DEF b
    <2>2. QED
      BY <1>1, <1>2, <2>1
  <1> HIDE DEF a, b
  <1>5. ASSUME NEW m \in 1 .. Len(b)
        PROVE  b[m] = a[Old(m, 1)]
    <2>1. Old(m, 1) = m + 1
      BY <1>1, <1>2, <1>4 DEF Old
    <2>2. CASE m <= Len(q) - 1
      <3>1. m \in 1 .. Len(q) - 1 /\ m + 1 \in 1 .. Len(q)
        BY <1>1, <1>2, <1>4, <2>2
      <3>2. QED
        BY <1>3, <1>4, <2>1, <3>1
    <2>3. CASE ~(m <= Len(q) - 1) /\ m <= Len(q) - 1 + Len(c)
      <3> DEFINE i == m - (Len(q) - 1)
      <3>1. /\ i \in 1 .. Len(c) /\ m = Len(q) - 1 + i
            /\ m + 1 = Len(q) + i
        BY <1>1, <1>2, <1>4, <2>3
      <3> HIDE DEF i
      <3>2. b[m] = c[i] /\ a[m + 1] = c[i]
        BY <1>3, <1>4, <3>1
      <3>3. QED
        BY <2>1, <3>2
    <2>4. CASE ~(m <= Len(q) - 1 + Len(c))
      <3> DEFINE i == m - (Len(q) - 1 + Len(c))
      <3>1. /\ i \in 1 .. Len(u) /\ m = Len(q) - 1 + Len(c) + i
            /\ m + 1 = Len(q) + Len(c) + i
        BY <1>1, <1>2, <1>4, <2>4
      <3> HIDE DEF i
      <3>2. b[m] = Sent(u[i]) /\ a[m + 1] = Sent(u[i])
        BY <1>3, <1>4, <3>1
      <3>3. QED
        BY <2>1, <3>2
    <2>5. QED
      BY <2>2, <2>3, <2>4
  <1>6. /\ Len(a) \in Nat /\ Len(b) \in Nat
        /\ 1 \in 1 .. Len(a) /\ Len(b) = Len(a) - 1 /\ a[1] = Head(q)
    BY <1>1, <1>2, <1>3, <1>4
  <1>7. Without(b, a, 1) /\ a[1] = Head(q)
    BY <1>5, <1>6 DEF Without
  <1>8. QED
    BY <1>7 DEF a, b

\* A send that begins is the last.
LEMMA AheadOfSend ==
  ASSUME NEW q \in Seq(Events), NEW c \in Seq(Events), NEW u \in Seq(Macs),
         NEW mac \in Macs
  PROVE  LET a == AheadOf(q, c, Append(u, mac)) IN
         /\ Without(AheadOf(q, c, u), a, Len(a))
         /\ a[Len(a)] = Sent(mac)
  <1> DEFINE v == Append(u, mac)
             a == AheadOf(q, c, v)
             b == AheadOf(q, c, u)
             p == Len(q) + Len(c) + Len(v)
  <1>1. /\ v \in Seq(Macs) /\ Len(v) = Len(u) + 1
        /\ \A k \in 1 .. Len(u) : v[k] = u[k]
        /\ v[Len(u) + 1] = mac
    BY AppendProperties
  <1> HIDE DEF v
  <1>2. Len(q) \in Nat /\ Len(c) \in Nat /\ Len(u) \in Nat
    BY LenProperties
  <1>3. /\ a \in Seq(Events) /\ Len(a) = Len(q) + Len(c) + (Len(u) + 1)
        /\ \A k \in 1 .. Len(q) : a[k] = q[k]
        /\ \A k \in 1 .. Len(c) : a[Len(q) + k] = c[k]
        /\ \A k \in 1 .. Len(u) + 1 : a[Len(q) + Len(c) + k] = Sent(v[k])
    <2>1. /\ a \in Seq(Events)
          /\ Len(a) = Len(q) + Len(c) + Len(v)
          /\ \A k \in 1 .. Len(q) : a[k] = q[k]
          /\ \A k \in 1 .. Len(c) : a[Len(q) + k] = c[k]
          /\ \A k \in 1 .. Len(v) :
               a[Len(q) + Len(c) + k] = Sent(v[k])
      BY <1>1, AheadElements, ZenonT(40)
    <2> HIDE DEF a
    <2>2. QED
      BY <1>1, <1>2, <2>1
  <1>4. /\ b \in Seq(Events) /\ Len(b) = Len(q) + Len(c) + Len(u)
        /\ \A k \in 1 .. Len(q) : b[k] = q[k]
        /\ \A k \in 1 .. Len(c) : b[Len(q) + k] = c[k]
        /\ \A k \in 1 .. Len(u) : b[Len(q) + Len(c) + k] = Sent(u[k])
    BY AheadElements
  <1> HIDE DEF a, b
  <1>5. ASSUME NEW m \in 1 .. Len(b)
        PROVE  b[m] = a[m]
    <2>1. CASE m <= Len(q)
      <3>1. m \in 1 .. Len(q)
        BY <1>2, <1>4, <2>1
      <3>2. QED
        BY <1>3, <1>4, <3>1
    <2>2. CASE ~(m <= Len(q)) /\ m <= Len(q) + Len(c)
      <3> DEFINE i == m - Len(q)
      <3>1. i \in 1 .. Len(c) /\ m = Len(q) + i
        BY <1>2, <1>4, <2>2
      <3> HIDE DEF i
      <3>2. QED
        BY <1>3, <1>4, <3>1
    <2>3. CASE ~(m <= Len(q) + Len(c))
      <3> DEFINE i == m - (Len(q) + Len(c))
      <3>1. /\ i \in 1 .. Len(u) /\ i \in 1 .. Len(u) + 1
            /\ m = Len(q) + Len(c) + i
        BY <1>2, <1>4, <2>3
      <3> HIDE DEF i
      <3>2. b[m] = Sent(u[i]) /\ a[m] = Sent(v[i])
        BY <1>3, <1>4, <3>1
      <3>3. QED
        BY <1>1, <3>1, <3>2
    <2>4. QED
      BY <2>1, <2>2, <2>3
  <1>6. /\ Len(a) \in Nat /\ Len(b) \in Nat /\ p = Len(a)
        /\ p \in 1 .. Len(a) /\ Len(b) = Len(a) - 1
    BY <1>1, <1>2, <1>3, <1>4
  <1>7. \A m \in 1 .. Len(b) : Old(m, Len(a)) = m
    BY <1>6 DEF Old
  <1>8. a[Len(a)] = Sent(mac)
    <2>1. Len(u) + 1 \in 1 .. Len(u) + 1
      BY <1>2
    <2>2. QED
      BY <1>1, <1>3, <2>1
  <1>9. Without(b, a, Len(a)) /\ a[Len(a)] = Sent(mac)
    BY <1>5, <1>6, <1>7, <1>8 DEF Without
  <1>10. QED
    BY <1>9 DEF a, b, v

\* b is a piece of a.
PieceOf(b, a, from) ==
  /\ Len(a) \in Nat /\ Len(b) \in Nat /\ from \in Nat
  /\ from + Len(b) <= Len(a)
  /\ \A k \in 1 .. Len(b) : b[k] = a[from + k]

LEMMA PieceData ==
  ASSUME NEW a, NEW b, NEW from, PieceOf(b, a, from)
  PROVE  /\ Distinct(a) => Distinct(b)
         /\ DataOf(b) \subseteq DataOf(a)
  <1>1. \A k \in Of(b, "block") :
          /\ k \in 1 .. Len(b) /\ from + k \in Of(a, "block")
          /\ b[k] = a[from + k]
    BY DEF PieceOf, Of
  <1>2. DataOf(b) \subseteq DataOf(a)
    BY <1>1 DEF DataOf
  <1>3. \A j, k \in 1 .. Len(b) : from + j = from + k => j = k
    BY DEF PieceOf
  <1>4. Distinct(a) => Distinct(b)
    BY <1>1, <1>3 DEF Distinct
  <1>5. QED
    BY <1>2, <1>4

\* What is left when the queue is deleted, and when ESP-NOW is taken down.
LEMMA AheadOfDeleted ==
  ASSUME NEW q \in Seq(Events), NEW c \in Seq(Events), NEW u \in Seq(Macs)
  PROVE  /\ PieceOf(AheadOf(<<>>, c, u), AheadOf(q, c, u), Len(q))
         /\ PieceOf(AheadOf(q, c, <<>>), AheadOf(q, c, u), 0)
  <1> DEFINE a == AheadOf(q, c, u)
             b == AheadOf(<<>>, c, u)
             d == AheadOf(q, c, <<>>)
  <1>1. /\ <<>> \in Seq(Events) /\ <<>> \in Seq(Macs) /\ Len(<<>>) = 0
    OBVIOUS
  <1>2. Len(q) \in Nat /\ Len(c) \in Nat /\ Len(u) \in Nat
    BY LenProperties
  <1>3. /\ a \in Seq(Events) /\ Len(a) = Len(q) + Len(c) + Len(u)
        /\ \A k \in 1 .. Len(q) : a[k] = q[k]
        /\ \A k \in 1 .. Len(c) : a[Len(q) + k] = c[k]
        /\ \A k \in 1 .. Len(u) : a[Len(q) + Len(c) + k] = Sent(u[k])
    BY AheadElements
  <1>4. /\ b \in Seq(Events) /\ Len(b) = Len(c) + Len(u)
        /\ \A k \in 1 .. Len(c) : b[k] = c[k]
        /\ \A k \in 1 .. Len(u) : b[Len(c) + k] = Sent(u[k])
    <2>1. /\ b \in Seq(Events)
          /\ Len(b) = Len(<<>>) + Len(c) + Len(u)
          /\ \A k \in 1 .. Len(<<>>) : b[k] = <<>>[k]
          /\ \A k \in 1 .. Len(c) : b[Len(<<>>) + k] = c[k]
          /\ \A k \in 1 .. Len(u) :
               b[Len(<<>>) + Len(c) + k] = Sent(u[k])
      BY <1>1, AheadElements, ZenonT(40)
    <2> HIDE DEF b
    <2>2. QED
      BY <1>1, <1>2, <2>1
  <1>5. /\ d \in Seq(Events) /\ Len(d) = Len(q) + Len(c)
        /\ \A k \in 1 .. Len(q) : d[k] = q[k]
        /\ \A k \in 1 .. Len(c) : d[Len(q) + k] = c[k]
    <2>1. /\ d \in Seq(Events)
          /\ Len(d) = Len(q) + Len(c) + Len(<<>>)
          /\ \A k \in 1 .. Len(q) : d[k] = q[k]
          /\ \A k \in 1 .. Len(c) : d[Len(q) + k] = c[k]
          /\ \A k \in 1 .. Len(<<>>) :
               d[Len(q) + Len(c) + k] = Sent(<<>>[k])
      BY <1>1, AheadElements, ZenonT(40)
    <2> HIDE DEF d
    <2>2. QED
      BY <1>1, <1>2, <2>1
  <1> HIDE DEF a, b, d
  <1>6. ASSUME NEW m \in 1 .. Len(b)
        PROVE  b[m] = a[Len(q) + m]
    <2>1. CASE m <= Len(c)
      BY <1>2, <1>3, <1>4, <2>1
    <2>2. CASE ~(m <= Len(c))
      <3> DEFINE i == m - Len(c)
      <3>1. /\ i \in 1 .. Len(u) /\ m = Len(c) + i
            /\ Len(q) + m = Len(q) + Len(c) + i
        BY <1>2, <1>4, <2>2
      <3> HIDE DEF i
      <3>2. QED
        BY <1>3, <1>4, <3>1
    <2>3. QED
      BY <2>1, <2>2
  <1>7. ASSUME NEW m \in 1 .. Len(d)
        PROVE  d[m] = a[0 + m]
    <2>1. CASE m <= Len(q)
      BY <1>2, <1>3, <1>5, <2>1
    <2>2. CASE ~(m <= Len(q))
      <3> DEFINE i == m - Len(q)
      <3>1. i \in 1 .. Len(c) /\ m = Len(q) + i /\ 0 + m = m
        BY <1>2, <1>5, <2>2
      <3> HIDE DEF i
      <3>2. QED
        BY <1>3, <1>5, <3>1
    <2>3. QED
      BY <2>1, <2>2
  <1>8. PieceOf(b, a, Len(q)) /\ PieceOf(d, a, 0)
    BY <1>2, <1>3, <1>4, <1>5, <1>6, <1>7 DEF PieceOf
  <1>9. QED
    BY <1>8 DEF a, b, d

-----------------------------------------------------------------------------
(* The invariant, of what is ahead and of the task's state.                *)

WithQueue == {"starting", "ready", "delay", "deinit"}

\* Each kind of send is under way once at most, the broadcast before the
\* unicast; and what the task does next agrees with what it will hear of.
SendsAgree(a, tk, param, begun) ==
  /\ tk \in WithQueue =>
       /\ One(a, "broadcast") /\ One(a, "unicast") /\ BroadcastsFirst(a)
       /\ begun + param.count =
            SendCount + (IF Of(a, "unicast") = {} THEN 0 ELSE 1)
  /\ tk \in {"starting", "delay"} =>
       Of(a, "broadcast") = {} /\ Of(a, "unicast") = {}
  /\ tk = "ready" =>
       /\ param.broadcast => Of(a, "broadcast") # {}
       /\ param.unicast <=> Of(a, "unicast") # {}
  /\ ~(param.broadcast /\ param.unicast)
  /\ tk = "starting" => param.broadcast /\ param.dest_mac = Broadcast
  /\ tk = "delay" => IF param.dest_mac = Broadcast THEN param.broadcast
                     ELSE param.unicast /\ param.count > 0
  /\ ~param.unicast => begun = 0

\* The blocks have different numbers, none beyond the frames received.
BlocksAgree(a, tk, blocks, received) ==
  /\ Distinct(a)
  /\ DataOf(a) \subseteq 1 .. received /\ blocks \subseteq 1 .. received
  /\ tk \in WithQueue => blocks = DataOf(a)

\* The fields of send_param.
Params(param) ==
  /\ param.unicast \in BOOLEAN /\ param.broadcast \in BOOLEAN
  /\ param.count \in 0 .. SendCount /\ param.dest_mac \in Macs

\* An event of received data does not matter for the sends.
LEMMA SendsAroundBlock ==
  ASSUME NEW a, NEW b, NEW p, Without(b, a, p), Kind(a[p]) = "block",
         NEW tk, NEW param, NEW begun
  PROVE  SendsAgree(a, tk, param, begun) <=> SendsAgree(b, tk, param, begun)
  <1>1. /\ One(a, "broadcast") <=> One(b, "broadcast")
        /\ Of(a, "broadcast") = {} <=> Of(b, "broadcast") = {}
    <2>1. Kind(a[p]) # "broadcast"
      OBVIOUS
    <2>2. QED
      BY <2>1, WithoutKind
  <1>2. /\ One(a, "unicast") <=> One(b, "unicast")
        /\ Of(a, "unicast") = {} <=> Of(b, "unicast") = {}
    <2>1. Kind(a[p]) # "unicast"
      OBVIOUS
    <2>2. QED
      BY <2>1, WithoutKind
  <1>3. BroadcastsFirst(a) <=> BroadcastsFirst(b)
    BY WithoutOrder
  <1>4. QED
    BY <1>1, <1>2, <1>3 DEF SendsAgree

\* Nor does an event of a send for the blocks.
LEMMA BlocksAroundSend ==
  ASSUME NEW a, NEW b, NEW p, Without(b, a, p), Kind(a[p]) # "block",
         NEW tk, NEW blocks, NEW received
  PROVE  BlocksAgree(a, tk, blocks, received)
           <=> BlocksAgree(b, tk, blocks, received)
  BY WithoutData DEF BlocksAgree

LEMMA SentKinds ==
  ASSUME NEW mac
  PROVE  /\ mac = Broadcast => Kind(Sent(mac)) = "broadcast"
         /\ mac # Broadcast => Kind(Sent(mac)) = "unicast"
         /\ Kind(Sent(mac)) # "block"
  BY DEF Kind, Sent

\* The task hears of a send: nothing else is under way, unless it was a
\* broadcast and broadcasting is over.
LEMMA SendsAfterDone ==
  ASSUME NEW a, NEW b, Without(b, a, 1), NEW mac, a[1] = Sent(mac),
         NEW param, Params(param), NEW then, Params(then),
         NEW begun \in 0 .. SendCount,
         SendsAgree(a, "ready", param, begun),
         then.unicast = param.unicast, then.broadcast = param.broadcast,
         then.dest_mac = mac,
         then.count = param.count - (IF mac = Broadcast THEN 0 ELSE 1)
  PROVE  /\ mac = Broadcast /\ ~param.broadcast =>
              SendsAgree(b, "ready", param, begun)
         /\ mac = Broadcast /\ param.broadcast =>
              SendsAgree(b, "delay", then, begun)
         /\ mac # Broadcast /\ then.count = 0 =>
              SendsAgree(b, "deinit", then, begun)
         /\ mac # Broadcast /\ then.count # 0 =>
              SendsAgree(b, "delay", then, begun)
  <1>1. /\ One(a, "broadcast") /\ One(a, "unicast") /\ BroadcastsFirst(a)
        /\ begun + param.count =
             SendCount + (IF Of(a, "unicast") = {} THEN 0 ELSE 1)
        /\ param.broadcast => Of(a, "broadcast") # {}
        /\ param.unicast <=> Of(a, "unicast") # {}
        /\ ~(param.broadcast /\ param.unicast)
        /\ ~param.unicast => begun = 0
    BY DEF SendsAgree, WithQueue
  <1>2. One(b, "broadcast") /\ One(b, "unicast") /\ BroadcastsFirst(b)
    BY <1>1, WithoutKind, WithoutOrder
  <1>3. CASE mac = Broadcast
    <2>1. Kind(a[1]) = "broadcast"
      BY <1>3, SentKinds
    <2>2. Of(b, "broadcast") = {}
      BY <1>1, <2>1, WithoutKind
    <2>3. Of(a, "unicast") = {} <=> Of(b, "unicast") = {}
      <3>1. Kind(a[1]) # "unicast"
        BY <2>1
      <3>2. QED
        BY <3>1, WithoutKind
    <2>4. then.count = param.count
      BY <1>3 DEF Params
    <2>5. begun + param.count =
            SendCount + (IF Of(b, "unicast") = {} THEN 0 ELSE 1)
      BY <1>1, <2>3
    <2>6. ~param.broadcast => SendsAgree(b, "ready", param, begun)
      BY <1>1, <1>2, <2>2, <2>3, <2>5 DEF SendsAgree
    <2>7. param.broadcast => SendsAgree(b, "delay", then, begun)
      <3>1. param.broadcast => Of(b, "unicast") = {}
        BY <1>1, <2>3
      <3>2. QED
        BY <1>1, <1>2, <1>3, <2>2, <2>4, <2>5, <3>1 DEF SendsAgree
    <2>8. QED
      BY <1>3, <2>6, <2>7
  <1>4. CASE mac # Broadcast
    <2>1. Kind(a[1]) = "unicast"
      BY <1>4, SentKinds
    <2>2. Of(a, "unicast") # {} /\ Of(b, "unicast") = {}
      BY <1>1, <2>1, WithoutKind
    <2>3. param.unicast /\ ~param.broadcast
      BY <1>1, <2>2
    <2>4. Of(b, "broadcast") = {}
      <3>1. Of(a, "broadcast") = {}
        <4>1. 1 \in Of(a, "unicast")
          BY <2>1 DEF Of, Without
        <4>2. \A j \in Of(a, "broadcast") : j \in Nat /\ j >= 1 /\ j < 1
          BY <1>1, <4>1 DEF BroadcastsFirst, Of, Without
        <4>3. QED
          BY <4>2
      <3>2. Kind(a[1]) # "broadcast"
        BY <2>1
      <3>3. QED
        BY <3>1, <3>2, WithoutKind
    <2>5. begun + then.count = SendCount
      <3>1. begun + param.count = SendCount + 1
        BY <1>1, <2>2
      <3>2. then.count = param.count - 1
        BY <1>4
      <3>3. SendCount \in Nat
        BY ExampleAssumption
      <3>4. QED
        BY <3>1, <3>2, <3>3 DEF Params
    <2>6. SendCount = SendCount + 0
      BY ExampleAssumption
    <2>7. then.count = 0 \/ then.count > 0
      BY ExampleAssumption DEF Params
    <2>8. then.unicast /\ ~then.broadcast
      BY <2>3
    <2>9. then.count = 0 => SendsAgree(b, "deinit", then, begun)
      BY <1>2, <2>2, <2>4, <2>5, <2>6, <2>8 DEF SendsAgree
    <2>10. then.count # 0 => SendsAgree(b, "delay", then, begun)
      BY <1>2, <1>4, <2>2, <2>4, <2>5, <2>6, <2>7, <2>8 DEF SendsAgree
    <2>11. QED
      BY <1>4, <2>9, <2>10
  <1>5. QED
    BY <1>3, <1>4

\* The next send begins.
LEMMA SendsAfterNext ==
  ASSUME NEW a, NEW b, NEW mac, Without(b, a, Len(a)), a[Len(a)] = Sent(mac),
         NEW tk \in {"starting", "delay"},
         NEW param, Params(param), param.dest_mac = mac,
         NEW begun \in 0 .. SendCount,
         SendsAgree(b, tk, param, begun)
  PROVE  LET sum == begun + (IF mac = Broadcast THEN 0 ELSE 1)
         IN  SendsAgree(a, "ready", param, sum) /\ sum \in 0 .. SendCount
  <1> DEFINE sum == begun + (IF mac = Broadcast THEN 0 ELSE 1)
  <1>1. /\ One(b, "broadcast") /\ One(b, "unicast") /\ BroadcastsFirst(b)
        /\ begun + param.count = SendCount + 0
        /\ Of(b, "broadcast") = {} /\ Of(b, "unicast") = {}
        /\ ~(param.broadcast /\ param.unicast)
        /\ mac = Broadcast => param.broadcast
        /\ mac # Broadcast => param.unicast /\ param.count > 0
        /\ ~param.unicast => begun = 0
    BY DEF SendsAgree, WithQueue
  <1>2. SendCount \in Nat /\ begun + param.count = SendCount
    BY <1>1, ExampleAssumption
  <1>3. BroadcastsFirst(a)
    BY <1>1, WithoutOrder
  <1>4. CASE mac = Broadcast
    <2>1. Kind(a[Len(a)]) = "broadcast" /\ Kind(a[Len(a)]) # "unicast"
      BY <1>4, SentKinds
    <2>2. One(a, "broadcast") /\ Of(a, "broadcast") # {}
      BY <1>1, <2>1, WithoutKind
    <2>3. One(a, "unicast") /\ Of(a, "unicast") = {}
      BY <1>1, <2>1, WithoutKind
    <2>4. sum = begun
      BY <1>4
    <2>5. SendsAgree(a, "ready", param, sum)
      BY <1>1, <1>3, <1>4, <2>2, <2>3, <2>4 DEF SendsAgree
    <2>6. QED
      BY <2>4, <2>5
  <1>5. CASE mac # Broadcast
    <2>1. Kind(a[Len(a)]) = "unicast" /\ Kind(a[Len(a)]) # "broadcast"
      BY <1>5, SentKinds
    <2>2. One(a, "unicast") /\ Of(a, "unicast") # {}
      BY <1>1, <2>1, WithoutKind
    <2>3. One(a, "broadcast")
      BY <1>1, <2>1, WithoutKind
    <2>4. sum = begun + 1
      BY <1>5
    <2>5. sum + param.count = SendCount + 1 /\ sum \in 0 .. SendCount
      BY <1>1, <1>2, <1>5, <2>4 DEF Params
    <2>6. param.unicast /\ ~param.broadcast
      BY <1>1, <1>5
    <2> HIDE DEF sum
    <2>7. SendsAgree(a, "ready", param, sum)
      BY <1>3, <2>2, <2>3, <2>5, <2>6 DEF SendsAgree
    <2>8. sum \in 0 .. SendCount
      BY <2>5
    <2>9. QED
      BY <2>7, <2>8 DEF sum
  <1>6. QED
    BY <1>4, <1>5

\* A unicast begins beside the broadcast that is under way.
LEMMA SendsAfterStart ==
  ASSUME NEW a, NEW b, NEW mac, Without(b, a, Len(a)), a[Len(a)] = Sent(mac),
         mac # Broadcast, NEW param, ~param.unicast,
         NEW then, then.unicast = TRUE, then.broadcast = FALSE,
         then.count = param.count, param.count \in Nat,
         NEW begun \in Nat,
         SendsAgree(b, "ready", param, begun)
  PROVE  /\ SendsAgree(a, "ready", then, begun + 1)
         /\ begun + 1 \in 0 .. SendCount
  <1>1. /\ One(b, "broadcast") /\ One(b, "unicast") /\ BroadcastsFirst(b)
        /\ begun + param.count =
              SendCount + (IF Of(b, "unicast") = {} THEN 0 ELSE 1)
        /\ Of(b, "unicast") = {} /\ begun = 0
    BY DEF SendsAgree, WithQueue
  <1>2. Kind(a[Len(a)]) = "unicast" /\ Kind(a[Len(a)]) # "broadcast"
    BY SentKinds
  <1>3. One(a, "unicast") /\ Of(a, "unicast") # {}
    BY <1>1, <1>2, WithoutKind
  <1>4. One(a, "broadcast")
    BY <1>1, <1>2, WithoutKind
  <1>5. BroadcastsFirst(a)
    BY <1>1, <1>2, WithoutOrder
  <1>6. begun + 1 + then.count = SendCount + 1 /\ begun + 1 \in 0 .. SendCount
    BY <1>1, ExampleAssumption
  <1>7. SendsAgree(a, "ready", then, begun + 1)
    BY <1>3, <1>4, <1>5, <1>6 DEF SendsAgree
  <1>8. QED
    BY <1>6, <1>7

\* The frame of a peer ends broadcasting, or not.
LEMMA SendsAfterFrame ==
  ASSUME NEW a, NEW param, NEW then, NEW begun,
         SendsAgree(a, "ready", param, begun),
         then.unicast = param.unicast, then.count = param.count,
         then.broadcast => param.broadcast
  PROVE  SendsAgree(a, "ready", then, begun)
  BY DEF SendsAgree

\* The task ends, and the queue is no more.
LEMMA SendsAtEnd ==
  ASSUME NEW a, NEW b, NEW tk, NEW param, NEW begun,
         SendsAgree(a, tk, param, begun)
  PROVE  /\ tk \in WithQueue => SendsAgree(a, "deinit", param, begun)
         /\ SendsAgree(b, "queue_deleted", param, begun)
         /\ SendsAgree(b, "deleted", param, begun)
  BY DEF SendsAgree, WithQueue

\* The blocks, when one more is received, and when one is freed.
LEMMA BlocksAfterReceived ==
  ASSUME NEW a, NEW b, NEW p, Without(b, a, p), Kind(a[p]) = "block",
         NEW received \in Nat, a[p].data = received + 1,
         NEW tk, NEW blocks, BlocksAgree(b, tk, blocks, received)
  PROVE  BlocksAgree(a, tk, blocks \cup {received + 1}, received + 1)
  <1>1. /\ Distinct(b)
        /\ DataOf(b) \subseteq 1 .. received /\ blocks \subseteq 1 .. received
        /\ tk \in WithQueue => blocks = DataOf(b)
    BY DEF BlocksAgree
  <1>2. received + 1 \notin DataOf(b)
    BY <1>1
  <1>3. Distinct(a) /\ DataOf(a) = DataOf(b) \cup {received + 1}
    BY <1>1, <1>2, WithoutData
  <1>4. 1 .. received \subseteq 1 .. received + 1
        /\ received + 1 \in 1 .. received + 1
    OBVIOUS
  <1>5. QED
    BY <1>1, <1>3, <1>4 DEF BlocksAgree

LEMMA BlocksAfterFreed ==
  ASSUME NEW a, NEW b, NEW p, Without(b, a, p), Kind(a[p]) = "block",
         NEW tk, NEW blocks, NEW received, BlocksAgree(a, tk, blocks, received)
  PROVE  BlocksAgree(b, tk, blocks \ {a[p].data}, received)
  <1>1. /\ Distinct(a)
        /\ DataOf(a) \subseteq 1 .. received /\ blocks \subseteq 1 .. received
        /\ tk \in WithQueue => blocks = DataOf(a)
    BY DEF BlocksAgree
  <1>2. /\ Distinct(b) /\ DataOf(a) = DataOf(b) \cup {a[p].data}
        /\ a[p].data \notin DataOf(b)
    BY <1>1, WithoutData
  <1>3. QED
    BY <1>1, <1>2 DEF BlocksAgree

\* malloc failed, or the task went on.
LEMMA BlocksLater ==
  ASSUME NEW a, NEW tk, NEW blocks, NEW received \in Nat,
         BlocksAgree(a, tk, blocks, received), NEW then,
         then \in WithQueue => tk \in WithQueue
  PROVE  /\ BlocksAgree(a, then, blocks, received)
         /\ BlocksAgree(a, then, blocks, received + 1)
  <1>1. 1 .. received \subseteq 1 .. received + 1
    OBVIOUS
  <1>2. QED
    BY <1>1 DEF BlocksAgree

LEMMA BlocksAtEnd ==
  ASSUME NEW a, NEW b, NEW from, PieceOf(b, a, from),
         NEW tk, NEW blocks, NEW received, BlocksAgree(a, tk, blocks, received)
  PROVE  /\ BlocksAgree(b, "queue_deleted", blocks, received)
         /\ BlocksAgree(b, "deleted", blocks, received)
  BY PieceData DEF BlocksAgree, WithQueue

-----------------------------------------------------------------------------
AheadNow == AheadOf(queue, callback, under_way)

EInv ==
  /\ ExampleTypeOK /\ IsFiniteSet(peers)
  /\ SendsAgree(AheadNow, task, send_param, unicasts)
  /\ BlocksAgree(AheadNow, task, heap, arrived)

LEMMA InitEInv == ExampleInit => EInv
  <1> SUFFICES ASSUME ExampleInit
               PROVE  EInv
    OBVIOUS
  <1> USE DEF ExampleInit
  <1>1. Cardinality(peers) = 0 /\ IsFiniteSet(peers)
    BY FS_EmptySet
  <1>2. PICK magic \in Magics :
          send_param = [unicast |-> FALSE, broadcast |-> TRUE,
                        magic |-> magic, count |-> SendCount,
                        dest_mac |-> Broadcast]
    OBVIOUS
  <1>3. /\ send_param.count = SendCount /\ send_param.unicast = FALSE
        /\ send_param.broadcast = TRUE /\ send_param.dest_mac = Broadcast
    BY <1>2
  <1>4. send_param \in [unicast : BOOLEAN, broadcast : BOOLEAN,
                        magic : Magics, count : 0 .. SendCount,
                        dest_mac : Macs]
    BY <1>2, ExampleAssumption DEF Macs
  <1>5. /\ queue \in Seq(Events) /\ Len(queue) = 0
        /\ callback \in Seq(Events) /\ Len(callback) = 0
        /\ under_way \in Seq(Macs) /\ Len(under_way) = 0
    OBVIOUS
  <1>6. ExampleTypeOK
    <2>1. /\ Cardinality(peers) <= MaxPeers /\ Len(queue) <= QueueSize
          /\ Len(callback) <= 1 /\ 0 \in 0 .. MaxArrived /\ 0 \in 0 .. SendCount
      BY <1>1, <1>5, ExampleAssumption
    <2>2. QED
      BY <1>4, <1>5, <2>1 DEF ExampleTypeOK
  <1>7. Len(AheadNow) = 0
    <2>1. Len(AheadNow) = Len(queue) + Len(callback) + Len(under_way)
      BY <1>5, AheadElements DEF AheadNow
    <2>2. QED
      BY <1>5, <2>1
  <1>8. \A kind : Of(AheadNow, kind) = {}
    BY <1>7 DEF Of
  <1>9. SendsAgree(AheadNow, task, send_param, unicasts)
    <2>1. 0 + SendCount = SendCount + 0
      BY ExampleAssumption
    <2>2. /\ One(AheadNow, "broadcast") /\ One(AheadNow, "unicast")
          /\ BroadcastsFirst(AheadNow)
      BY <1>8 DEF One, BroadcastsFirst
    <2>3. QED
      BY <1>3, <1>8, <2>1, <2>2 DEF SendsAgree
  <1>10. BlocksAgree(AheadNow, task, heap, arrived)
    <2>1. Distinct(AheadNow) /\ DataOf(AheadNow) = {}
      BY <1>8 DEF Distinct, DataOf
    <2>2. QED
      BY <2>1 DEF BlocksAgree
  <1>11. QED
    BY <1>1, <1>6, <1>9, <1>10 DEF EInv

\* What the invariant says of the fields.
LEMMA FieldTypes ==
  ASSUME ExampleTypeOK
  PROVE  /\ queue \in Seq(Events) /\ callback \in Seq(Events)
         /\ under_way \in Seq(Macs)
         /\ Len(callback) = 0 \/ Len(callback) = 1
         /\ Params(send_param) /\ arrived \in Nat
         /\ unicasts \in 0 .. SendCount
  <1>1. /\ queue \in Seq(Events) /\ callback \in Seq(Events)
        /\ under_way \in Seq(Macs) /\ Len(callback) <= 1
        /\ unicasts \in 0 .. SendCount /\ arrived \in 0 .. MaxArrived
    BY DEF ExampleTypeOK
  <1>2. Len(callback) \in Nat
    BY <1>1, LenProperties
  <1>3. Params(send_param)
    BY DEF ExampleTypeOK, Params
  <1>4. Len(callback) = 0 \/ Len(callback) = 1
    <2>1. \A n \in Nat : n <= 1 => n = 0 \/ n = 1
      OBVIOUS
    <2>2. Len(callback) <= 1
      BY <1>1
    <2>3. QED
      BY <1>2, <2>1, <2>2, Zenon
  <1>5. arrived \in Nat
    BY <1>1, ExampleAssumption
  <1>6. QED
    BY <1>1, <1>3, <1>4, <1>5

\* A frame, or a broadcast or unicast that was done.
LEMMA EventKinds ==
  ASSUME NEW e \in Events
  PROVE  /\ e.id \in {"SEND_CB", "RECV_CB"}
         /\ e.id = "RECV_CB" => Kind(e) = "block"
         /\ e.id = "RECV_CB" => e.frame \in Received
         /\ e.id = "SEND_CB" => e = Sent(e.mac) /\ e.mac \in Macs
  <1>1. CASE e \in [id : {"SEND_CB"}, mac : Macs]
    <2>1. e.id = "SEND_CB" /\ e.mac \in Macs
      BY <1>1
    <2>2. e = Sent(e.mac)
      BY <1>1 DEF Sent
    <2>3. QED
      BY <2>1, <2>2
  <1>2. CASE e \in [id : {"RECV_CB"}, frame : Received, data : 1 .. MaxArrived]
    BY <1>2 DEF Kind
  <1>3. QED
    BY <1>1, <1>2 DEF Events

\* The steps that leave what is ahead as it is.
LEMMA SendCbEInv == EInv /\ SendCb => EInv'
  <1> SUFFICES ASSUME EInv, SendCb
               PROVE  EInv'
    OBVIOUS
  <1> USE DEF SendCb
  <1>1. ExampleTypeOK
    BY DEF EInv
  <1>2. /\ callback = <<>> /\ under_way # <<>> /\ under_way' = Tail(under_way)
        /\ callback' = <<Sent(Head(under_way))>> /\ queue' = queue
    BY DEF Sent
  <1>3. AheadNow' = AheadNow
    BY <1>1, <1>2, FieldTypes, AheadOfSent DEF AheadNow
  <1>4. ExampleTypeOK'
    <2>1. Head(under_way) \in Macs /\ Tail(under_way) \in Seq(Macs)
      BY <1>1, <1>2, FieldTypes, HeadTailProperties
    <2>2. callback' \in Seq(Events) /\ Len(callback') = 1
      BY <1>2, <2>1 DEF Events, Sent
    <2>3. QED
      BY <1>1, <2>1, <2>2 DEF ExampleTypeOK
  <1>5. /\ SendsAgree(AheadNow', task', send_param', unicasts')
        /\ BlocksAgree(AheadNow', task', heap', arrived')
        /\ IsFiniteSet(peers')
    BY <1>3 DEF EInv
  <1>6. QED
    BY <1>4, <1>5 DEF EInv

LEMMA QueueSendEInv == EInv /\ QueueSend => EInv'
  <1> SUFFICES ASSUME EInv, QueueSend
               PROVE  EInv'
    OBVIOUS
  <1> USE DEF QueueSend
  <1>1. ExampleTypeOK
    BY DEF EInv
  <1>2. queue' = queue \o callback /\ callback' = <<>> /\ under_way' = under_way
    OBVIOUS
  <1>3. AheadNow' = AheadNow
    BY <1>1, <1>2, FieldTypes, AheadOfQueued DEF AheadNow
  <1>4. ExampleTypeOK'
    <2>1. queue' \in Seq(Events) /\ Len(queue') = Len(queue) + Len(callback)
      BY <1>1, <1>2, FieldTypes, ConcatProperties
    <2>2. Len(queue') <= QueueSize
      <3>1. Len(queue) < QueueSize /\ Len(queue) \in Nat
        BY <1>1, FieldTypes, LenProperties
      <3>2. QueueSize \in Nat
        BY ExampleAssumption
      <3>3. \A m, n \in Nat, i \in {0, 1} : m < n => m + i <= n
        OBVIOUS
      <3>4. Len(callback) \in {0, 1}
        BY <1>1, FieldTypes
      <3>5. QED
        BY <2>1, <3>1, <3>2, <3>3, <3>4, Zenon
    <2>3. callback' \in Seq(Events) /\ Len(callback') = 0
      BY <1>2
    <2>4. QED
      BY <1>1, <2>1, <2>2, <2>3 DEF ExampleTypeOK
  <1>5. /\ SendsAgree(AheadNow', task', send_param', unicasts')
        /\ BlocksAgree(AheadNow', task', heap', arrived')
        /\ IsFiniteSet(peers')
    BY <1>3 DEF EInv
  <1>6. QED
    BY <1>4, <1>5 DEF EInv

\* The callback of a received frame.
LEMMA RecvCbEInv == EInv /\ RecvCb => EInv'
  <1> SUFFICES ASSUME EInv, RecvCb
               PROVE  EInv'
    OBVIOUS
  <1> USE DEF RecvCb
  <1>1. ExampleTypeOK /\ arrived \in Nat
    BY FieldTypes DEF EInv
  <1>2. /\ callback = <<>> /\ arrived < MaxArrived /\ arrived' = arrived + 1
        /\ queue' = queue /\ under_way' = under_way
        /\ UNCHANGED <<task, send_param, peers, unicasts, halted>>
    OBVIOUS
  <1>3. arrived + 1 \in 1 .. MaxArrived /\ arrived + 1 \in 0 .. MaxArrived
    BY <1>1, <1>2, ExampleAssumption
  <1>4. CASE UNCHANGED <<callback, heap>>
    <2>1. AheadNow' = AheadNow
      BY <1>2, <1>4 DEF AheadNow
    <2>2. ExampleTypeOK'
      BY <1>1, <1>2, <1>3, <1>4 DEF ExampleTypeOK
    <2>3. BlocksAgree(AheadNow, task, heap, arrived + 1)
      BY <1>1, BlocksLater DEF EInv
    <2>4. /\ SendsAgree(AheadNow', task', send_param', unicasts')
          /\ BlocksAgree(AheadNow', task', heap', arrived')
          /\ IsFiniteSet(peers')
      BY <1>2, <1>4, <2>1, <2>3 DEF EInv
    <2>5. QED
      BY <2>2, <2>4 DEF EInv
  <1>5. ASSUME NEW f \in Received,
               callback' = <<[id |-> "RECV_CB", frame |-> f,
                              data |-> arrived']>>,
               heap' = heap \cup {arrived'}
        PROVE  EInv'
    <2> DEFINE e == [id |-> "RECV_CB", frame |-> f, data |-> arrived + 1]
               p == Len(queue) + 1
    <2>1. e \in Events /\ Kind(e) = "block" /\ e.data = arrived + 1
      BY <1>3 DEF Events, Kind
    <2>2. callback' = <<e>>
      BY <1>2, <1>5
    <2> HIDE DEF e
    <2>3. callback' \in Seq(Events) /\ Len(callback') = 1 /\ callback'[1] = e
      BY <2>1, <2>2
    <2>4. Without(AheadNow, AheadNow', p) /\ AheadNow'[p] = e
      BY <1>1, <1>2, <2>3, FieldTypes, AheadOfCallback DEF AheadNow
    <2> HIDE DEF p
    <2>5. SendsAgree(AheadNow', task, send_param, unicasts)
      BY <2>1, <2>4, SendsAroundBlock DEF EInv
    <2>6. BlocksAgree(AheadNow', task, heap \cup {arrived + 1}, arrived + 1)
      BY <1>1, <2>1, <2>4, BlocksAfterReceived DEF EInv
    <2>7. heap' \subseteq 1 .. MaxArrived /\ arrived' \in 0 .. MaxArrived
      BY <1>1, <1>2, <1>3, <1>5 DEF ExampleTypeOK
    <2>8. ExampleTypeOK'
      BY <1>1, <1>2, <2>3, <2>7 DEF ExampleTypeOK
    <2>9. IsFiniteSet(peers')
      BY <1>2 DEF EInv
    <2>10. QED
      BY <1>2, <1>5, <2>5, <2>6, <2>8, <2>9 DEF EInv
  <1>6. QED
    BY <1>4, <1>5

\* A callback gives up: it was that of a frame, since no send is under way
\* while the task sleeps.
LEMMA QueueSendFailsEInv == EInv /\ QueueSendFails => EInv'
  <1> SUFFICES ASSUME EInv, QueueSendFails
               PROVE  EInv'
    OBVIOUS
  <1> USE DEF QueueSendFails
  <1>1. ExampleTypeOK
    BY DEF EInv
  <1>2. /\ callback # <<>> /\ callback' = <<>>
        /\ queue' = queue /\ under_way' = under_way
        /\ UNCHANGED <<task, send_param, peers, arrived, unicasts, halted>>
        /\ task \in {"starting", "delay"}
    OBVIOUS
  <1>3. callback \in Seq(Events) /\ Len(callback) = 1
    BY <1>1, <1>2, FieldTypes, EmptySeq
  <1> DEFINE e == callback[1]
             p == Len(queue) + 1
  <1>4. e \in Events /\ DOMAIN callback = {1}
    <2>1. 1 \in 1 .. Len(callback)
      BY <1>3
    <2>2. DOMAIN callback = 1 .. 1 /\ 1 .. 1 = {1}
      BY <1>3, LenProperties
    <2>3. QED
      BY <1>3, <2>1, <2>2, ElementOfSeq
  <1>5. Without(AheadNow', AheadNow, p) /\ AheadNow[p] = e
    BY <1>1, <1>2, <1>3, FieldTypes, AheadOfCallback DEF AheadNow
  <1>6. /\ Of(AheadNow, "broadcast") = {} /\ Of(AheadNow, "unicast") = {}
        /\ SendsAgree(AheadNow, task, send_param, unicasts)
        /\ BlocksAgree(AheadNow, task, heap, arrived)
    BY <1>2 DEF EInv, SendsAgree
  <1> HIDE DEF e, p
  <1>7. Kind(e) = "block"
    <2>1. Kind(e) # "broadcast" /\ Kind(e) # "unicast"
      BY <1>5, <1>6, WithoutKind
    <2>2. QED
      BY <2>1 DEF Kind
  <1>8. heap' = heap \ {e.data}
    <2>1. e.id = "RECV_CB"
      BY <1>7 DEF Kind
    <2>2. {i \in DOMAIN callback : callback[i].id = "RECV_CB"} = {1}
      BY <1>4, <2>1 DEF e
    <2>3. heap' = heap \ {callback[k].data : k \in {1}}
      BY <2>2
    <2>4. QED
      BY <2>3 DEF e
  <1>9. SendsAgree(AheadNow', task, send_param, unicasts)
    BY <1>5, <1>6, <1>7, SendsAroundBlock
  <1>10. BlocksAgree(AheadNow', task, heap \ {e.data}, arrived)
    BY <1>5, <1>6, <1>7, BlocksAfterFreed
  <1>11. ExampleTypeOK'
    <2>1. callback' \in Seq(Events) /\ Len(callback') = 0
      BY <1>2
    <2>2. heap' \subseteq 1 .. MaxArrived
      BY <1>1, <1>8 DEF ExampleTypeOK
    <2>3. QED
      BY <1>1, <1>2, <2>1, <2>2 DEF ExampleTypeOK
  <1>12. IsFiniteSet(peers')
    BY <1>2 DEF EInv
  <1>13. QED
    BY <1>2, <1>8, <1>9, <1>10, <1>11, <1>12 DEF EInv

LEMMA UseAfterDeleteEInv == EInv /\ UseAfterDelete => EInv'
  <1> SUFFICES ASSUME EInv, UseAfterDelete
               PROVE  EInv'
    OBVIOUS
  <1>1. /\ halted' = TRUE
        /\ UNCHANGED <<task, send_param, peers, queue, callback, under_way,
                       heap, arrived, unicasts>>
    BY DEF UseAfterDelete, wifi
  <1>2. ExampleTypeOK'
    BY <1>1 DEF EInv, ExampleTypeOK
  <1>3. AheadNow' = AheadNow
    BY <1>1 DEF AheadNow
  <1>4. QED
    BY <1>1, <1>2, <1>3 DEF EInv

\* The task's send, or an error of it.
LEMMA SendNextEInv == EInv /\ SendNext => EInv'
  <1> SUFFICES ASSUME EInv, SendNext
               PROVE  EInv'
    OBVIOUS
  <1>1. /\ ExampleTypeOK
        /\ SendsAgree(AheadNow, task, send_param, unicasts)
        /\ BlocksAgree(AheadNow, task, heap, arrived)
    BY DEF EInv
  <1>2. /\ task \in {"starting", "delay"}
        /\ UNCHANGED <<send_param, peers, queue, callback, heap, arrived,
                       halted>>
    BY DEF SendNext
  <1>3. IsFiniteSet(peers')
    BY <1>2 DEF EInv
  <1>4. CASE /\ EspnowSend(send_param.dest_mac) /\ task' = "ready"
    <2> DEFINE mac == send_param.dest_mac
    <2>1. /\ mac \in Macs /\ under_way' = Append(under_way, mac)
          /\ unicasts' = unicasts + (IF mac = Broadcast THEN 0 ELSE 1)
          /\ send_param.dest_mac = mac
      BY <1>1, <1>4, FieldTypes DEF EspnowSend, Params
    <2> HIDE DEF mac
    <2>2. /\ Without(AheadNow, AheadNow', Len(AheadNow'))
          /\ AheadNow'[Len(AheadNow')] = Sent(mac)
      BY <1>1, <1>2, <2>1, FieldTypes, AheadOfSend DEF AheadNow
    <2>3. SendsAgree(AheadNow', "ready", send_param, unicasts')
            /\ unicasts' \in 0 .. SendCount
      BY <1>1, <1>2, <2>1, <2>2, FieldTypes, SendsAfterNext
    <2>4. BlocksAgree(AheadNow', "ready", heap, arrived)
      <3>1. BlocksAgree(AheadNow, "ready", heap, arrived)
        BY <1>1, <1>2, FieldTypes, BlocksLater DEF WithQueue
      <3>2. QED
        BY <2>2, <3>1, BlocksAroundSend, SentKinds
    <2>5. under_way' \in Seq(Macs)
      BY <1>1, <2>1, FieldTypes, AppendProperties
    <2>6. ExampleTypeOK'
      BY <1>1, <1>2, <1>4, <2>3, <2>5 DEF ExampleTypeOK
    <2>7. QED
      BY <1>2, <1>3, <1>4, <2>3, <2>4, <2>6 DEF EInv
  <1>5. CASE /\ task' = "deinit" /\ UNCHANGED <<under_way, unicasts>>
    <2>1. AheadNow' = AheadNow
      BY <1>2, <1>5 DEF AheadNow
    <2>2. SendsAgree(AheadNow, "deinit", send_param, unicasts)
      BY <1>1, <1>2, SendsAtEnd DEF WithQueue
    <2>3. BlocksAgree(AheadNow, "deinit", heap, arrived)
      BY <1>1, <1>2, FieldTypes, BlocksLater DEF WithQueue
    <2>4. ExampleTypeOK'
      BY <1>1, <1>2, <1>5 DEF ExampleTypeOK
    <2>5. QED
      BY <1>2, <1>3, <1>5, <2>1, <2>2, <2>3, <2>4 DEF EInv
  <1>6. QED
    BY <1>4, <1>5 DEF SendNext

\* What xQueueReceive leaves.
LEMMA ReceiveFacts ==
  ASSUME EInv, NEW id, QueueReceive(id), callback' = callback
  PROVE  LET rest == AheadOf(Tail(queue), callback, under_way) IN
         /\ task = "ready" /\ queue' = Tail(queue)
         /\ Head(queue) \in Events /\ Head(queue).id = id
         /\ Tail(queue) \in Seq(Events) /\ Len(queue') <= QueueSize
         /\ Without(rest, AheadNow, 1) /\ AheadNow[1] = Head(queue)
  <1>1. /\ task = "ready" /\ queue' = Tail(queue)
        /\ queue # <<>> /\ Head(queue).id = id
    BY DEF QueueReceive
  <1>2. ExampleTypeOK
    BY DEF EInv
  <1>3. /\ Head(queue) \in Events /\ Tail(queue) \in Seq(Events)
        /\ Len(Tail(queue)) = Len(queue) - 1 /\ Len(queue) \in Nat
    BY <1>1, <1>2, FieldTypes, HeadTailProperties, LenProperties
  <1>4. Len(queue') <= QueueSize
    <2>1. Len(queue) <= QueueSize /\ QueueSize \in Nat
      BY <1>2, ExampleAssumption DEF ExampleTypeOK
    <2>2. \A m, n \in Nat : m <= n => m - 1 <= n
      OBVIOUS
    <2>3. QED
      BY <1>1, <1>3, <2>1, <2>2, Zenon
  <1>5. /\ Without(AheadOf(Tail(queue), callback, under_way), AheadNow, 1)
        /\ AheadNow[1] = Head(queue)
    BY <1>1, <1>2, FieldTypes, AheadOfTail DEF AheadNow
  <1>6. QED
    BY <1>1, <1>3, <1>4, <1>5

LEMMA HandleSendCbEInv == EInv /\ HandleSendCb => EInv'
  <1> SUFFICES ASSUME EInv, HandleSendCb
               PROVE  EInv'
    OBVIOUS
  <1> DEFINE rest == AheadOf(Tail(queue), callback, under_way)
             mac == Head(queue).mac
             then == [send_param EXCEPT !.count = Remaining(mac),
                                        !.dest_mac = mac]
  <1>1. /\ QueueReceive("SEND_CB")
        /\ UNCHANGED <<peers, callback, under_way, heap, arrived, unicasts,
                       halted>>
        /\ IF Ignores(mac) THEN UNCHANGED <<task, send_param>>
           ELSE /\ task' = IF SendDone(mac) THEN "deinit" ELSE "delay"
                /\ send_param' = then
    BY DEF HandleSendCb
  <1>2. /\ task = "ready" /\ queue' = Tail(queue)
        /\ Head(queue) \in Events /\ Head(queue).id = "SEND_CB"
        /\ Tail(queue) \in Seq(Events) /\ Len(queue') <= QueueSize
        /\ Without(rest, AheadNow, 1) /\ AheadNow[1] = Head(queue)
    BY <1>1, ReceiveFacts
  <1>3. AheadNow[1] = Sent(mac) /\ mac \in Macs
    BY <1>2, EventKinds
  <1>4. AheadNow' = rest
    BY <1>1, <1>2 DEF AheadNow
  <1> HIDE DEF rest, mac
  <1>5. /\ ExampleTypeOK
        /\ SendsAgree(AheadNow, "ready", send_param, unicasts)
        /\ BlocksAgree(AheadNow, "ready", heap, arrived)
    BY <1>2 DEF EInv
  <1>6. Params(send_param) /\ unicasts \in 0 .. SendCount /\ arrived \in Nat
    BY <1>5, FieldTypes
  <1>7. BlocksAgree(rest, "ready", heap, arrived)
    BY <1>2, <1>3, <1>5, BlocksAroundSend, SentKinds
  <1>8. BlocksAgree(rest, task', heap, arrived)
    BY <1>6, <1>7, BlocksLater DEF WithQueue
  <1>9. mac # Broadcast => send_param.count > 0
    <2>1. SUFFICES ASSUME mac # Broadcast
                   PROVE  send_param.count > 0
      OBVIOUS
    <2>2. Of(AheadNow, "unicast") # {}
      BY <1>2, <1>3, <2>1, SentKinds, WithoutKind
    <2>3. unicasts + send_param.count = SendCount + 1
      BY <1>5, <2>2 DEF SendsAgree, WithQueue
    <2>4. QED
      BY <1>6, <2>3, ExampleAssumption DEF Params
  <1>10. /\ then.unicast = send_param.unicast
         /\ then.broadcast = send_param.broadcast
         /\ then.dest_mac = mac
         /\ then.count = send_param.count - (IF mac = Broadcast THEN 0 ELSE 1)
         /\ then.magic = send_param.magic
         /\ then \in [unicast : BOOLEAN, broadcast : BOOLEAN, magic : Magics,
                      count : 0 .. SendCount, dest_mac : Macs]
    <2>1. send_param \in [unicast : BOOLEAN, broadcast : BOOLEAN,
                          magic : Magics, count : 0 .. SendCount,
                          dest_mac : Macs]
      BY <1>5 DEF ExampleTypeOK
    <2>2. Remaining(mac) \in 0 .. SendCount
      BY <1>6, <1>9, ExampleAssumption DEF Remaining, Params
    <2>3. QED
      BY <1>3, <2>1, <2>2 DEF Remaining
  <1>11. SendDone(mac) <=> mac # Broadcast /\ then.count = 0
    BY <1>10 DEF SendDone, Remaining
  <1>12. Ignores(mac) <=> mac = Broadcast /\ ~send_param.broadcast
    BY DEF Ignores
  <1> HIDE DEF then
  <1>13. Params(then)
    BY <1>10 DEF Params
  <1>14. /\ Ignores(mac) => SendsAgree(rest, "ready", send_param, unicasts)
         /\ ~Ignores(mac) /\ SendDone(mac) =>
              SendsAgree(rest, "deinit", then, unicasts)
         /\ ~Ignores(mac) /\ ~SendDone(mac) =>
              SendsAgree(rest, "delay", then, unicasts)
    <2>1. /\ mac = Broadcast /\ ~send_param.broadcast =>
               SendsAgree(rest, "ready", send_param, unicasts)
          /\ mac = Broadcast /\ send_param.broadcast =>
               SendsAgree(rest, "delay", then, unicasts)
          /\ mac # Broadcast /\ then.count = 0 =>
               SendsAgree(rest, "deinit", then, unicasts)
          /\ mac # Broadcast /\ then.count # 0 =>
               SendsAgree(rest, "delay", then, unicasts)
      BY <1>2, <1>3, <1>5, <1>6, <1>10, <1>13, SendsAfterDone
    <2>2. QED
      BY <1>11, <1>12, <2>1
  <1>15. SendsAgree(rest, task', send_param', unicasts)
    BY <1>1, <1>2, <1>14
  <1>16. ExampleTypeOK'
    <2>1. task' \in {"ready", "deinit", "delay"}
      BY <1>1, <1>2
    <2>2. send_param' \in [unicast : BOOLEAN, broadcast : BOOLEAN,
                           magic : Magics, count : 0 .. SendCount,
                           dest_mac : Macs]
      BY <1>1, <1>5, <1>10 DEF ExampleTypeOK
    <2>3. QED
      BY <1>1, <1>2, <1>5, <2>1, <2>2 DEF ExampleTypeOK
  <1>17. IsFiniteSet(peers')
    BY <1>1 DEF EInv
  <1>18. QED
    BY <1>1, <1>4, <1>8, <1>15, <1>16, <1>17 DEF EInv

LEMMA DeleteEInv == EInv /\ (DeleteQueue \/ EspnowDeinit) => EInv'
  <1> SUFFICES ASSUME EInv, DeleteQueue \/ EspnowDeinit
               PROVE  EInv'
    OBVIOUS
  <1>1. /\ ExampleTypeOK
        /\ SendsAgree(AheadNow, task, send_param, unicasts)
        /\ BlocksAgree(AheadNow, task, heap, arrived)
    BY DEF EInv
  <1>2. /\ UNCHANGED <<send_param, peers, callback, heap, arrived, unicasts,
                       halted>>
        /\ \/ task' = "queue_deleted" /\ queue' = <<>> /\ under_way' = under_way
           \/ task' = "deleted" /\ queue' = queue /\ under_way' = <<>>
    BY DEF DeleteQueue, EspnowDeinit
  <1>3. \E from : PieceOf(AheadNow', AheadNow, from)
    BY <1>1, <1>2, FieldTypes, AheadOfDeleted DEF AheadNow
  <1>4. task' \in {"queue_deleted", "deleted"}
    BY <1>2
  <1>5. SendsAgree(AheadNow', task', send_param, unicasts)
    BY <1>1, <1>4, SendsAtEnd
  <1>6. BlocksAgree(AheadNow', task', heap, arrived)
    BY <1>1, <1>3, <1>4, BlocksAtEnd
  <1>7. ExampleTypeOK'
    <2>1. /\ <<>> \in Seq(Events) /\ <<>> \in Seq(Macs) /\ Len(<<>>) = 0
          /\ 0 <= QueueSize
      BY ExampleAssumption
    <2>2. queue' \in Seq(Events) /\ Len(queue') <= QueueSize
      BY <1>1, <1>2, <2>1 DEF ExampleTypeOK
    <2>3. under_way' \in Seq(Macs)
      BY <1>1, <1>2, <2>1 DEF ExampleTypeOK
    <2>4. QED
      BY <1>1, <1>2, <1>4, <2>2, <2>3 DEF ExampleTypeOK
  <1>8. IsFiniteSet(peers')
    BY <1>2 DEF EInv
  <1>9. QED
    BY <1>2, <1>5, <1>6, <1>7, <1>8 DEF EInv

\* The rest of HandleRecvCb, on what is ahead once the event is taken.
LEMMA HandleRecvCbEInv == EInv /\ HandleRecvCb => EInv'
  <1> SUFFICES ASSUME EInv, HandleRecvCb
               PROVE  EInv'
    OBVIOUS
  <1> DEFINE rest == AheadOf(Tail(queue), callback, under_way)
             f == Head(queue).frame
  <1>1. /\ QueueReceive("RECV_CB")
        /\ heap' = heap \ {Head(queue).data}
        /\ UNCHANGED <<callback, arrived>>
        /\ IF f.type = "BROADCAST" THEN HandleBroadcast(f)
           ELSE /\ send_param' = [send_param EXCEPT !.broadcast =
                                    @ /\ f.type # "UNICAST"]
                /\ UNCHANGED <<task, peers, under_way, unicasts, halted>>
    BY DEF HandleRecvCb
  <1>2. /\ task = "ready" /\ queue' = Tail(queue)
        /\ Head(queue) \in Events /\ Head(queue).id = "RECV_CB"
        /\ Tail(queue) \in Seq(Events) /\ Len(queue') <= QueueSize
        /\ Without(rest, AheadNow, 1) /\ AheadNow[1] = Head(queue)
    BY <1>1, ReceiveFacts
  <1>3. f \in Received /\ Kind(Head(queue)) = "block"
    BY <1>2, EventKinds
  <1>4. /\ ExampleTypeOK /\ IsFiniteSet(peers)
        /\ SendsAgree(AheadNow, "ready", send_param, unicasts)
        /\ BlocksAgree(AheadNow, "ready", heap, arrived)
    BY <1>2 DEF EInv
  <1>5. /\ Params(send_param) /\ unicasts \in 0 .. SendCount
        /\ arrived \in Nat /\ callback \in Seq(Events)
        /\ under_way \in Seq(Macs)
    BY <1>4, FieldTypes
  <1> HIDE DEF f
  <1>6. SendsAgree(rest, "ready", send_param, unicasts)
    BY <1>2, <1>3, <1>4, SendsAroundBlock
  <1>7. BlocksAgree(rest, "ready", heap', arrived')
    BY <1>1, <1>2, <1>3, <1>4, BlocksAfterFreed
  <1>8. /\ queue' \in Seq(Events) /\ Len(queue') <= QueueSize
        /\ callback' \in Seq(Events) /\ Len(callback') <= 1
        /\ heap' \subseteq 1 .. MaxArrived /\ arrived' \in 0 .. MaxArrived
    BY <1>1, <1>2, <1>4 DEF ExampleTypeOK
  <1>9. /\ send_param \in [unicast : BOOLEAN, broadcast : BOOLEAN,
                            magic : Magics, count : 0 .. SendCount,
                            dest_mac : Macs]
        /\ peers \subseteq Peers /\ Cardinality(peers) <= MaxPeers
        /\ halted \in BOOLEAN
    BY <1>4 DEF ExampleTypeOK
  \* Nothing is sent, and the task goes on.
  <1>10. ASSUME UNCHANGED <<under_way, unicasts>>, task' = "ready",
                send_param'.unicast = send_param.unicast,
                send_param'.count = send_param.count,
                send_param'.broadcast => send_param.broadcast
         PROVE  /\ SendsAgree(AheadNow', task', send_param', unicasts')
                /\ BlocksAgree(AheadNow', task', heap', arrived')
    <2>1. AheadNow' = rest
      BY <1>1, <1>2, <1>10 DEF AheadNow
    <2> HIDE DEF rest
    <2>2. SendsAgree(rest, "ready", send_param', unicasts)
      BY <1>6, <1>10, SendsAfterFrame
    <2>3. QED
      BY <1>7, <1>10, <2>1, <2>2
  \* Nothing is sent, and the task ends.
  <1>11. ASSUME UNCHANGED <<under_way, unicasts, send_param>>,
                task' = "deinit"
         PROVE  /\ SendsAgree(AheadNow', task', send_param', unicasts')
                /\ BlocksAgree(AheadNow', task', heap', arrived')
    <2>1. AheadNow' = rest
      BY <1>1, <1>2, <1>11 DEF AheadNow
    <2> HIDE DEF rest
    <2>2. SendsAgree(rest, "deinit", send_param, unicasts)
      BY <1>6, SendsAtEnd DEF WithQueue
    <2>3. arrived' \in Nat
      BY <1>1, <1>5
    <2>4. BlocksAgree(rest, "deinit", heap', arrived')
      BY <1>7, <2>3, BlocksLater DEF WithQueue
    <2>5. QED
      BY <1>11, <2>1, <2>2, <2>4
  <1>12. CASE f.type # "BROADCAST"
    <2>1. /\ send_param' = [send_param EXCEPT !.broadcast =
                              @ /\ f.type # "UNICAST"]
          /\ UNCHANGED <<task, peers, under_way, unicasts, halted>>
      BY <1>1, <1>12
    <2>2. /\ send_param'.unicast = send_param.unicast
          /\ send_param'.count = send_param.count
          /\ send_param'.broadcast =
               (send_param.broadcast /\ f.type # "UNICAST")
          /\ send_param' \in [unicast : BOOLEAN, broadcast : BOOLEAN,
                              magic : Magics, count : 0 .. SendCount,
                              dest_mac : Macs]
      BY <1>9, <2>1
    <2>3. /\ SendsAgree(AheadNow', task', send_param', unicasts')
          /\ BlocksAgree(AheadNow', task', heap', arrived')
      BY <1>2, <1>10, <2>1, <2>2
    <2>4. ExampleTypeOK'
      BY <1>2, <1>5, <1>8, <1>9, <2>1, <2>2 DEF ExampleTypeOK
    <2>5. QED
      BY <1>4, <2>1, <2>3, <2>4 DEF EInv
  <1>13. CASE f.type = "BROADCAST"
    <2>1. f.mac \in Peers /\ f.mac \in Macs /\ f.mac # Broadcast
      BY <1>3, <1>13, ExampleAssumption DEF Received, Macs, Broadcast
    <2>2. HandleBroadcast(f)
      BY <1>1, <1>13
    <2>3. ASSUME \/ task' = "deinit" /\ UNCHANGED halted
                 \/ /\ Cardinality(peers) = MaxPeers /\ halted' = TRUE
                    /\ UNCHANGED task,
                 UNCHANGED <<send_param, peers, under_way, unicasts>>
          PROVE  EInv'
      <3>1. /\ SendsAgree(AheadNow', task', send_param', unicasts')
            /\ BlocksAgree(AheadNow', task', heap', arrived')
        <4>1. task' = "deinit" \/ task' = "ready"
          BY <1>2, <2>3
        <4>2. QED
          BY <1>10, <1>11, <2>3, <4>1
      <3>2. ExampleTypeOK'
        BY <1>2, <1>5, <1>8, <1>9, <2>3 DEF ExampleTypeOK
      <3>3. QED
        BY <1>4, <2>3, <3>1, <3>2 DEF EInv
    <2>4. ASSUME f.mac \in peers \/ Cardinality(peers) < MaxPeers,
                 peers' = peers \cup {f.mac}, UNCHANGED halted,
                 \/ StartUnicast(f.mac) /\ ~send_param.unicast
                 \/ UNCHANGED <<task, send_param, under_way, unicasts>>
          PROVE  EInv'
      <3>1. /\ IsFiniteSet(peers') /\ peers' \subseteq Peers
            /\ Cardinality(peers') <= MaxPeers
        <4>1. CASE f.mac \in peers
          <5>1. peers' = peers
            BY <2>4, <4>1
          <5>2. QED
            BY <1>4, <1>9, <5>1
        <4>2. CASE f.mac \notin peers
          <5>1. /\ IsFiniteSet(peers')
                /\ Cardinality(peers') = Cardinality(peers) + 1
            BY <1>4, <2>4, <4>2, FS_AddElement
          <5>2. Cardinality(peers) \in Nat
            BY <1>4, FS_CardinalityType
          <5>3. Cardinality(peers) < MaxPeers /\ MaxPeers \in Nat
            BY <2>4, <4>2, ExampleAssumption
          <5>4. \A m, n \in Nat : m < n => m + 1 <= n
            OBVIOUS
          <5>5. Cardinality(peers') <= MaxPeers
            BY <5>1, <5>2, <5>3, <5>4, Zenon
          <5>6. QED
            BY <1>9, <2>1, <2>4, <5>1, <5>5
        <4>3. QED
          BY <4>1, <4>2
      <3>2. CASE UNCHANGED <<task, send_param, under_way, unicasts>>
        <4>1. /\ SendsAgree(AheadNow', task', send_param', unicasts')
              /\ BlocksAgree(AheadNow', task', heap', arrived')
          BY <1>2, <1>10, <3>2
        <4>2. ExampleTypeOK'
          BY <1>2, <1>5, <1>8, <1>9, <2>4, <3>1, <3>2 DEF ExampleTypeOK
        <4>3. QED
          BY <3>1, <4>1, <4>2 DEF EInv
      <3>3. CASE /\ task' = "deinit"
                 /\ UNCHANGED <<send_param, under_way, unicasts>>
        <4>1. /\ SendsAgree(AheadNow', task', send_param', unicasts')
              /\ BlocksAgree(AheadNow', task', heap', arrived')
          BY <1>11, <3>3
        <4>2. ExampleTypeOK'
          BY <1>5, <1>8, <1>9, <2>4, <3>1, <3>3 DEF ExampleTypeOK
        <4>3. QED
          BY <3>1, <4>1, <4>2 DEF EInv
      <3>4. ASSUME EspnowSend(f.mac), ~send_param.unicast,
                   send_param' = [send_param EXCEPT !.dest_mac = f.mac,
                                    !.broadcast = FALSE, !.unicast = TRUE],
                   UNCHANGED task
            PROVE  EInv'
        <4>1. /\ under_way' = Append(under_way, f.mac)
              /\ unicasts' = unicasts + 1
          BY <2>1, <3>4 DEF EspnowSend
        <4>2. /\ Without(rest, AheadNow', Len(AheadNow'))
              /\ AheadNow'[Len(AheadNow')] = Sent(f.mac)
          <5>1. AheadNow' = AheadOf(Tail(queue), callback,
                                    Append(under_way, f.mac))
            BY <1>1, <1>2, <4>1 DEF AheadNow
          <5>2. /\ Tail(queue) \in Seq(Events) /\ callback \in Seq(Events)
                /\ under_way \in Seq(Macs) /\ f.mac \in Macs
            BY <1>2, <1>5, <2>1
          <5>3. QED
            BY <5>1, <5>2, AheadOfSend
        <4>3. /\ send_param'.unicast = TRUE /\ send_param'.broadcast = FALSE
              /\ send_param'.count = send_param.count
              /\ send_param' \in [unicast : BOOLEAN, broadcast : BOOLEAN,
                                  magic : Magics, count : 0 .. SendCount,
                                  dest_mac : Macs]
          BY <1>9, <2>1, <3>4
        <4>4. send_param.count \in Nat /\ unicasts \in Nat
          BY <1>5, ExampleAssumption DEF Params
        <4> HIDE DEF rest
        <4>5. /\ SendsAgree(AheadNow', "ready", send_param', unicasts + 1)
              /\ unicasts + 1 \in 0 .. SendCount
          BY <1>6, <2>1, <3>4, <4>2, <4>3, <4>4, SendsAfterStart
        <4>6. BlocksAgree(AheadNow', "ready", heap', arrived')
          BY <1>7, <4>2, BlocksAroundSend, SentKinds
        <4>7. under_way' \in Seq(Macs)
          BY <1>5, <2>1, <4>1, AppendProperties
        <4>8. ExampleTypeOK'
          <5>1. /\ task' = "ready" /\ halted' \in BOOLEAN
                /\ unicasts' \in 0 .. SendCount
            BY <1>2, <1>9, <2>4, <3>4, <4>1, <4>5
          <5>2. QED
            BY <1>8, <3>1, <4>3, <4>7, <5>1 DEF ExampleTypeOK
        <4>9. QED
          BY <1>2, <3>1, <3>4, <4>1, <4>5, <4>6, <4>8 DEF EInv
      <3>5. QED
        BY <2>4, <3>2, <3>3, <3>4 DEF StartUnicast
    <2>5. QED
      BY <2>2, <2>3, <2>4 DEF HandleBroadcast
  <1>14. QED
    BY <1>12, <1>13

LEMMA NextEInv == EInv /\ [ExampleNext]_exampleVars => EInv'
  <1> SUFFICES ASSUME EInv, [ExampleNext]_exampleVars
               PROVE  EInv'
    OBVIOUS
  <1>1. CASE UNCHANGED exampleVars
    <2>1. UNCHANGED <<task, send_param, peers, queue, callback, under_way,
                      heap, arrived, unicasts, halted>>
      BY <1>1 DEF exampleVars, wifi
    <2>2. ExampleTypeOK'
      BY <2>1 DEF EInv, ExampleTypeOK
    <2>3. AheadNow' = AheadNow
      BY <2>1 DEF AheadNow
    <2>4. QED
      BY <2>1, <2>2, <2>3 DEF EInv
  <1>2. CASE ExampleNext
    BY <1>2, SendCbEInv, RecvCbEInv, QueueSendEInv, QueueSendFailsEInv,
       UseAfterDeleteEInv, SendNextEInv, HandleSendCbEInv, HandleRecvCbEInv,
       DeleteEInv
       DEF ExampleNext, Task
  <1>3. QED
    BY <1>1, <1>2

LEMMA ExampleInvariance == ExampleSpec => []EInv
  BY InitEInv, NextEInv, PTL DEF ExampleSpec

(***************************************************************************)
(* The types of the example application, for any peers and bounds: count   *)
(* never goes below 0, and no more peers are added than there is room for. *)
(***************************************************************************)
THEOREM ExampleTypes == ExampleSpec => []ExampleTypeOK
  <1>1. EInv => ExampleTypeOK
    BY DEF EInv
  <1>2. QED
    BY <1>1, ExampleInvariance, PTL

\* The properties speak of Ahead; it has the events of a kind by place.
LEMMA AheadIs ==
  ASSUME ExampleTypeOK
  PROVE  /\ Ahead = AheadNow /\ AheadNow \in Seq(Events)
         /\ DOMAIN AheadNow = 1 .. Len(AheadNow)
         /\ \A k \in 1 .. Len(AheadNow) : AheadNow[k] \in Events
  <1>1. AheadNow \in Seq(Events)
    BY FieldTypes, AheadElements DEF AheadNow
  <1>2. Ahead = AheadNow
    BY DEF Ahead, AheadNow, AheadOf, Sent
  <1>3. QED
    BY <1>1, <1>2, LenProperties, ElementOfSeq

\* At most one of a kind: none or one.
LEMMA OneOrNone ==
  ASSUME NEW a, NEW kind, One(a, kind)
  PROVE  Cardinality(Of(a, kind)) = IF Of(a, kind) = {} THEN 0 ELSE 1
  <1>1. CASE Of(a, kind) = {}
    BY <1>1, FS_EmptySet
  <1>2. CASE Of(a, kind) # {}
    <2>1. PICK k : k \in Of(a, kind)
      BY <1>2
    <2>2. Of(a, kind) = {k}
      BY <2>1 DEF One
    <2>3. Cardinality({k}) = 1
      BY FS_Singleton
    <2>4. QED
      BY <1>2, <2>2, <2>3
  <1>3. QED
    BY <1>1, <1>2

LEMMA PendingKinds ==
  ASSUME ExampleTypeOK
  PROVE  /\ Pending = Of(AheadNow, "broadcast") \cup Of(AheadNow, "unicast")
         /\ \A k \in Of(AheadNow, "broadcast") : Ahead[k].mac = Broadcast
         /\ \A k \in Of(AheadNow, "unicast") : Ahead[k].mac # Broadcast
  <1>1. \A k \in 1 .. Len(AheadNow) :
          AheadNow[k].id = "SEND_CB" <=> AheadNow[k].id # "RECV_CB"
    BY AheadIs, EventKinds
  <1>2. Pending = {k \in 1 .. Len(AheadNow) : AheadNow[k].id # "RECV_CB"}
    BY <1>1, AheadIs DEF Pending
  <1>3. QED
    BY <1>2, AheadIs DEF Of, Kind

(***************************************************************************)
(* One send at a time (hello_world_main.c:206), for any peers, queue size  *)
(* and count: while it sends, exactly one send under way causes the next.  *)
(***************************************************************************)
THEOREM ExampleOneSendAtATime == ExampleSpec => []OneSendAtATime
  <1>1. EInv => OneSendAtATime
    <2> SUFFICES ASSUME EInv
                 PROVE  OneSendAtATime
      OBVIOUS
    <2> DEFINE broadcasts == Of(AheadNow, "broadcast")
               ones == Of(AheadNow, "unicast")
    <2>1. ExampleTypeOK /\ SendsAgree(AheadNow, task, send_param, unicasts)
      BY DEF EInv
    <2>2. Pending = broadcasts \cup ones
      BY <2>1, PendingKinds
    <2>3. task \in {"starting", "delay"} => Pending = {}
      BY <2>1, <2>2 DEF SendsAgree
    <2>4. ASSUME task = "ready"
          PROVE  Cardinality({k \in Pending : Ahead[k].mac = Broadcast
                                                => send_param.broadcast}) =
                   IF send_param.broadcast \/ send_param.unicast THEN 1 ELSE 0
      <3>1. /\ One(AheadNow, "broadcast") /\ One(AheadNow, "unicast")
            /\ send_param.broadcast => broadcasts # {}
            /\ send_param.unicast <=> ones # {}
            /\ ~(send_param.broadcast /\ send_param.unicast)
        BY <2>1, <2>4 DEF SendsAgree, WithQueue
      <3>2. /\ \A k \in broadcasts : Ahead[k].mac = Broadcast
            /\ \A k \in ones : Ahead[k].mac # Broadcast
        BY <2>1, PendingKinds
      <3> HIDE DEF broadcasts, ones
      <3>3. CASE send_param.broadcast
        <4>1. {k \in Pending : Ahead[k].mac = Broadcast
                                  => send_param.broadcast} = broadcasts
          BY <2>2, <3>1, <3>3
        <4>2. Cardinality(broadcasts) = 1
          BY <3>1, <3>3, OneOrNone DEF broadcasts
        <4>3. QED
          BY <3>3, <4>1, <4>2
      <3>4. CASE ~send_param.broadcast
        <4>1. {k \in Pending : Ahead[k].mac = Broadcast
                                  => send_param.broadcast} = ones
          BY <2>2, <3>2, <3>4
        <4>2. Cardinality(ones) = IF ones = {} THEN 0 ELSE 1
          BY <3>1, OneOrNone DEF ones
        <4>3. QED
          BY <3>1, <3>4, <4>1, <4>2
      <3>5. QED
        BY <3>3, <3>4
    <2>5. QED
      BY <2>3, <2>4 DEF OneSendAtATime
  <1>2. QED
    BY <1>1, ExampleInvariance, PTL

(***************************************************************************)
(* What count has come down by is the sends to a peer that are done.       *)
(***************************************************************************)
THEOREM ExampleUnicastsCounted == ExampleSpec => []UnicastsCounted
  <1>1. EInv => UnicastsCounted
    <2> SUFFICES ASSUME EInv, QueueThere
                 PROVE  unicasts + send_param.count =
                          SendCount + Cardinality({k \in Pending :
                                                   Ahead[k].mac # Broadcast})
      BY DEF UnicastsCounted
    <2>1. ExampleTypeOK /\ SendsAgree(AheadNow, task, send_param, unicasts)
      BY DEF EInv
    <2>2. {k \in Pending : Ahead[k].mac # Broadcast} = Of(AheadNow, "unicast")
      BY <2>1, PendingKinds
    <2>3. /\ One(AheadNow, "unicast")
          /\ unicasts + send_param.count =
               SendCount + (IF Of(AheadNow, "unicast") = {} THEN 0 ELSE 1)
      BY <2>1 DEF SendsAgree, WithQueue, QueueThere
    <2>4. QED
      BY <2>2, <2>3, OneOrNone
  <1>2. QED
    BY <1>1, ExampleInvariance, PTL

(***************************************************************************)
(* Every block of received data belongs to one event, until the queue is   *)
(* deleted.                                                                *)
(***************************************************************************)
THEOREM ExampleBlocksOwned == ExampleSpec => []BlocksOwned
  <1>1. EInv => BlocksOwned
    <2> SUFFICES ASSUME EInv
                 PROVE  BlocksOwned
      OBVIOUS
    <2>1. ExampleTypeOK /\ BlocksAgree(AheadNow, task, heap, arrived)
      BY DEF EInv
    <2>2. {k \in DOMAIN Ahead : Ahead[k].id = "RECV_CB"}
            = Of(AheadNow, "block")
      BY <2>1, AheadIs DEF Of, Kind
    <2>3. Ahead = AheadNow
      BY <2>1, AheadIs
    <2>4. /\ Distinct(AheadNow)
          /\ QueueThere => heap = DataOf(AheadNow)
      BY <2>1 DEF BlocksAgree, WithQueue, QueueThere
    <2>5. QED
      BY <2>2, <2>3, <2>4 DEF BlocksOwned, Distinct, DataOf
  <1>2. QED
    BY <1>1, ExampleInvariance, PTL
=============================================================================
