-------------------------- MODULE FrameStreamProofs --------------------------
(***************************************************************************)
(* What each operation on the line and on the receiving buffer preserves.  *)
(* The readers of both ends are proved from these lemmas.                  *)
(***************************************************************************)
EXTENDS FrameStream, TLAPS

StreamInv == LineTypeOK /\ BufferHoldsStream

\* The numbers the invariant speaks of, for the arithmetic below.
LEMMA StreamFacts ==
  ASSUME StreamInv
  PROVE  /\ buffer.read_index \in Nat /\ buffer.write_index \in Nat
         /\ buffer.read_index <= buffer.write_index
         /\ buffer.write_index <= Capacity /\ Capacity \in Nat \ {0}
         /\ DataSize(buffer) \in Nat
         /\ DataSize(buffer) = buffer.write_index - buffer.read_index
         /\ pulled \in Nat /\ written \in Nat /\ started_at \in Nat
         /\ pulled <= written /\ written <= MaxBytes
         /\ Front \in Nat /\ Front >= started_at /\ Front <= pulled
         /\ pulled = Front + DataSize(buffer)
         /\ \A i \in Cells : i \in Nat /\ buffer.mem[i] \in Int
  <1> USE CapacityAssumption, MaxBytesAssumption
  <1>1. /\ buffer.read_index \in Nat /\ buffer.write_index \in Nat
        /\ buffer.read_index <= buffer.write_index
        /\ buffer.write_index <= Capacity
    BY DEF StreamInv, LineTypeOK, Buffers
  <1>2. /\ pulled \in Nat /\ written \in Nat /\ started_at \in Nat
        /\ pulled <= written /\ written <= MaxBytes
    BY DEF StreamInv, LineTypeOK
  <1>3. Front = pulled - DataSize(buffer) /\ Front >= started_at
    BY DEF StreamInv, BufferHoldsStream, Front
  <1>4. \A i \in Cells : buffer.mem[i] \in Int
    BY DEF StreamInv, LineTypeOK, Buffers
  <1>5. Cells \subseteq Nat
    BY DEF Cells
  <1> QED
    BY <1>1, <1>2, <1>3, <1>4, <1>5 DEF DataSize

\* The unread bytes are the bytes of the line from Front on.
LEMMA UnreadFacts ==
  ASSUME StreamInv, NEW r \in 1 .. DataSize(buffer)
  PROVE  Unread(r) = [i \in 1 .. r |-> Front + i - 1]
  <1>1. \A i \in 1 .. r : DataByte(buffer, i - 1) = Front + i - 1
    <2> SUFFICES ASSUME NEW i \in 1 .. r
                 PROVE  DataByte(buffer, i - 1) = Front + i - 1
      OBVIOUS
    <2> DEFINE c == buffer.read_index + (i - 1)
    <2>1. /\ c \in buffer.read_index .. buffer.write_index - 1
          /\ c - buffer.read_index = i - 1
      BY StreamFacts
    <2>2. buffer.mem[c] = Front + (c - buffer.read_index)
      BY <2>1 DEF StreamInv, BufferHoldsStream
    <2>3. DataByte(buffer, i - 1) = Front + (i - 1)
      BY <2>1, <2>2 DEF DataByte
    <2> QED
      BY <2>3, StreamFacts
  <1> QED
    BY <1>1 DEF Unread

-----------------------------------------------------------------------------
LEMMA LineInitInv ==
  ASSUME LineInit
  PROVE  StreamInv /\ Front = started_at /\ DataSize(buffer) = 0
  <1> USE CapacityAssumption, MaxBytesAssumption, FramesAssumption
  <1> PICK f \in Frames :
        /\ f.size <= MaxBytes
        /\ frame_at = [p \in {0} |-> f]
        /\ written = f.size
        /\ started_at \in 0 .. f.size
        /\ pulled = started_at
        /\ buffer = EmptyBuffer
    BY DEF LineInit
  <1>1. f.size \in Nat \ {0}
    OBVIOUS
  <1>2. /\ buffer \in Buffers /\ buffer.read_index = 0
        /\ buffer.write_index = 0
    BY DEF EmptyBuffer, Buffers, Unwritten
  <1>3. DataSize(buffer) = 0 /\ Front = started_at
    BY <1>1, <1>2 DEF DataSize, Front
  <1>4. LineTypeOK
    BY <1>1, <1>2 DEF LineTypeOK
  <1>5. BufferHoldsStream
    BY <1>1, <1>2, <1>3 DEF BufferHoldsStream
  <1> QED
    BY <1>3, <1>4, <1>5 DEF StreamInv

\* A new frame leaves the reader alone.
LEMMA WriteInv ==
  ASSUME StreamInv, NEW f \in Frames, Write(f)
  PROVE  StreamInv' /\ Front' = Front
  <1>1. f.size \in Nat \ {0}
    BY FramesAssumption
  <1>2. UNCHANGED <<started_at, pulled, buffer>> /\ Front' = Front
    BY DEF Write, Front, DataSize
  <1>3. written' \in 0 .. MaxBytes /\ written' = written + f.size
    BY <1>1, StreamFacts, MaxBytesAssumption DEF Write
  <1>4. DOMAIN frame_at' \subseteq 0 .. written' - 1
    BY <1>1, <1>3, StreamFacts DEF Write, StreamInv, LineTypeOK
  <1>5. \A p \in DOMAIN frame_at' : frame_at'[p] \in Frames
    BY DEF Write, StreamInv, LineTypeOK
  <1>6. started_at \in 0 .. written' /\ pulled \in started_at .. written'
    BY <1>1, <1>3, StreamFacts DEF StreamInv, LineTypeOK
  <1>7. LineTypeOK'
    BY <1>2, <1>3, <1>4, <1>5, <1>6 DEF LineTypeOK, StreamInv
  <1>8. BufferHoldsStream'
    BY <1>2 DEF BufferHoldsStream, StreamInv
  <1> QED
    BY <1>2, <1>7, <1>8 DEF StreamInv

\* The bytes read follow those that wait in the buffer.
LEMMA ReadInv ==
  ASSUME StreamInv, Read
  PROVE  StreamInv' /\ Front' = Front
  <1> PICK n \in 0 .. WritableSize(buffer) :
        /\ pulled + n <= written
        /\ buffer' = Commit(Store(buffer, pulled, n), n)
        /\ pulled' = pulled + n
        /\ UNCHANGED line
    BY DEF Read
  <1> DEFINE r == buffer.read_index
             w == buffer.write_index
  <1>1. /\ r \in Nat /\ w \in Nat /\ r <= w /\ Capacity \in Nat
        /\ n \in Nat /\ w + n <= Capacity
    BY StreamFacts DEF WritableSize
  <1>2. buffer \in Buffers
    BY DEF StreamInv, LineTypeOK
  <1>3. /\ buffer'.read_index = r
        /\ buffer'.write_index = w + n
        /\ buffer'.mem = [i \in Cells |-> IF w <= i /\ i < w + n
                                          THEN pulled + (i - w)
                                          ELSE buffer.mem[i]]
        /\ buffer' \in Buffers
    <2> DEFINE m == [i \in Cells |-> IF w <= i /\ i < w + n
                                     THEN pulled + (i - w)
                                     ELSE buffer.mem[i]]
    <2>1. buffer' = [mem |-> m, read_index |-> r, write_index |-> w + n]
      BY <1>2 DEF Commit, Store, Buffers
    <2>2. m \in [Cells -> Int]
      BY <1>1, StreamFacts
    <2>3. r \in 0 .. Capacity /\ w + n \in 0 .. Capacity
      BY <1>1
    <2> HIDE DEF m
    <2>4. buffer' \in Buffers
      BY <2>1, <2>2, <2>3 DEF Buffers
    <2> QED
      BY <2>1, <2>4 DEF m
  <1> HIDE DEF r, w
  <1>4. Front' = Front
    BY <1>1, <1>3, StreamFacts DEF Front, DataSize, r, w
  <1>5. LineTypeOK'
    <2>1. UNCHANGED <<frame_at, written, started_at>>
      BY DEF line
    <2>2. pulled' \in started_at .. written
      BY <1>1, StreamFacts DEF StreamInv, LineTypeOK
    <2>3. buffer'.read_index <= buffer'.write_index
      BY <1>1, <1>3
    <2> QED
      BY <1>3, <2>1, <2>2, <2>3 DEF LineTypeOK, StreamInv
  <1>6. BufferHoldsStream'
    <2>1. Front' >= started_at'
      BY <1>4, StreamFacts DEF line
    <2>2. ASSUME NEW i \in r .. w + n - 1
          PROVE  buffer'.mem[i] = Front + (i - r)
      <3>1. i \in Cells /\ i \in Nat
        BY <1>1 DEF Cells
      <3>2. CASE i < w
        <4>1. buffer'.mem[i] = buffer.mem[i]
          BY <1>1, <1>3, <3>1, <3>2
        <4>2. buffer.mem[i] = Front + (i - r)
          BY <1>1, <3>1, <3>2 DEF StreamInv, BufferHoldsStream, r, w
        <4> QED
          BY <4>1, <4>2
      <3>3. CASE w <= i
        <4>1. buffer'.mem[i] = pulled + (i - w)
          BY <1>1, <1>3, <3>1, <3>3
        <4>2. pulled = Front + (w - r)
          BY StreamFacts DEF r, w
        <4> QED
          BY <1>1, <3>1, <4>1, <4>2, StreamFacts
      <3> QED
        BY <1>1, <3>1, <3>2, <3>3
    <2>3. \A i \in buffer'.read_index .. buffer'.write_index - 1 :
            buffer'.mem[i] = Front' + (i - buffer'.read_index)
      <3>1. buffer'.read_index = r /\ buffer'.write_index = w + n
        BY <1>3
      <3> QED
        BY <1>1, <1>4, <2>2, <3>1
    <2> QED
      BY <2>1, <2>3 DEF BufferHoldsStream
  <1> QED
    BY <1>4, <1>5, <1>6 DEF StreamInv

-----------------------------------------------------------------------------
(* receiving_buffer's own operations, on a line that stands still.         *)
LEMMA ConsumeInv ==
  ASSUME StreamInv, NEW r \in 1 .. DataSize(buffer),
         buffer' = Consume(buffer, r), UNCHANGED <<line, pulled>>
  PROVE  /\ StreamInv' /\ Front' = Front + r
         /\ DataSize(buffer') = DataSize(buffer) - r
  <1>1. /\ r \in Nat /\ buffer.read_index + r <= buffer.write_index
    BY StreamFacts
  <1>2. buffer \in Buffers
    BY DEF StreamInv, LineTypeOK
  <1>3. /\ buffer' \in Buffers
        /\ buffer'.mem = buffer.mem
        /\ buffer'.read_index = buffer.read_index + r
        /\ buffer'.write_index = buffer.write_index
    BY <1>1, <1>2, StreamFacts DEF Consume, Buffers
  <1>4. Front' = Front + r /\ DataSize(buffer') = DataSize(buffer) - r
    BY <1>1, <1>3, StreamFacts DEF Front, DataSize
  <1>5. UNCHANGED <<frame_at, written, started_at, pulled>>
    BY DEF line
  <1>6. LineTypeOK'
    BY <1>1, <1>3, <1>5 DEF LineTypeOK, StreamInv
  <1>7. BufferHoldsStream'
    <2>1. Front' >= started_at'
      BY <1>1, <1>4, <1>5, StreamFacts
    <2>2. ASSUME NEW i \in buffer.read_index + r .. buffer.write_index - 1
          PROVE  buffer'.mem[i] = Front' + (i - (buffer.read_index + r))
      <3>1. buffer.mem[i] = Front + (i - buffer.read_index)
        BY <1>1, StreamFacts DEF StreamInv, BufferHoldsStream
      <3> QED
        BY <1>1, <1>3, <1>4, <3>1, StreamFacts
    <2> QED
      BY <1>3, <2>1, <2>2 DEF BufferHoldsStream
  <1> QED
    BY <1>4, <1>6, <1>7 DEF StreamInv

LEMMA ResetInv ==
  ASSUME StreamInv, buffer' = Reset(buffer), UNCHANGED <<line, pulled>>
  PROVE  StreamInv' /\ Front' = pulled
  <1>1. /\ buffer' \in Buffers
        /\ buffer'.read_index = 0 /\ buffer'.write_index = 0
    <2>1. buffer \in Buffers /\ 0 \in 0 .. Capacity
      BY CapacityAssumption DEF StreamInv, LineTypeOK
    <2> QED
      BY <2>1 DEF Reset, Buffers
  <1>2. UNCHANGED <<frame_at, written, started_at, pulled>>
    BY DEF line
  <1>3. Front' = pulled
    BY <1>1, <1>2, StreamFacts DEF Front, DataSize
  <1>4. LineTypeOK'
    BY <1>1, <1>2 DEF LineTypeOK, StreamInv
  <1>5. BufferHoldsStream'
    BY <1>1, <1>2, <1>3, StreamFacts DEF BufferHoldsStream
  <1> QED
    BY <1>3, <1>4, <1>5 DEF StreamInv

\* Moving keeps the unread bytes, and puts the room behind them.
LEMMA MoveInv ==
  ASSUME StreamInv, buffer' = MoveDataToFront(buffer), UNCHANGED <<line, pulled>>
  PROVE  /\ StreamInv' /\ Front' = Front
         /\ DataSize(buffer') = DataSize(buffer)
         /\ WritableSize(buffer') = Capacity - DataSize(buffer)
  <1> DEFINE r == buffer.read_index
             w == buffer.write_index
             d == DataSize(buffer)
  <1>1. /\ r \in Nat /\ w \in Nat /\ r <= w /\ w <= Capacity
        /\ Capacity \in Nat /\ d \in Nat /\ d = w - r
    BY StreamFacts
  <1>2. buffer \in Buffers
    BY DEF StreamInv, LineTypeOK
  <1>3. UNCHANGED <<frame_at, written, started_at, pulled>>
    BY DEF line
  <1>4. CASE r = 0
    <2>1. buffer' = buffer /\ d = w
      BY <1>1, <1>4 DEF MoveDataToFront
    <2> QED
      BY <1>3, <2>1 DEF StreamInv, LineTypeOK, BufferHoldsStream, Front,
                        DataSize, WritableSize
  <1>5. CASE r > 0
    <2> DEFINE m == [i \in Cells |-> IF i < d THEN DataByte(buffer, i)
                                     ELSE buffer.mem[i]]
    <2>1. buffer' = [mem |-> m, read_index |-> 0, write_index |-> d]
      BY <1>5 DEF MoveDataToFront
    <2>2. \A i \in Cells : m[i] \in Int
      <3> SUFFICES ASSUME NEW i \in Cells PROVE m[i] \in Int
        OBVIOUS
      <3>1. i \in Nat /\ buffer.mem[i] \in Int
        BY StreamFacts
      <3>2. i < d => r + i \in Cells
        BY <1>1, <3>1 DEF Cells
      <3>3. i < d => DataByte(buffer, i) \in Int
        BY <1>2, <3>2 DEF DataByte, Buffers
      <3> QED
        BY <3>1, <3>3
    <2>3. buffer' \in Buffers
      <3>1. m \in [Cells -> Int] /\ d \in 0 .. Capacity
        BY <1>1, <2>2
      <3> HIDE DEF m, d
      <3> QED
        BY <1>1, <2>1, <3>1 DEF Buffers
    <2>4. /\ buffer'.read_index = 0 /\ buffer'.write_index = d
          /\ buffer'.mem = m
      BY <2>1
    <2> HIDE DEF m
    <2>5. /\ DataSize(buffer') = d
          /\ WritableSize(buffer') = Capacity - d
          /\ Front' = Front
      BY <1>1, <1>3, <2>4 DEF DataSize, WritableSize, Front
    <2>6. LineTypeOK'
      BY <1>1, <1>3, <2>3, <2>4 DEF LineTypeOK, StreamInv
    <2>7. ASSUME NEW i \in 0 .. d - 1
          PROVE  m[i] = Front + i
      <3>1. i \in Cells /\ i < d /\ i \in Nat
        BY <1>1 DEF Cells
      <3>2. m[i] = buffer.mem[r + i]
        BY <3>1 DEF m, DataByte
      <3>3. r + i \in r .. w - 1 /\ (r + i) - r = i
        BY <1>1, <3>1
      <3>4. buffer.mem[r + i] = Front + ((r + i) - r)
        BY <3>3 DEF StreamInv, BufferHoldsStream
      <3> QED
        BY <3>2, <3>3, <3>4
    <2>8. BufferHoldsStream'
      <3>1. Front' >= started_at'
        BY <1>3, <2>5, StreamFacts
      <3>2. \A i \in 0 .. d - 1 : buffer'.mem[i] = Front' + (i - 0)
        BY <1>1, <2>4, <2>5, <2>7, StreamFacts
      <3> HIDE DEF d
      <3> QED
        BY <2>4, <3>1, <3>2 DEF BufferHoldsStream
    <2> QED
      BY <2>5, <2>6, <2>8 DEF StreamInv
  <1> QED
    BY <1>1, <1>4, <1>5
=============================================================================
