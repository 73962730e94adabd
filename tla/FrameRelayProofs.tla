-------------------------- MODULE FrameRelayProofs --------------------------
(***************************************************************************)
(* What every reader that implements FrameRelay can be relied on for.      *)
(***************************************************************************)
EXTENDS FrameRelay, SequenceTheorems, TLAPS

\* Frames lie on the line without gap or overlap.
Layout ==
  /\ written \in Nat
  /\ started_at \in 0 .. written
  /\ delivered \in started_at .. written
  /\ DOMAIN frame_at \subseteq 0 .. written - 1
  /\ \A p \in DOMAIN frame_at :
       /\ frame_at[p] \in Frames
       /\ Boundary(p + frame_at[p].size)
       /\ p + frame_at[p].size <= written
       /\ \A q \in DOMAIN frame_at : q > p => q >= p + frame_at[p].size

\* What was handed on are stretches of the line of at least one byte.
OutOK ==
  /\ out \in Seq(Seq(Nat))
  /\ \A k \in 1 .. Len(out) : Len(out[k]) > 0

IInv == Layout /\ OutOK /\ InOrder /\ Intact /\ NothingLost

\* A stretch of the line is a sequence of its bytes.
LEMMA BytesFacts ==
  ASSUME NEW p \in Nat, NEW n \in Nat
  PROVE  /\ Bytes(p, n) \in Seq(Nat)
         /\ Len(Bytes(p, n)) = n
         /\ \A x \in 1 .. n : Bytes(p, n)[x] = p + x - 1
  BY DEF Bytes

-----------------------------------------------------------------------------
LEMMA InitInv == FramesOK /\ Init => IInv
  <1> SUFFICES ASSUME FramesOK, Init PROVE IInv
    OBVIOUS
  <1> PICK f \in Frames :
        /\ frame_at = [p \in {0} |-> f]
        /\ written = f.size
        /\ started_at \in 0 .. f.size
        /\ delivered = started_at
        /\ out = <<>>
    BY DEF Init
  <1>1. f.size \in Nat \ {0}
    BY DEF FramesOK
  <1>2. Layout
    BY <1>1 DEF Layout, Boundary
  <1>3. OutOK /\ InOrder /\ Intact
    BY DEF OutOK, InOrder, Intact
  <1>4. NothingLost
    BY <1>1 DEF NothingLost, Boundary
  <1> QED
    BY <1>2, <1>3, <1>4 DEF IInv

-----------------------------------------------------------------------------
(* A new frame changes nothing before the end of the line.                 *)
LEMMA SendInv ==
  ASSUME FramesOK, IInv, NEW f \in Frames, Send(f)
  PROVE  IInv'
  <1> USE DEF IInv, Send
  <1>1. f.size \in Nat \ {0} /\ written \in Nat /\ written' = written + f.size
    BY DEF FramesOK, Layout
  <1>2. /\ DOMAIN frame_at' = DOMAIN frame_at \cup {written}
        /\ written \notin DOMAIN frame_at
        /\ frame_at'[written] = f
        /\ \A p \in DOMAIN frame_at : frame_at'[p] = frame_at[p]
    BY <1>1 DEF Layout
  <1>3. \A p \in Nat : p <= written => (Boundary(p)' <=> Boundary(p))
    BY <1>1, <1>2 DEF Boundary
  <1>4. Layout'
    <2>1. DOMAIN frame_at' \subseteq 0 .. written' - 1
      BY <1>1, <1>2 DEF Layout
    <2>2. ASSUME NEW p \in DOMAIN frame_at'
          PROVE  /\ frame_at'[p] \in Frames
                 /\ p + frame_at'[p].size \in DOMAIN frame_at' \cup {written'}
                 /\ p + frame_at'[p].size <= written'
                 /\ \A q \in DOMAIN frame_at' :
                      q > p => q >= p + frame_at'[p].size
      <3>1. CASE p = written
        <4>1. frame_at'[p] = f /\ p + frame_at'[p].size = written'
          BY <1>1, <1>2, <3>1
        <4>2. \A q \in DOMAIN frame_at' : ~(q > p)
          BY <1>1, <1>2, <3>1 DEF Layout
        <4> QED
          BY <1>1, <4>1, <4>2
      <3>2. CASE p \in DOMAIN frame_at
        <4> DEFINE n == frame_at[p].size
        <4>1. /\ frame_at'[p] = frame_at[p] /\ frame_at[p] \in Frames
              /\ p \in Nat /\ n \in Nat
              /\ p + n <= written /\ Boundary(p + n)
          BY <1>2, <3>2 DEF Layout, FramesOK
        <4>2. p + n \in DOMAIN frame_at' \cup {written'}
          BY <1>3, <4>1 DEF Boundary
        <4>3. \A q \in DOMAIN frame_at : q > p => q >= p + n
          BY <3>2 DEF Layout
        <4>4. \A q \in DOMAIN frame_at' : q > p => q >= p + n
          BY <1>1, <1>2, <4>1, <4>3
        <4>5. p + n <= written'
          BY <1>1, <4>1
        <4> QED
          BY <4>1, <4>2, <4>4, <4>5
      <3> QED
        BY <1>2, <3>1, <3>2
    <2>3. /\ written' \in Nat
          /\ started_at' \in 0 .. written'
          /\ delivered' \in started_at' .. written'
      BY <1>1 DEF Layout
    <2> QED
      BY <2>1, <2>2, <2>3 DEF Layout, Boundary
  <1>5. OutOK' /\ InOrder'
    BY DEF OutOK, InOrder
  <1>6. Intact'
    <2> SUFFICES ASSUME NEW k \in 1 .. Len(out), NEW p \in DOMAIN frame_at',
                        out[k][1] = p, Sound(frame_at'[p])
                 PROVE  out[k] = Bytes(p, frame_at'[p].size)
      BY DEF Intact
    <2>1. out[k][1] < delivered
      BY DEF InOrder, OutOK
    <2>2. p \in DOMAIN frame_at
      BY <1>1, <1>2, <2>1 DEF Layout
    <2> QED
      BY <1>2, <2>2 DEF Intact
  <1>7. NothingLost'
    <2> SUFFICES ASSUME Boundary(started_at)',
                        \A p \in DOMAIN frame_at' :
                          p \in started_at .. delivered - 1
                            => Sound(frame_at'[p])
                 PROVE  /\ Boundary(delivered)'
                        /\ \A p \in DOMAIN frame_at' :
                             p \in started_at .. delivered - 1 =>
                               \E k \in 1 .. Len(out) :
                                 out[k] = Bytes(p, frame_at'[p].size)
      BY DEF NothingLost
    <2>1. Boundary(started_at)
      BY <1>3 DEF Layout
    <2>2. \A p \in DOMAIN frame_at :
            p \in started_at .. delivered - 1 => Sound(frame_at[p])
      BY <1>2
    <2>3. Boundary(delivered)
      BY <2>1, <2>2 DEF NothingLost
    <2>4. Boundary(delivered)'
      BY <1>3, <2>3 DEF Layout
    <2>5. \A p \in DOMAIN frame_at' :
            p \in started_at .. delivered - 1 => p \in DOMAIN frame_at
      BY <1>1, <1>2 DEF Layout
    <2> QED
      BY <1>2, <2>1, <2>2, <2>4, <2>5 DEF NothingLost
  <1> QED
    BY <1>4, <1>5, <1>6, <1>7

-----------------------------------------------------------------------------
(* Handing on the n bytes from delivered keeps them in order, and intact   *)
(* unless a sound frame of another length begins there.                    *)
LEMMA AppendInv ==
  ASSUME IInv, NEW n \in Nat \ {0},
         UNCHANGED <<frame_at, written, started_at>>,
         delivered' = delivered + n, delivered' <= written,
         AtSoundFrame => n = frame_at[delivered].size,
         out' = Append(out, Bytes(delivered, n))
  PROVE  Layout' /\ OutOK' /\ InOrder' /\ Intact'
  <1> USE DEF IInv
  <1>1. /\ delivered \in Nat /\ delivered <= written
        /\ out \in Seq(Seq(Nat)) /\ Len(out) \in Nat
    BY DEF Layout, OutOK
  <1>2. Layout'
    BY <1>1 DEF Layout, Boundary
  <1> DEFINE new == Bytes(delivered, n)
  <1>3. /\ new \in Seq(Nat) /\ Len(new) = n
        /\ \A x \in 1 .. n : new[x] = delivered + x - 1
    BY <1>1, BytesFacts
  <1> HIDE DEF new
  <1>4. /\ out' \in Seq(Seq(Nat))
        /\ Len(out') = Len(out) + 1
        /\ out'[Len(out')] = new
        /\ \A k \in 1 .. Len(out) : out'[k] = out[k]
    BY <1>1, <1>3 DEF new
  <1>5. \A k \in 1 .. Len(out') : k \in 1 .. Len(out) \/ k = Len(out')
    BY <1>1, <1>4
  <1>6. OutOK'
    BY <1>3, <1>4, <1>5 DEF OutOK
  <1>7. InOrder'
    <2>1. \A k \in 1 .. Len(out') :
            \A x \in 1 .. Len(out'[k]) : out'[k][x] < delivered'
      <3> SUFFICES ASSUME NEW k \in 1 .. Len(out'), NEW x \in 1 .. Len(out'[k])
                   PROVE  out'[k][x] < delivered'
        OBVIOUS
      <3>1. CASE k \in 1 .. Len(out)
        <4>1. out[k][x] < delivered /\ out[k] \in Seq(Nat)
          BY <1>1, <1>4, <3>1 DEF InOrder
        <4>2. out[k][x] \in Nat
          BY <1>4, <3>1, <4>1
        <4> QED
          BY <1>1, <1>4, <3>1, <4>1, <4>2, SMTT(40)
      <3>2. CASE k = Len(out')
        BY <1>1, <1>3, <1>4, <3>2
      <3> QED
        BY <1>5, <3>1, <3>2
    <2>2. \A j, k \in 1 .. Len(out') :
            \A x \in 1 .. Len(out'[j]), y \in 1 .. Len(out'[k]) :
              j < k => out'[j][x] < out'[k][y]
      <3> SUFFICES ASSUME NEW j \in 1 .. Len(out'), NEW k \in 1 .. Len(out'),
                          NEW x \in 1 .. Len(out'[j]),
                          NEW y \in 1 .. Len(out'[k]), j < k
                   PROVE  out'[j][x] < out'[k][y]
        OBVIOUS
      <3>1. j \in 1 .. Len(out)
        BY <1>1, <1>4
      <3>2. out[j][x] < delivered /\ out[j][x] \in Nat
        <4>1. out[j] \in Seq(Nat) /\ x \in 1 .. Len(out[j])
          BY <1>1, <1>4, <3>1, SMTT(40)
        <4> QED
          BY <3>1, <4>1 DEF InOrder
      <3>3. CASE k \in 1 .. Len(out)
        BY <1>4, <3>1, <3>3 DEF InOrder
      <3>4. CASE k = Len(out')
        <4>1. out'[k] = new /\ out'[j] = out[j] /\ y \in 1 .. n
          BY <1>3, <1>4, <3>1, <3>4
        <4>2. out'[k][y] = delivered + y - 1
          BY <1>3, <4>1
        <4>3. y \in Nat /\ y >= 1
          BY <4>1
        <4> DEFINE a == out'[j][x]
                   b == out'[k][y]
        <4>4. a \in Nat /\ a < delivered
          BY <3>2, <4>1
        <4>5. b = delivered + y - 1
          BY <4>2
        <4> HIDE DEF a, b
        <4>6. a < b
          BY <1>1, <4>3, <4>4, <4>5
        <4> QED
          BY <4>6 DEF a, b
      <3> QED
        BY <1>5, <3>3, <3>4
    <2> QED
      BY <2>1, <2>2 DEF InOrder
  <1>8. Intact'
    <2> SUFFICES ASSUME NEW k \in 1 .. Len(out'), NEW p \in DOMAIN frame_at,
                        out'[k][1] = p, Sound(frame_at[p])
                 PROVE  out'[k] = Bytes(p, frame_at[p].size)
      BY DEF Intact
    <2>1. CASE k \in 1 .. Len(out)
      BY <1>4, <2>1 DEF Intact
    <2>2. CASE k = Len(out')
      <3>1. p = delivered
        BY <1>1, <1>3, <1>4, <2>2
      <3> QED
        BY <1>4, <2>2, <3>1 DEF AtSoundFrame, new
    <2> QED
      BY <1>5, <2>1, <2>2
  <1> QED
    BY <1>2, <1>6, <1>7, <1>8

-----------------------------------------------------------------------------
LEMMA DeliverInv ==
  ASSUME FramesOK, IInv, Deliver
  PROVE  IInv'
  <1> USE DEF IInv
  <1> DEFINE p == delivered
             n == frame_at[delivered].size
  <1>1. /\ p \in DOMAIN frame_at /\ n \in Nat \ {0} /\ p \in Nat
        /\ delivered' = p + n /\ delivered' <= written
        /\ out' = Append(out, Bytes(p, n))
        /\ UNCHANGED <<frame_at, written, started_at>>
    BY DEF Deliver, AtSoundFrame, Layout, FramesOK
  <1> HIDE DEF n
  <1>2. Layout' /\ OutOK' /\ InOrder' /\ Intact'
    <2> HIDE DEF IInv
    <2> QED
      BY <1>1, AppendInv DEF n
  <1>3. NothingLost'
    <2> SUFFICES ASSUME Boundary(started_at),
                        \A q \in DOMAIN frame_at :
                          q \in started_at .. delivered' - 1
                            => Sound(frame_at[q])
                 PROVE  /\ Boundary(delivered)'
                        /\ \A q \in DOMAIN frame_at :
                             q \in started_at .. delivered' - 1 =>
                               \E k \in 1 .. Len(out') :
                                 out'[k] = Bytes(q, frame_at[q].size)
      BY <1>1 DEF NothingLost, Boundary
    <2>0. /\ Boundary(delivered)
          /\ \A q \in DOMAIN frame_at :
               q \in started_at .. delivered - 1 =>
                 \E k \in 1 .. Len(out) : out[k] = Bytes(q, frame_at[q].size)
      <3>1. \A q \in DOMAIN frame_at :
              q \in started_at .. delivered - 1
                => q \in started_at .. delivered' - 1
        BY <1>1 DEF Layout
      <3> QED
        BY <3>1 DEF NothingLost
    <2>1. Boundary(delivered)'
      BY <1>1 DEF Layout, Boundary, n
    <2>2. /\ out \in Seq(Seq(Nat)) /\ Len(out) \in Nat
          /\ Bytes(p, n) \in Seq(Nat)
      BY <1>1, BytesFacts, SMTT(40) DEF OutOK
    <2>3. /\ Len(out') = Len(out) + 1
          /\ out'[Len(out')] = Bytes(p, n)
          /\ \A k \in 1 .. Len(out) : out'[k] = out[k]
      BY <1>1, <2>2
    <2>4. ASSUME NEW q \in DOMAIN frame_at, q \in started_at .. delivered' - 1
          PROVE  \E k \in 1 .. Len(out') : out'[k] = Bytes(q, frame_at[q].size)
      <3>1. q = p \/ q \in started_at .. delivered - 1
        <4>1. q \in Nat /\ (q > p => q >= p + n)
          BY <1>1 DEF Layout, n
        <4> QED
          BY <1>1, <2>4, <4>1 DEF Layout
      <3>2. CASE q = p
        <4>1. Len(out') \in 1 .. Len(out')
          BY <2>2, <2>3
        <4>2. out'[Len(out')] = Bytes(q, frame_at[q].size)
          BY <2>3, <3>2 DEF n
        <4> QED
          BY <4>1, <4>2
      <3>3. CASE q \in started_at .. delivered - 1
        <4>1. PICK k \in 1 .. Len(out) : out[k] = Bytes(q, frame_at[q].size)
          BY <2>0, <3>3
        <4> QED
          BY <2>2, <2>3, <4>1
      <3> QED
        BY <3>1, <3>2, <3>3
    <2> QED
      BY <2>1, <2>4
  <1> QED
    BY <1>2, <1>3

LEMMA SkipInv ==
  ASSUME FramesOK, IInv, Skip
  PROVE  IInv'
  <1> USE DEF IInv
  <1> DEFINE n == delivered' - delivered
  <1>1. /\ n \in Nat \ {0} /\ delivered \in Nat
        /\ delivered' = delivered + n /\ delivered' <= written
        /\ UNCHANGED <<frame_at, written, started_at>>
    <2> HIDE DEF IInv
    <2>1. written \in Nat /\ delivered \in Nat
      BY DEF IInv, Layout
    <2>2. delivered' \in delivered + 1 .. written
      BY DEF Skip
    <2>3. UNCHANGED <<frame_at, written, started_at>>
      BY DEF Skip
    <2>4. delivered' \in Nat /\ delivered' >= delivered + 1
            /\ delivered' <= written
      BY <2>1, <2>2
    <2>5. \A p, q \in Nat : q >= p + 1 => q - p \in Nat \ {0} /\ q = p + (q - p)
      OBVIOUS
    <2>6. n \in Nat \ {0} /\ delivered' = delivered + n
      <3>1. delivered' - delivered \in Nat \ {0}
        BY <2>1, <2>4, <2>5
      <3>2. delivered' = delivered + (delivered' - delivered)
        BY <2>1, <2>4, <2>5
      <3> QED
        BY <3>1, <3>2 DEF n
    <2> QED
      BY <2>1, <2>3, <2>4, <2>6
  <1>2. Layout' /\ OutOK' /\ InOrder' /\ Intact'
    <2>1. CASE out' = Append(out, Bytes(delivered, n))
      <3> HIDE DEF IInv, n
      <3> QED
        BY <1>1, <2>1, AppendInv DEF Skip
    <2>2. CASE out' = out
      <3>1. Layout' /\ OutOK' /\ Intact'
        BY <1>1, <2>2 DEF Layout, Boundary, OutOK, Intact
      <3>2. InOrder'
        <4>1. \A k \in 1 .. Len(out) :
                \A x \in 1 .. Len(out[k]) : out[k][x] < delivered'
          <5> SUFFICES ASSUME NEW k \in 1 .. Len(out),
                              NEW x \in 1 .. Len(out[k])
                       PROVE  out[k][x] < delivered'
            OBVIOUS
          <5>1. out[k] \in Seq(Nat)
            BY DEF OutOK
          <5>2. out[k][x] \in Nat /\ out[k][x] < delivered
            BY <5>1 DEF InOrder
          <5> QED
            BY <1>1, <5>2
        <4> QED
          BY <2>2, <4>1 DEF InOrder
      <3> QED
        BY <3>1, <3>2
    <2> QED
      BY <2>1, <2>2 DEF Skip
  <1>3. NothingLost'
    <2> SUFFICES ASSUME Boundary(started_at),
                        \A q \in DOMAIN frame_at :
                          q \in started_at .. delivered' - 1
                            => Sound(frame_at[q])
                 PROVE  FALSE
      BY <1>1 DEF NothingLost, Boundary
    <2>1. /\ delivered \in started_at .. delivered' - 1
          /\ \A q \in DOMAIN frame_at :
               q \in started_at .. delivered - 1
                 => q \in started_at .. delivered' - 1
      BY <1>1 DEF Layout
    <2>2. Boundary(delivered)
      BY <2>1 DEF NothingLost
    <2>3. delivered # written
      BY <1>1 DEF Layout
    <2>4. delivered \in DOMAIN frame_at /\ ~Sound(frame_at[delivered])
      BY <2>2, <2>3 DEF Boundary, Skip, AtSoundFrame
    <2> QED
      BY <2>1, <2>4
  <1> QED
    BY <1>2, <1>3

-----------------------------------------------------------------------------
LEMMA StepInv == FramesOK /\ IInv /\ [Next]_vars => IInv'
  <1> SUFFICES ASSUME FramesOK, IInv, [Next]_vars PROVE IInv'
    OBVIOUS
  <1>1. ASSUME NEW f \in Frames, Send(f) PROVE IInv'
    BY <1>1, SendInv
  <1>2. CASE Deliver
    BY <1>2, DeliverInv
  <1>3. CASE Skip
    BY <1>3, SkipInv
  <1>4. CASE UNCHANGED vars
    <2>1. UNCHANGED <<frame_at, written, started_at, delivered, out>>
      BY <1>4 DEF vars
    <2>2. Layout'
      BY <2>1 DEF IInv, Layout, Boundary
    <2>3. OutOK' /\ InOrder' /\ Intact'
      BY <2>1 DEF IInv, OutOK, InOrder, Intact
    <2>4. NothingLost'
      BY <2>1 DEF IInv, NothingLost, Boundary
    <2>5. QED
      BY <2>2, <2>3, <2>4 DEF IInv
  <1> QED
    BY <1>1, <1>2, <1>3, <1>4 DEF Next

(***************************************************************************)
(* Whatever implements FrameRelay hands on nothing twice or out of order,  *)
(* no sound frame in part, and on a line of sound frames none too few.     *)
(***************************************************************************)
THEOREM RelaySafe ==
  ASSUME FramesOK
  PROVE  Spec => [](InOrder /\ Intact /\ NothingLost)
  <1>1. Init => IInv
    BY InitInv
  <1>2. IInv /\ [Next]_vars => IInv'
    BY StepInv
  <1>3. IInv => InOrder /\ Intact /\ NothingLost
    BY DEF IInv
  <1> QED
    BY <1>1, <1>2, <1>3, PTL DEF Spec
=============================================================================
