---------------------------- MODULE DaemonProofs ----------------------------
(***************************************************************************)
(* What the daemon does besides reading the line: its write queues, the    *)
(* sessions, subscriptions and devices of its control plane, and the bytes *)
(* of the messages it exchanges with the device.  The three share no       *)
(* variable; the theorems of each speak of its own specification.          *)
(***************************************************************************)
EXTENDS WriteQueue, ControlPlane, MessageFormats, SequenceTheorems,
        FiniteSetTheorems, TLAPS

(***************************************************************************)
(* The write queues.  The operators take the queue, the operations and the *)
(* wire as arguments: a push or a pop changes the queue before the next    *)
(* write starts, and what is said here holds between the two as well.      *)
(***************************************************************************)

\* The packet at the front, or the next one pushed.
FrontPacket(q, n) == n - Len(q) + 1

Operations == [packet : Packets, state : States]
Writes == [packet : 0 .. MaxPackets, whole : BOOLEAN]

Types(q, o, n, w) ==
  /\ n \in 0 .. MaxPackets
  /\ q \in Seq(Packets) /\ Len(q) <= n
  /\ o \in Seq(Operations)
  /\ w \in Seq(Writes)

\* The queue is the last packets pushed, in order.
Consecutive(q, n) == \A k \in 1 .. Len(q) : q[k] = n - Len(q) + k

\* Each operation was started on the front of its time.
OpsInOrder(q, o, n) ==
  /\ \A j, k \in 1 .. Len(o) : j < k => o[j].packet <= o[k].packet
  /\ \A k \in 1 .. Len(o) : o[k].packet <= FrontPacket(q, n)

\* Nothing that waits to be written is behind what was.
WireBehind(q, o, n, w) ==
  /\ \A j \in 1 .. Len(w) : w[j].packet <= FrontPacket(q, n)
  /\ \A j \in 1 .. Len(w), k \in 1 .. Len(o) :
       o[k].state = "pending" => w[j].packet <= o[k].packet

WireInOrder(w) ==
  \A j, k \in 1 .. Len(w) :
    j < k /\ w[k].packet # 0 => w[j].packet <= w[k].packet

Ordered(q, o, n, w) ==
  /\ Types(q, o, n, w)
  /\ Consecutive(q, n)
  /\ OpsInOrder(q, o, n)
  /\ WireBehind(q, o, n, w)
  /\ WireInOrder(w)

\* No two writes overlap: the one under way is that of the front.
Alone(q, o, n, w) ==
  /\ Len(o) <= 1
  /\ \A k \in 1 .. Len(o) : q # <<>> /\ o[k].packet = FrontPacket(q, n)
  /\ \A j \in 1 .. Len(w) :
       /\ w[j].packet # 0
       /\ \/ w[j].packet < FrontPacket(q, n)
          \/ \E k \in 1 .. Len(o) : o[k].state = "written"
  /\ \A j, k \in 1 .. Len(w) : j < k => w[j].packet < w[k].packet

\* An operation that ended in an error is remembered.
ErrorsFailed(o, f) == \A k \in 1 .. Len(o) : o[k].state = "error" => f # {}

QInv ==
  /\ QueueTypeOK
  /\ Ordered(queue, ops, pushed, wire)
  /\ ErrorsFailed(ops, failed)
  /\ NoIdleQueue
  /\ ~overlapped => ~undefined /\ Alone(queue, ops, pushed, wire)

-----------------------------------------------------------------------------
\* The types, spelled out.
LEMMA OrderedFacts ==
  ASSUME NEW q, NEW o, NEW n, NEW w, Ordered(q, o, n, w)
  PROVE  /\ n \in Nat /\ q \in Seq(Packets) /\ Len(q) \in Nat /\ Len(q) <= n
         /\ FrontPacket(q, n) \in Nat \ {0}
         /\ o \in Seq(Operations) /\ Len(o) \in Nat
         /\ \A k \in 1 .. Len(o) : /\ o[k] \in Operations
                                   /\ o[k].packet \in Packets
                                   /\ o[k].packet \in Nat
         /\ w \in Seq(Writes) /\ Len(w) \in Nat
         /\ \A j \in 1 .. Len(w) : /\ w[j] \in Writes
                                   /\ w[j].packet \in Nat
         /\ q # <<>> => Len(q) > 0
         /\ o # <<>> => Len(o) > 0
  <1>1. /\ n \in 0 .. MaxPackets /\ q \in Seq(Packets) /\ Len(q) <= n
        /\ o \in Seq(Operations) /\ w \in Seq(Writes)
    BY DEF Ordered, Types
  <1>2. /\ Len(q) \in Nat /\ Len(o) \in Nat /\ Len(w) \in Nat
        /\ q # <<>> => Len(q) > 0
        /\ o # <<>> => Len(o) > 0
    BY <1>1, EmptySeq
  <1>3. \A k \in 1 .. Len(o) : o[k] \in Operations
    BY <1>1, ElementOfSeq
  <1>4. \A j \in 1 .. Len(w) : w[j] \in Writes
    BY <1>1, ElementOfSeq
  <1>5. n \in Nat /\ FrontPacket(q, n) \in Nat \ {0}
    BY <1>1, <1>2, MaxPacketsAssumption DEF FrontPacket
  <1>6. Packets \subseteq Nat
    BY MaxPacketsAssumption DEF Packets
  <1>7. /\ \A e \in Operations : e.packet \in Packets
        /\ \A e \in Writes : e.packet \in Nat
    BY MaxPacketsAssumption DEF Operations, Writes
  <1>8. QED
    BY <1>1, <1>2, <1>3, <1>4, <1>5, <1>6, <1>7

\* A packet is pushed.
LEMMA PushOrdered ==
  ASSUME NEW q, NEW o, NEW n, NEW w, Ordered(q, o, n, w), n < MaxPackets
  PROVE  /\ Ordered(Append(q, n + 1), o, n + 1, w)
         /\ Append(q, n + 1) # <<>>
         /\ FrontPacket(Append(q, n + 1), n + 1) = FrontPacket(q, n)
  <1> DEFINE p == Append(q, n + 1)
  <1>1. /\ n \in Nat /\ n + 1 \in Packets
        /\ q \in Seq(Packets) /\ Len(q) \in Nat /\ Len(q) <= n
    BY MaxPacketsAssumption DEF Ordered, Types, Packets
  <1>2. /\ p \in Seq(Packets) /\ Len(p) = Len(q) + 1 /\ p # <<>>
        /\ \A k \in 1 .. Len(q) : p[k] = q[k]
        /\ p[Len(q) + 1] = n + 1
    BY <1>1, AppendProperties, EmptySeq
  <1>3. FrontPacket(p, n + 1) = FrontPacket(q, n)
    BY <1>1, <1>2 DEF FrontPacket
  <1>4. Consecutive(p, n + 1)
    BY <1>1, <1>2 DEF Consecutive, Ordered
  <1>5. Types(p, o, n + 1, w)
    BY <1>1, <1>2, MaxPacketsAssumption DEF Types, Ordered
  <1>6. OpsInOrder(p, o, n + 1) /\ WireBehind(p, o, n + 1, w)
    BY <1>3 DEF Ordered, OpsInOrder, WireBehind
  <1>7. QED
    BY <1>2, <1>3, <1>4, <1>5, <1>6 DEF Ordered

\* The oldest operation goes.
LEMMA DropOrdered ==
  ASSUME NEW q, NEW o, NEW n, NEW w, Ordered(q, o, n, w), o # <<>>
  PROVE  /\ Ordered(q, Tail(o), n, w)
         /\ Len(Tail(o)) = Len(o) - 1
         /\ \A k \in 1 .. Len(Tail(o)) : Tail(o)[k] = o[k + 1]
  <1>1. o \in Seq(Operations) /\ Len(o) \in Nat \ {0}
    BY EmptySeq DEF Ordered, Types
  <1>2. /\ Tail(o) \in Seq(Operations) /\ Len(Tail(o)) = Len(o) - 1
        /\ \A k \in 1 .. Len(Tail(o)) : Tail(o)[k] = o[k + 1]
    BY <1>1, HeadTailProperties
  <1>3. \A k \in 1 .. Len(Tail(o)) : k + 1 \in 1 .. Len(o)
    BY <1>1, <1>2
  <1>4. OpsInOrder(q, Tail(o), n)
    <2>1. OpsInOrder(q, o, n)
      BY DEF Ordered
    <2>2. \A j, k \in 1 .. Len(Tail(o)) : j < k => j + 1 < k + 1
      BY <1>1, <1>2
    <2>3. QED
      BY <1>2, <1>3, <2>1, <2>2 DEF OpsInOrder
  <1>5. WireBehind(q, Tail(o), n, w)
    BY <1>2, <1>3 DEF Ordered, WireBehind
  <1>6. QED
    BY <1>2, <1>4, <1>5 DEF Ordered, Types

\* The front goes.
LEMMA PopOrdered ==
  ASSUME NEW q, NEW o, NEW n, NEW w, Ordered(q, o, n, w), q # <<>>
  PROVE  /\ Ordered(Tail(q), o, n, w)
         /\ Len(Tail(q)) = Len(q) - 1
         /\ FrontPacket(Tail(q), n) = FrontPacket(q, n) + 1
  <1>1. q \in Seq(Packets) /\ Len(q) \in Nat \ {0} /\ n \in Nat /\ Len(q) <= n
    BY EmptySeq, MaxPacketsAssumption DEF Ordered, Types
  <1>2. /\ Tail(q) \in Seq(Packets) /\ Len(Tail(q)) = Len(q) - 1
        /\ \A k \in 1 .. Len(Tail(q)) : Tail(q)[k] = q[k + 1]
    BY <1>1, HeadTailProperties
  <1>3. FrontPacket(Tail(q), n) = FrontPacket(q, n) + 1
    BY <1>1, <1>2 DEF FrontPacket
  <1>4. FrontPacket(q, n) \in Nat
    BY <1>1 DEF FrontPacket
  <1>5. Consecutive(Tail(q), n)
    <2>1. \A k \in 1 .. Len(q) : q[k] = n - Len(q) + k
      BY DEF Ordered, Consecutive
    <2>2. SUFFICES ASSUME NEW k \in 1 .. Len(Tail(q))
                   PROVE  Tail(q)[k] = n - Len(Tail(q)) + k
      BY DEF Consecutive
    <2>3. k + 1 \in 1 .. Len(q)
      BY <1>1, <1>2
    <2>4. Tail(q)[k] = n - Len(q) + (k + 1)
      BY <1>2, <2>1, <2>3
    <2>5. QED
      BY <1>1, <1>2, <2>4
  <1>6. Types(Tail(q), o, n, w)
    BY <1>1, <1>2 DEF Types, Ordered
  <1>7. /\ \A k \in 1 .. Len(o) : o[k].packet \in Nat
        /\ \A j \in 1 .. Len(w) : w[j].packet \in Nat
    BY OrderedFacts
  <1>8. OpsInOrder(Tail(q), o, n)
    BY <1>3, <1>4, <1>7 DEF Ordered, OpsInOrder
  <1>9. WireBehind(Tail(q), o, n, w)
    BY <1>3, <1>4, <1>7 DEF Ordered, WireBehind
  <1>10. QED
    BY <1>2, <1>3, <1>5, <1>6, <1>8, <1>9 DEF Ordered

\* The front is the packet FrontPacket says.
LEMMA HeadFront ==
  ASSUME NEW q, NEW o, NEW n, NEW w, Ordered(q, o, n, w), q # <<>>
  PROVE  Head(q) = FrontPacket(q, n) /\ Head(q) \in Packets /\ ~Freed(Head(q), q)
  <1>1. q \in Seq(Packets) /\ Len(q) \in Nat \ {0} /\ n \in Nat
    BY EmptySeq, MaxPacketsAssumption DEF Ordered, Types
  <1>2. Head(q) = q[1] /\ q[1] \in Packets
    BY <1>1, HeadTailProperties, ElementOfSeq
  <1>3. q[1] = n - Len(q) + 1
    BY <1>1 DEF Ordered, Consecutive
  <1>4. QED
    BY <1>1, <1>2, <1>3 DEF FrontPacket, Freed

\* A write starts on the front, or none on an empty queue.
LEMMA StartOrdered ==
  ASSUME NEW q, NEW o, NEW n, Ordered(q, o, n, wire), StartWriting(q, o)
  PROVE  Ordered(q, ops', n, wire')
  <1>1. CASE q = <<>>
    <2>1. ops' = o /\ wire' = wire
      BY <1>1 DEF StartWriting
    <2>2. QED
      BY <2>1
  <1>2. CASE q # <<>>
    <2> DEFINE p == FrontPacket(q, n)
    <2>1. PICK state \in States :
            /\ ops' = Append(o, [packet |-> p, state |-> state])
            /\ IF state = "pending"
               THEN wire' = wire
               ELSE /\ \A k \in 1 .. Len(o) : o[k].state # "pending"
                    /\ Perform(p, q, state)
      BY <1>2, HeadFront DEF StartWriting
    <2>2. p \in Packets /\ p \in Nat /\ ~Freed(p, q)
      BY <1>2, HeadFront, OrderedFacts
    <2>3. /\ ops' \in Seq(Operations) /\ Len(ops') = Len(o) + 1
          /\ \A k \in 1 .. Len(o) : ops'[k] = o[k]
          /\ ops'[Len(o) + 1] = [packet |-> p, state |-> state]
      <3>1. [packet |-> p, state |-> state] \in Operations
        BY <2>1, <2>2 DEF Operations
      <3>2. o \in Seq(Operations)
        BY OrderedFacts
      <3>3. QED
        BY <2>1, <3>1, <3>2, AppendProperties
    <2>4. OpsInOrder(q, ops', n)
      <3>1. /\ Len(o) \in Nat /\ \A k \in 1 .. Len(o) : o[k].packet \in Nat
        BY OrderedFacts
      <3>2. OpsInOrder(q, o, n)
        BY DEF Ordered
      <3>3. \A k \in 1 .. Len(ops') : k \in 1 .. Len(o) \/ k = Len(o) + 1
        BY <2>3, <3>1
      <3>4. \A k \in 1 .. Len(ops') :
              ops'[k].packet = IF k = Len(o) + 1 THEN p ELSE o[k].packet
        BY <2>3, <3>1, <3>3
      <3>5. \A k \in 1 .. Len(ops') : ops'[k].packet <= p
        BY <2>2, <3>2, <3>3, <3>4 DEF OpsInOrder
      <3>6. ASSUME NEW j \in 1 .. Len(ops'), NEW k \in 1 .. Len(ops'), j < k
            PROVE  ops'[j].packet <= ops'[k].packet
        <4>1. j \in 1 .. Len(o)
          BY <2>3, <3>1, <3>6
        <4>2. CASE k \in 1 .. Len(o)
          BY <2>3, <3>2, <3>6, <4>1, <4>2 DEF OpsInOrder
        <4>3. CASE k = Len(o) + 1
          BY <3>4, <3>5, <4>3
        <4>4. QED
          BY <3>3, <4>2, <4>3
      <3>7. QED
        BY <3>5, <3>6 DEF OpsInOrder
    <2>5. ASSUME wire' = wire
          PROVE  Ordered(q, ops', n, wire')
      <3>1. \A j \in 1 .. Len(wire), k \in 1 .. Len(ops') :
              ops'[k].state = "pending" => wire[j].packet <= ops'[k].packet
        <4>1. SUFFICES ASSUME NEW j \in 1 .. Len(wire), NEW k \in 1 .. Len(ops'),
                              ops'[k].state = "pending"
                       PROVE  wire[j].packet <= ops'[k].packet
          OBVIOUS
        <4>2. CASE k \in 1 .. Len(o)
          BY <2>3, <4>1, <4>2 DEF Ordered, WireBehind
        <4>3. CASE k = Len(o) + 1
          BY <2>3, <4>3 DEF Ordered, WireBehind
        <4>4. Len(o) \in Nat
          BY OrderedFacts
        <4>5. QED
          BY <2>3, <4>2, <4>3, <4>4
      <3>2. WireBehind(q, ops', n, wire)
        BY <3>1 DEF Ordered, WireBehind
      <3>3. QED
        BY <2>3, <2>4, <2>5, <3>2 DEF Ordered, Types
    <2>6. CASE state = "pending"
      BY <2>1, <2>5, <2>6
    <2>7. CASE state = "error"
      BY <2>1, <2>5, <2>7 DEF Perform
    <2>8. CASE state = "written"
      <3>1. PICK whole \in BOOLEAN :
              wire' = Append(wire, [packet |-> p, whole |-> whole])
        BY <2>1, <2>2, <2>8 DEF Perform
      <3>2. \A k \in 1 .. Len(ops') : ops'[k].state # "pending"
        <4>1. \A k \in 1 .. Len(o) : o[k].state # "pending"
          BY <2>1, <2>8
        <4>2. Len(o) \in Nat
          BY OrderedFacts
        <4>3. QED
          BY <2>3, <2>8, <4>1, <4>2
      <3>3. /\ wire' \in Seq(Writes) /\ Len(wire') = Len(wire) + 1
            /\ \A k \in 1 .. Len(wire) : wire'[k] = wire[k]
            /\ wire'[Len(wire) + 1] = [packet |-> p, whole |-> whole]
        <4>1. [packet |-> p, whole |-> whole] \in Writes
          BY <2>2, MaxPacketsAssumption DEF Writes, Packets
        <4>2. wire \in Seq(Writes)
          BY OrderedFacts
        <4>3. QED
          BY <3>1, <4>1, <4>2, AppendProperties
      <3>4. Len(wire) \in Nat /\ \A j \in 1 .. Len(wire) : wire[j].packet \in Nat
        BY OrderedFacts
      <3>5. \A j \in 1 .. Len(wire) : wire[j].packet <= p
        BY DEF Ordered, WireBehind
      <3>6. \A j \in 1 .. Len(wire') : j \in 1 .. Len(wire) \/ j = Len(wire) + 1
        BY <3>3, <3>4
      <3>7. \A j \in 1 .. Len(wire') : wire'[j].packet <= p
        BY <2>2, <3>3, <3>5, <3>6
      <3>8. WireBehind(q, ops', n, wire')
        BY <3>2, <3>7 DEF WireBehind
      <3>9. WireInOrder(wire')
        <4>1. SUFFICES ASSUME NEW j \in 1 .. Len(wire'), NEW k \in 1 .. Len(wire'),
                              j < k, wire'[k].packet # 0
                       PROVE  wire'[j].packet <= wire'[k].packet
          BY DEF WireInOrder
        <4>2. CASE k \in 1 .. Len(wire)
          <5>1. j \in 1 .. Len(wire)
            BY <3>3, <3>4, <4>1, <4>2
          <5>2. QED
            BY <3>3, <4>1, <4>2, <5>1 DEF Ordered, WireInOrder
        <4>3. CASE k = Len(wire) + 1
          BY <3>3, <3>7, <4>3
        <4>4. QED
          BY <3>6, <4>2, <4>3
      <3>10. QED
        BY <2>3, <2>4, <3>3, <3>8, <3>9 DEF Ordered, Types
    <2>9. QED
      BY <2>1, <2>6, <2>7, <2>8 DEF States
  <1>3. QED
    BY <1>1, <1>2

\* An operation that waited is tried again.
LEMMA ReadyOrdered ==
  ASSUME Ordered(queue, ops, pushed, wire), Ready
  PROVE  Ordered(queue, ops', pushed, wire')
  <1>1. PICK k \in 1 .. Len(ops), state \in States \ {"pending"} :
          /\ ops[k].state = "pending"
          /\ \A j \in 1 .. k - 1 : ops[j].state # "pending"
          /\ Perform(ops[k].packet, queue, state)
          /\ ops' = [ops EXCEPT ![k].state = state]
    BY DEF Ready
  <1> DEFINE p == ops[k].packet
  <1>2. /\ ops \in Seq(Operations) /\ Len(ops) \in Nat
        /\ ops[k] \in Operations /\ p \in Packets /\ p \in Nat
        /\ \A j \in 1 .. Len(ops) : ops[j].packet \in Nat
    BY OrderedFacts
  <1>3. /\ ops' \in Seq(Operations) /\ Len(ops') = Len(ops)
        /\ \A j \in 1 .. Len(ops) :
             ops'[j] = IF j = k THEN [ops[k] EXCEPT !.state = state] ELSE ops[j]
    <2> DEFINE new == [ops[k] EXCEPT !.state = state]
    <2>1. new \in Operations
      BY <1>2 DEF Operations, States
    <2>2. ops' = [ops EXCEPT ![k] = new]
      BY <1>1
    <2>3. QED
      BY <1>2, <2>1, <2>2, ExceptSeq
  <1>4. \A j \in 1 .. Len(ops) :
          /\ ops'[j].packet = ops[j].packet
          /\ ops'[j].state = IF j = k THEN state ELSE ops[j].state
    BY <1>2, <1>3 DEF Operations
  <1>5. OpsInOrder(queue, ops', pushed)
    BY <1>3, <1>4 DEF Ordered, OpsInOrder
  <1>6. \A j \in 1 .. Len(ops') :
          ops'[j].state = "pending" =>
            /\ j > k /\ ops[j].state = "pending"
            /\ p <= ops'[j].packet
    <2>1. SUFFICES ASSUME NEW j \in 1 .. Len(ops), ops'[j].state = "pending"
                   PROVE  /\ j > k /\ ops[j].state = "pending"
                          /\ p <= ops'[j].packet
      BY <1>3
    <2>2. j # k /\ ops[j].state = "pending"
      BY <1>4, <2>1
    <2>3. j > k
      BY <1>1, <2>2
    <2>4. QED
      BY <1>4, <2>2, <2>3 DEF Ordered, OpsInOrder
  <1>7. CASE wire' = wire
    <2>1. WireBehind(queue, ops', pushed, wire)
      BY <1>3, <1>4, <1>6 DEF Ordered, WireBehind
    <2>2. QED
      BY <1>3, <1>5, <1>7, <2>1 DEF Ordered, Types
  <1>8. CASE state = "written"
    <2>1. PICK whole \in BOOLEAN :
            wire' = Append(wire, [packet |-> IF Freed(p, queue) THEN 0 ELSE p,
                                  whole |-> whole])
      BY <1>1, <1>8 DEF Perform
    <2> DEFINE r == IF Freed(p, queue) THEN 0 ELSE p
    <2>2. r \in 0 .. MaxPackets /\ r <= p /\ r \in Nat /\ (r # 0 => r = p)
      BY <1>2, MaxPacketsAssumption DEF Packets
    <2> HIDE DEF r
    <2>3. /\ wire' \in Seq(Writes) /\ Len(wire') = Len(wire) + 1
          /\ \A i \in 1 .. Len(wire) : wire'[i] = wire[i]
          /\ wire'[Len(wire) + 1] = [packet |-> r, whole |-> whole]
      <3>1. [packet |-> r, whole |-> whole] \in Writes
        BY <2>2 DEF Writes
      <3>2. wire \in Seq(Writes)
        BY OrderedFacts
      <3>3. wire' = Append(wire, [packet |-> r, whole |-> whole])
        BY <2>1 DEF r
      <3>4. QED
        BY <3>1, <3>2, <3>3, AppendProperties
    <2>4. Len(wire) \in Nat /\ \A j \in 1 .. Len(wire) : wire[j].packet \in Nat
      BY OrderedFacts
    <2>5. \A j \in 1 .. Len(wire) : wire[j].packet <= p
      BY <1>1 DEF Ordered, WireBehind
    <2>6. \A j \in 1 .. Len(wire') : j \in 1 .. Len(wire) \/ j = Len(wire) + 1
      BY <2>3, <2>4
    <2>7. \A j \in 1 .. Len(wire') : wire'[j].packet <= p /\ wire'[j].packet \in Nat
      BY <1>2, <2>2, <2>3, <2>4, <2>5, <2>6
    <2>8. p <= FrontPacket(queue, pushed) /\ FrontPacket(queue, pushed) \in Nat
      BY OrderedFacts DEF Ordered, OpsInOrder
    <2>9. WireBehind(queue, ops', pushed, wire')
      <3>1. \A j \in 1 .. Len(wire') :
              wire'[j].packet <= FrontPacket(queue, pushed)
        BY <1>2, <2>7, <2>8
      <3>2. ASSUME NEW j \in 1 .. Len(wire'), NEW i \in 1 .. Len(ops'),
                   ops'[i].state = "pending"
            PROVE  wire'[j].packet <= ops'[i].packet
        <4>1. p <= ops'[i].packet /\ ops'[i].packet \in Nat
          BY <1>2, <1>3, <1>4, <1>6, <3>2
        <4>2. QED
          BY <1>2, <2>7, <4>1
      <3>3. QED
        BY <3>1, <3>2 DEF WireBehind
    <2>10. WireInOrder(wire')
      <3>1. SUFFICES ASSUME NEW j \in 1 .. Len(wire'), NEW i \in 1 .. Len(wire'),
                            j < i, wire'[i].packet # 0
                     PROVE  wire'[j].packet <= wire'[i].packet
        BY DEF WireInOrder
      <3>2. CASE i \in 1 .. Len(wire)
        <4>1. j \in 1 .. Len(wire)
          BY <2>3, <2>4, <3>1, <3>2
        <4>2. QED
          BY <2>3, <3>1, <3>2, <4>1 DEF Ordered, WireInOrder
      <3>3. CASE i = Len(wire) + 1
        BY <2>2, <2>3, <2>7, <3>1, <3>3
      <3>4. QED
        BY <2>6, <3>2, <3>3
    <2>11. QED
      BY <1>3, <1>5, <2>3, <2>9, <2>10 DEF Ordered, Types
  <1>9. QED
    BY <1>1, <1>7, <1>8 DEF States, Perform

-----------------------------------------------------------------------------
(***************************************************************************)
(* One write at a time, as long as no push meets one under way.            *)
(***************************************************************************)

LEMMA AtMostOne == \A n \in Nat : \A k \in 1 .. n : n <= 1 => n = 1 /\ k = 1
  OBVIOUS

\* With no operation under way, a write of the front starts.
LEMMA StartAlone ==
  ASSUME NEW q, NEW n, Ordered(q, <<>>, n, wire), Alone(q, <<>>, n, wire),
         StartWriting(q, <<>>)
  PROVE  Alone(q, ops', n, wire')
  <1>1. CASE q = <<>>
    BY <1>1 DEF StartWriting
  <1>2. CASE q # <<>>
    <2> DEFINE p == FrontPacket(q, n)
    <2>1. PICK state \in States :
            /\ ops' = Append(<<>>, [packet |-> p, state |-> state])
            /\ IF state = "pending" THEN wire' = wire
               ELSE Perform(p, q, state)
      BY <1>2, HeadFront DEF StartWriting
    <2>2. p \in Nat \ {0} /\ ~Freed(p, q)
      BY <1>2, HeadFront, OrderedFacts
    <2>3. Len(ops') = 1 /\ ops'[1].packet = p /\ ops'[1].state = state
      BY <2>1
    <2>4. /\ Len(wire) \in Nat /\ wire \in Seq(Writes)
          /\ \A j \in 1 .. Len(wire) : wire[j].packet \in Nat
      BY OrderedFacts
    <2>5. /\ \A j \in 1 .. Len(wire) : wire[j].packet # 0 /\ wire[j].packet < p
          /\ \A j, k \in 1 .. Len(wire) : j < k => wire[j].packet < wire[k].packet
      BY DEF Alone
    <2>6. CASE wire' = wire
      BY <1>2, <2>3, <2>5, <2>6 DEF Alone
    <2>7. CASE state = "written"
      <3>1. PICK whole \in BOOLEAN :
              wire' = Append(wire, [packet |-> p, whole |-> whole])
        BY <2>1, <2>2, <2>7 DEF Perform
      <3>2. /\ Len(wire') = Len(wire) + 1
            /\ \A j \in 1 .. Len(wire) : wire'[j] = wire[j]
            /\ wire'[Len(wire) + 1].packet = p
        BY <2>4, <3>1
      <3>3. \A j \in 1 .. Len(wire') :
              j \in 1 .. Len(wire) \/ j = Len(wire) + 1
        BY <2>4, <3>2
      <3>4. \A j \in 1 .. Len(wire') : wire'[j].packet # 0
        BY <2>2, <2>5, <3>2, <3>3
      <3>5. ASSUME NEW j \in 1 .. Len(wire'), NEW k \in 1 .. Len(wire'), j < k
            PROVE  wire'[j].packet < wire'[k].packet
        <4>1. j \in 1 .. Len(wire)
          BY <2>4, <3>2, <3>5
        <4>2. QED
          BY <2>5, <3>2, <3>3, <3>5, <4>1
      <3>6. QED
        BY <1>2, <2>3, <2>7, <3>4, <3>5 DEF Alone
    <2>8. QED
      BY <2>1, <2>6, <2>7 DEF States, Perform
  <1>3. QED
    BY <1>1, <1>2

\* The one operation under way is tried again.
LEMMA ReadyAlone ==
  ASSUME Ordered(queue, ops, pushed, wire), Alone(queue, ops, pushed, wire),
         Ready
  PROVE  Alone(queue, ops', pushed, wire')
  <1> DEFINE p == FrontPacket(queue, pushed)
  <1>1. /\ ops \in Seq(Operations) /\ Len(ops) \in Nat /\ p \in Nat \ {0}
        /\ wire \in Seq(Writes) /\ Len(wire) \in Nat
        /\ \A j \in 1 .. Len(wire) : wire[j].packet \in Nat
    BY OrderedFacts
  <1>2. PICK k \in 1 .. Len(ops), state \in States \ {"pending"} :
          /\ ops[k].state = "pending"
          /\ Perform(ops[k].packet, queue, state)
          /\ ops' = [ops EXCEPT ![k].state = state]
    BY DEF Ready
  <1>3. Len(ops) = 1 /\ k = 1 /\ queue # <<>> /\ ops[1].packet = p
    <2>1. Len(ops) \in Nat /\ Len(ops) <= 1
      BY <1>1 DEF Alone
    <2>2. Len(ops) = 1 /\ k = 1
      BY <2>1, AtMostOne
    <2>3. \A i \in 1 .. Len(ops) : queue # <<>> /\ ops[i].packet = p
      BY DEF Alone
    <2>4. QED
      BY <2>2, <2>3
  <1>4. ~Freed(p, queue)
    BY <1>3, HeadFront
  <1>5. Len(ops') = 1 /\ ops'[1].packet = p /\ ops'[1].state = state
    <2>1. ops[1] \in Operations
      BY <1>3, OrderedFacts
    <2>2. QED
      BY <1>1, <1>2, <1>3, <2>1 DEF Operations
  <1>6. /\ \A j \in 1 .. Len(wire) : wire[j].packet # 0 /\ wire[j].packet < p
        /\ \A i, j \in 1 .. Len(wire) : i < j => wire[i].packet < wire[j].packet
    <2>1. \A i \in 1 .. Len(ops) : ops[i].state # "written"
      BY <1>2, <1>3
    <2>2. QED
      BY <2>1 DEF Alone
  <1>7. CASE state = "error"
    <2>1. wire' = wire
      BY <1>2, <1>7 DEF Perform
    <2>2. QED
      BY <1>3, <1>5, <1>6, <2>1 DEF Alone
  <1>8. CASE state = "written"
    <2>1. PICK whole \in BOOLEAN :
            wire' = Append(wire, [packet |-> p, whole |-> whole])
      BY <1>2, <1>3, <1>4, <1>8 DEF Perform
    <2>2. /\ Len(wire') = Len(wire) + 1
          /\ \A j \in 1 .. Len(wire) : wire'[j] = wire[j]
          /\ wire'[Len(wire) + 1].packet = p
      BY <1>1, <2>1
    <2>3. \A j \in 1 .. Len(wire') : j \in 1 .. Len(wire) \/ j = Len(wire) + 1
      BY <1>1, <2>2
    <2>4. \A j \in 1 .. Len(wire') : wire'[j].packet # 0
      BY <1>1, <1>6, <2>2, <2>3
    <2>5. ASSUME NEW i \in 1 .. Len(wire'), NEW j \in 1 .. Len(wire'), i < j
          PROVE  wire'[i].packet < wire'[j].packet
      <3>1. i \in 1 .. Len(wire)
        BY <1>1, <2>2, <2>5
      <3>2. QED
        BY <1>6, <2>2, <2>3, <2>5, <3>1
    <2>6. QED
      BY <1>3, <1>5, <1>8, <2>4, <2>5 DEF Alone
  <1>9. QED
    BY <1>2, <1>7, <1>8 DEF States

LEMMA OneElement ==
  ASSUME NEW S, NEW s \in Seq(S), Len(s) = 1
  PROVE  Head(s) = s[1] /\ Tail(s) = <<>>
  <1>1. Tail(s) \in Seq(S) /\ Len(Tail(s)) = 0 /\ Head(s) = s[1]
    BY HeadTailProperties, EmptySeq
  <1>2. QED
    BY <1>1, EmptySeq

\* The only operation is over, and the front goes with it.
LEMMA PopAlone ==
  ASSUME NEW q, NEW o, NEW n, NEW w,
         Ordered(q, o, n, w), Alone(q, o, n, w), o # <<>>
  PROVE  /\ q # <<>> /\ Len(o) = 1 /\ Tail(o) = <<>>
         /\ Alone(Tail(q), Tail(o), n, w)
  <1>1. /\ o \in Seq(Operations) /\ Len(o) \in Nat \ {0}
        /\ FrontPacket(q, n) \in Nat
        /\ \A j \in 1 .. Len(w) : w[j].packet \in Nat
    BY OrderedFacts
  <1>2. Len(o) = 1
    <2>1. Len(o) <= 1
      BY Zenon DEF Alone
    <2>2. 1 \in 1 .. Len(o)
      BY <1>1
    <2>3. QED
      BY <1>1, <2>1, <2>2, AtMostOne, Zenon
  <1>3. q # <<>>
    BY <1>2 DEF Alone
  <1>4. Tail(o) = <<>>
    BY <1>1, <1>2, OneElement
  <1>5. FrontPacket(Tail(q), n) = FrontPacket(q, n) + 1
    BY <1>3, PopOrdered
  <1>6. \A j \in 1 .. Len(w) : w[j].packet < FrontPacket(Tail(q), n)
    BY <1>1, <1>5 DEF Ordered, WireBehind
  <1>7. QED
    BY <1>2, <1>3, <1>4, <1>6 DEF Alone

\* Of an operation that failed at the tap device the packet stays.
LEMMA DropAlone ==
  ASSUME NEW q, NEW o, NEW n, NEW w, Ordered(q, o, n, w), Alone(q, o, n, w),
         o # <<>>, o[1].state = "error"
  PROVE  Tail(o) = <<>> /\ Alone(q, Tail(o), n, w)
  <1>1. Len(o) = 1 /\ Tail(o) = <<>>
    BY PopAlone
  <1>2. \A k \in 1 .. Len(o) : o[k].state # "written"
    BY <1>1
  <1>3. Alone(q, <<>>, n, w)
    BY <1>2 DEF Alone
  <1>4. QED
    BY <1>1, <1>3

-----------------------------------------------------------------------------
\* What StartWriting does to the operations.
LEMMA StartFacts ==
  ASSUME NEW q, NEW o \in Seq(Operations), StartWriting(q, o)
  PROVE  /\ Len(ops') = IF q = <<>> THEN Len(o) ELSE Len(o) + 1
         /\ failed \subseteq failed'
         /\ ErrorsFailed(o, failed) => ErrorsFailed(ops', failed')
         /\ failed' \subseteq failed \cup {Head(q)} /\ (q = <<>> => failed' = failed)
  <1>1. CASE q = <<>>
    BY <1>1 DEF StartWriting
  <1>2. CASE q # <<>>
    <2>1. PICK state \in States :
            /\ ops' = Append(o, [packet |-> Head(q), state |-> state])
            /\ IF state = "pending" THEN failed' = failed
               ELSE Perform(Head(q), q, state)
      BY <1>2 DEF StartWriting
    <2>2. /\ failed \subseteq failed' /\ failed' \subseteq failed \cup {Head(q)}
          /\ state = "error" => failed' # {}
      BY <2>1 DEF Perform, States
    <2>3. /\ Len(ops') = Len(o) + 1
          /\ \A k \in 1 .. Len(ops') :
               ops'[k] = IF k = Len(o) + 1 THEN [packet |-> Head(q), state |-> state]
                         ELSE o[k]
          /\ \A k \in 1 .. Len(ops') : k = Len(o) + 1 \/ k \in 1 .. Len(o)
      BY <2>1
    <2>4. ErrorsFailed(o, failed) => ErrorsFailed(ops', failed')
      <3>1. SUFFICES ASSUME ErrorsFailed(o, failed), NEW k \in 1 .. Len(ops'),
                            ops'[k].state = "error"
                     PROVE  failed' # {}
        BY DEF ErrorsFailed
      <3>2. CASE k = Len(o) + 1
        BY <2>2, <2>3, <3>1, <3>2
      <3>3. CASE k # Len(o) + 1
        BY <2>2, <2>3, <3>1, <3>3 DEF ErrorsFailed
      <3>4. QED
        BY <3>2, <3>3
    <2>5. QED
      BY <1>2, <2>2, <2>3, <2>4
  <1>3. QED
    BY <1>1, <1>2

\* QueueTypeOK, from the parts that the steps keep.
LEMMA QueueTypes ==
  ASSUME QueueTypeOK, Ordered(queue, ops, pushed, wire)'
  PROVE  /\ pushed' \in 0 .. MaxPackets /\ queue' \in Seq(Packets)
         /\ ops' \in Seq([packet : Packets, state : States])
         /\ wire' \in Seq([packet : 0 .. MaxPackets, whole : BOOLEAN])
  BY DEF Ordered, Types, Operations, Writes

LEMMA QueueInitInv == QueueInit => QInv
  <1>1. SUFFICES ASSUME QueueInit PROVE QInv
    OBVIOUS
  <1>2. QueueTypeOK
    <2>1. 0 \in 0 .. MaxPackets
      BY MaxPacketsAssumption
    <2>2. QED
      BY <1>1, <2>1, EmptySeq DEF QueueInit, QueueTypeOK
  <1>3. Ordered(queue, ops, pushed, wire)
    BY <1>1, <1>2
       DEF QueueInit, QueueTypeOK, Ordered, Types, Consecutive, OpsInOrder,
           WireBehind, WireInOrder, Operations, Writes
  <1>4. QED
    BY <1>1, <1>2, <1>3
       DEF QueueInit, QInv, ErrorsFailed, NoIdleQueue, Alone

LEMMA PushInv ==
  ASSUME QInv, Push
  PROVE  QInv'
  <1> DEFINE q == Append(queue, pushed + 1)
  <1>1. /\ ~undefined /\ pushed < MaxPackets /\ pushed' = pushed + 1
        /\ queue' = q /\ StartWriting(q, ops)
        /\ overlapped' = (overlapped \/ ops # <<>>)
        /\ side' = side /\ undefined' = undefined
    BY DEF Push
  <1>2. /\ Ordered(queue, ops, pushed, wire) /\ QueueTypeOK
        /\ ops \in Seq(Operations) /\ Len(ops) \in Nat /\ Len(queue) \in Nat
    BY OrderedFacts DEF QInv
  <1>3. /\ Ordered(q, ops, pushed + 1, wire) /\ q # <<>>
        /\ FrontPacket(q, pushed + 1) = FrontPacket(queue, pushed)
    BY <1>1, <1>2, PushOrdered
  <1>4. Ordered(q, ops', pushed + 1, wire')
    BY <1>1, <1>3, StartOrdered
  <1>5. /\ Len(ops') = Len(ops) + 1 /\ failed \subseteq failed'
        /\ ErrorsFailed(ops', failed') /\ failed' \subseteq failed \cup {Head(q)}
    BY <1>1, <1>2, <1>3, StartFacts DEF QInv
  <1>6. Head(q) \in Packets
    BY <1>3, HeadFront
  <1>7. QueueTypeOK'
    <2>1. failed' \subseteq Packets /\ overlapped' \in BOOLEAN
      BY <1>1, <1>2, <1>5, <1>6 DEF QueueTypeOK
    <2>2. Ordered(queue, ops, pushed, wire)'
      BY <1>1, <1>4
    <2>3. QED
      BY <1>1, <1>2, <2>1, <2>2, QueueTypes DEF QueueTypeOK
  <1>8. NoIdleQueue'
    <2>1. Len(queue') = Len(queue) + 1
      BY <1>1, <1>2, AppendProperties DEF QueueTypeOK
    <2>2. side' = "serial" \/ failed' = {} => side = "serial" \/ failed = {}
      BY <1>1, <1>5
    <2>3. QED
      BY <1>2, <1>5, <2>1, <2>2 DEF QInv, NoIdleQueue
  <1>9. ASSUME ~overlapped'
        PROVE  ~undefined' /\ Alone(q, ops', pushed + 1, wire')
    <2>1. ops = <<>> /\ ~overlapped
      BY <1>1, <1>9
    <2>2. Alone(queue, <<>>, pushed, wire)
      BY <2>1 DEF QInv
    <2>3. Alone(q, <<>>, pushed + 1, wire)
      BY <1>3, <2>2 DEF Alone
    <2>4. QED
      BY <1>1, <1>3, <2>1, <2>3, StartAlone
  <1>10. QED
    BY <1>1, <1>4, <1>5, <1>7, <1>8, <1>9 DEF QInv

LEMMA ReadyInv ==
  ASSUME QInv, Ready
  PROVE  QInv'
  <1>1. /\ Ordered(queue, ops, pushed, wire) /\ QueueTypeOK
        /\ ops \in Seq(Operations) /\ Len(ops) \in Nat
    BY OrderedFacts DEF QInv
  <1>2. PICK k \in 1 .. Len(ops), state \in States \ {"pending"} :
          /\ Perform(ops[k].packet, queue, state)
          /\ ops' = [ops EXCEPT ![k].state = state]
    BY DEF Ready
  <1>3. /\ UNCHANGED <<side, pushed, queue, overlapped, undefined>>
    BY DEF Ready
  <1>4. Ordered(queue, ops', pushed, wire')
    BY <1>1, ReadyOrdered
  <1>5. Len(ops') = Len(ops) /\ ops[k].packet \in Packets
    BY <1>1, <1>2, OrderedFacts
  <1>6. /\ failed \subseteq failed' /\ failed' \subseteq Packets
        /\ state = "error" => failed' # {}
    BY <1>1, <1>2, <1>5 DEF Perform, QueueTypeOK
  <1>7. QueueTypeOK'
    <2>1. Ordered(queue, ops, pushed, wire)'
      BY <1>3, <1>4
    <2>2. QED
      BY <1>1, <1>3, <1>6, <2>1, QueueTypes DEF QueueTypeOK
  <1>8. ErrorsFailed(ops', failed')
    <2>1. SUFFICES ASSUME NEW j \in 1 .. Len(ops), ops'[j].state = "error"
                   PROVE  failed' # {}
      BY <1>5 DEF ErrorsFailed
    <2>2. CASE j = k
      <3>1. ops[k] \in Operations
        BY <1>1, ElementOfSeq
      <3>2. ops'[k].state = state
        BY <1>1, <1>2, <3>1 DEF Operations
      <3>3. QED
        BY <1>6, <2>1, <2>2, <3>2
    <2>3. CASE j # k
      <3>1. ops'[j] = ops[j]
        BY <1>1, <1>2, <2>3
      <3>2. failed # {}
        BY <2>1, <3>1 DEF QInv, ErrorsFailed
      <3>3. QED
        BY <1>6, <3>2
    <2>4. QED
      BY <2>2, <2>3
  <1>9. NoIdleQueue'
    BY <1>3, <1>5, <1>6 DEF QInv, NoIdleQueue
  <1>10. ~overlapped' => ~undefined' /\ Alone(queue, ops', pushed, wire')
    BY <1>1, <1>3, ReadyAlone DEF QInv
  <1>11. QED
    BY <1>3, <1>4, <1>7, <1>8, <1>9, <1>10 DEF QInv

LEMMA NotNegative == \A n \in Nat : n >= 0
  OBVIOUS

\* A completion pops the front, of an empty queue nothing, and starts the
\* next write.
LEMMA CompletionInv ==
  ASSUME QInv, ops # <<>>,
         queue' = IF queue = <<>> THEN queue ELSE Tail(queue),
         StartWriting(queue', Tail(ops)),
         UNCHANGED <<side, pushed, overlapped, undefined>>
  PROVE  QInv'
  <1> DEFINE o == Tail(ops)
  <1>1. /\ Ordered(queue, ops, pushed, wire) /\ QueueTypeOK
        /\ ops \in Seq(Operations) /\ Len(ops) \in Nat
        /\ queue \in Seq(Packets) /\ Len(queue) \in Nat
        /\ queue # <<>> => Len(queue) > 0
    BY OrderedFacts DEF QInv
  <1>2. /\ Ordered(queue, o, pushed, wire) /\ Len(o) = Len(ops) - 1
        /\ \A k \in 1 .. Len(o) : o[k] = ops[k + 1]
    BY <1>1, DropOrdered
  <1>3. o \in Seq(Operations)
    BY <1>2, OrderedFacts
  <1>4. Ordered(queue', o, pushed, wire)
    BY <1>2, PopOrdered
  <1>5. Ordered(queue', ops', pushed, wire')
    BY <1>4, StartOrdered
  <1>6. ErrorsFailed(o, failed)
    <2>1. \A k \in 1 .. Len(o) : k + 1 \in 1 .. Len(ops)
      BY <1>1, <1>2
    <2>2. QED
      BY <1>2, <2>1 DEF QInv, ErrorsFailed
  <1>7. /\ Len(ops') = IF queue' = <<>> THEN Len(o) ELSE Len(o) + 1
        /\ failed \subseteq failed' /\ ErrorsFailed(ops', failed')
        /\ failed' \subseteq failed \cup {Head(queue')}
        /\ queue' = <<>> => failed' = failed
    BY <1>3, <1>6, StartFacts
  <1>8. queue' # <<>> => Head(queue') \in Packets
    BY <1>4, HeadFront
  <1>9. QueueTypeOK'
    <2>1. failed' \subseteq Packets
      BY <1>1, <1>7, <1>8 DEF QueueTypeOK
    <2>2. Ordered(queue, ops, pushed, wire)'
      BY <1>5
    <2>3. QED
      BY <1>1, <2>1, <2>2, QueueTypes DEF QueueTypeOK
  <1>10. NoIdleQueue'
    <2>1. CASE queue' = <<>>
      <3>1. Len(queue') = 0 /\ Len(ops') \in Nat
        BY <1>5, <2>1, OrderedFacts
      <3>2. Len(ops') >= Len(queue')
        BY <3>1, NotNegative, Zenon
      <3>3. QED
        BY <3>2 DEF NoIdleQueue
    <2>2. CASE queue' # <<>>
      <3>1. queue # <<>> /\ Len(queue') = Len(queue) - 1
        BY <1>1, <2>2, PopOrdered
      <3>2. Len(ops') = Len(ops)
        BY <1>1, <1>2, <1>7, <2>2
      <3>3. QED
        BY <1>1, <1>7, <3>1, <3>2 DEF QInv, NoIdleQueue
    <2>3. QED
      BY <2>1, <2>2
  <1>11. ASSUME ~overlapped
         PROVE  ~undefined /\ Alone(queue', ops', pushed, wire')
    <2>1. ~undefined /\ Alone(queue, ops, pushed, wire)
      BY <1>11 DEF QInv
    <2>2. queue # <<>> /\ o = <<>> /\ Alone(Tail(queue), o, pushed, wire)
      BY <1>1, <2>1, PopAlone
    <2>3. queue' = Tail(queue)
      BY <2>2
    <2>4. Alone(queue', ops', pushed, wire')
      BY <1>4, <2>2, <2>3, StartAlone
    <2>5. QED
      BY <2>1, <2>4
  <1>12. QED
    BY <1>5, <1>7, <1>9, <1>10, <1>11 DEF QInv

LEMMA HandleTunWriteInv ==
  ASSUME QInv, HandleTunWrite
  PROVE  QInv'
  <1>1. /\ side = "tun" /\ ~undefined /\ ops # <<>>
        /\ UNCHANGED <<side, pushed, overlapped>>
    BY DEF HandleTunWrite
  <1>2. /\ Ordered(queue, ops, pushed, wire) /\ QueueTypeOK
        /\ ops \in Seq(Operations) /\ Len(ops) \in Nat \ {0} /\ Len(queue) \in Nat
    BY <1>1, OrderedFacts DEF QInv
  <1>3. /\ Ordered(queue, Tail(ops), pushed, wire)
        /\ Len(Tail(ops)) = Len(ops) - 1
        /\ \A k \in 1 .. Len(Tail(ops)) : Tail(ops)[k] = ops[k + 1]
    BY <1>1, <1>2, DropOrdered
  <1>4. ErrorsFailed(Tail(ops), failed)
    <2>1. \A k \in 1 .. Len(Tail(ops)) : k + 1 \in 1 .. Len(ops)
      BY <1>2, <1>3
    <2>2. QED
      BY <1>3, <2>1 DEF QInv, ErrorsFailed
  <1>5. Head(ops) = ops[1] /\ 1 \in 1 .. Len(ops)
    BY <1>2, HeadTailProperties
  <1>6. CASE queue # <<>> /\ Head(ops).state # "error"
    <2>1. /\ queue' = Tail(queue) /\ StartWriting(queue', Tail(ops))
          /\ undefined' = undefined
      BY <1>6 DEF HandleTunWrite
    <2>2. QED
      BY <1>1, <1>6, <2>1, CompletionInv
  <1>7. CASE Head(ops).state = "error"
    <2>1. ops' = Tail(ops) /\ UNCHANGED <<queue, wire, failed, undefined>>
      BY <1>7 DEF HandleTunWrite
    <2>2. failed # {}
      BY <1>5, <1>7 DEF QInv, ErrorsFailed
    <2>3. NoIdleQueue'
      BY <1>1, <2>1, <2>2 DEF NoIdleQueue
    <2>4. QueueTypeOK'
      <3>1. Ordered(queue, ops, pushed, wire)'
        BY <1>1, <1>3, <2>1
      <3>2. QED
        BY <1>1, <1>2, <2>1, <3>1, QueueTypes DEF QueueTypeOK
    <2>5. ~overlapped => ~undefined /\ Alone(queue, Tail(ops), pushed, wire)
      <3>1. ops[1].state = "error"
        BY <1>5, <1>7
      <3>2. QED
        BY <1>1, <1>2, <3>1, DropAlone DEF QInv
    <2>6. QED
      BY <1>1, <1>3, <1>4, <2>1, <2>3, <2>4, <2>5 DEF QInv
  <1>8. CASE queue = <<>> /\ Head(ops).state # "error"
    <2>1. ops' = Tail(ops) /\ undefined' = TRUE /\ UNCHANGED <<queue, wire, failed>>
      BY <1>8 DEF HandleTunWrite
    <2>2. overlapped
      BY <1>1, <1>2, <1>8, PopAlone DEF QInv
    <2>3. NoIdleQueue'
      BY <1>2, <1>3, <1>8, <2>1 DEF NoIdleQueue
    <2>4. QueueTypeOK'
      <3>1. Ordered(queue, ops, pushed, wire)'
        BY <1>1, <1>3, <2>1
      <3>2. QED
        BY <1>1, <1>2, <2>1, <3>1, QueueTypes DEF QueueTypeOK
    <2>5. QED
      BY <1>1, <1>3, <1>4, <2>1, <2>2, <2>3, <2>4 DEF QInv
  <1>9. QED
    BY <1>6, <1>7, <1>8

LEMMA QueueStepInv == QInv /\ [QueueNext]_queueVars => QInv'
  <1>1. ASSUME QInv, UNCHANGED queueVars
        PROVE  QInv'
    <2>1. UNCHANGED <<side, pushed, queue, ops, wire, failed, overlapped, undefined>>
      BY <1>1 DEF queueVars
    <2>2. QueueTypeOK' /\ NoIdleQueue'
      BY <1>1, <2>1 DEF QInv, QueueTypeOK, NoIdleQueue
    <2>3. QED
      BY <1>1, <2>1, <2>2 DEF QInv
  <1>2. ASSUME QInv, WriteHandle
        PROVE  QInv'
    BY <1>2, CompletionInv DEF WriteHandle
  <1>3. QED
    BY <1>1, <1>2, PushInv, ReadyInv, HandleTunWriteInv DEF QueueNext

LEMMA QueueInvariance == QueueSpec => []QInv
  BY QueueInitInv, QueueStepInv, PTL DEF QueueSpec

-----------------------------------------------------------------------------
(***************************************************************************)
(* The types, for any number of packets.                                   *)
(***************************************************************************)
THEOREM QueueTypesHold == QueueSpec => []QueueTypeOK
  <1>1. QInv => QueueTypeOK
    BY DEF QInv
  <1>2. QED
    BY <1>1, QueueInvariance, PTL

(***************************************************************************)
(* However write_queue_ and tun_fd_write_buffers_ are pushed to and popped *)
(* while writes overlap, there is a write under way for every packet in    *)
(* them, unless the tap device has failed.                                 *)
(***************************************************************************)
THEOREM QueueNoIdleQueue == QueueSpec => []NoIdleQueue
  <1>1. QInv => NoIdleQueue
    BY DEF QInv
  <1>2. QED
    BY <1>1, QueueInvariance, PTL

(***************************************************************************)
(* However they overlap, start_writing and start_writing_tun never write a *)
(* packet after a later one.                                               *)
(***************************************************************************)
THEOREM QueueNoOvertaking == QueueSpec => []NoOvertaking
  <1>1. QInv => NoOvertaking
    BY DEF QInv, Ordered, WireInOrder, NoOvertaking
  <1>2. QED
    BY <1>1, QueueInvariance, PTL

(***************************************************************************)
(* As long as every push finds the last write complete, no packet is       *)
(* written twice or after it was freed, and no empty deque is popped.      *)
(***************************************************************************)
THEOREM QueueExactWhenAlone == QueueSpec => []ExactWhenAlone
  <1>1. ASSUME QInv PROVE ExactWhenAlone
    <2>1. SUFFICES ASSUME ~overlapped,
                          NEW j \in 1 .. Len(wire), NEW k \in 1 .. Len(wire),
                          j # k
                   PROVE  wire[j].packet # wire[k].packet
      BY <1>1 DEF QInv, Alone, ExactWhenAlone
    <2>2. \A a, b \in 1 .. Len(wire) : a < b => wire[a].packet < wire[b].packet
      BY <1>1, <2>1 DEF QInv, Alone
    <2>3. wire[j].packet \in Nat /\ wire[k].packet \in Nat
      BY <1>1, OrderedFacts DEF QInv
    <2>4. j < k \/ k < j
      BY <2>1
    <2>5. QED
      BY <2>2, <2>3, <2>4
  <1>2. QED
    BY <1>1, QueueInvariance, PTL

-----------------------------------------------------------------------------
(***************************************************************************)
(* The control plane.  First the dispatcher.                               *)
(***************************************************************************)
Handlers == [id : Nat \ {0}, call : Nat]
Dispatchers == [next_id : Nat, handlers : Seq(Handlers)]

\* The handlers are those of the live sessions, in the order of their ids
\* and of the sessions, and each session's guard holds the id of its own.
Subscribed(d, g, live) ==
  /\ d \in Dispatchers
  /\ live \subseteq Nat /\ DOMAIN g = live
  /\ \A j, k \in 1 .. Len(d.handlers) :
       j < k => /\ d.handlers[j].id < d.handlers[k].id
                /\ d.handlers[j].call < d.handlers[k].call
  /\ \A k \in 1 .. Len(d.handlers) :
       /\ d.handlers[k].id <= d.next_id
       /\ d.handlers[k].call \in live
       /\ d.handlers[k].id = g[d.handlers[k].call]
  /\ \A s \in live : \E k \in 1 .. Len(d.handlers) : d.handlers[k].call = s

LEMMA DispatcherFacts ==
  ASSUME NEW d \in Dispatchers
  PROVE  /\ d.next_id \in Nat
         /\ d.handlers \in Seq(Handlers) /\ Len(d.handlers) \in Nat
         /\ DOMAIN d.handlers = 1 .. Len(d.handlers)
         /\ \A k \in 1 .. Len(d.handlers) :
              /\ d.handlers[k] \in Handlers
              /\ d.handlers[k].id \in Nat \ {0} /\ d.handlers[k].call \in Nat
  <1>1. d.next_id \in Nat /\ d.handlers \in Seq(Handlers)
    BY DEF Dispatchers
  <1>2. \A k \in 1 .. Len(d.handlers) : d.handlers[k] \in Handlers
    BY <1>1, ElementOfSeq
  <1>3. \A e \in Handlers : e.id \in Nat \ {0} /\ e.call \in Nat
    BY DEF Handlers
  <1>4. QED
    BY <1>1, <1>2, <1>3, LenProperties

\* The ranks of 1 .. n without p.
LEMMA Ranks ==
  ASSUME NEW n \in Nat, NEW p \in 1 .. n
  PROVE  LET stay == (1 .. n) \ {p}
         IN  /\ Cardinality(stay) = n - 1
             /\ \A k \in stay : Cardinality({j \in stay : j <= k})
                                  = IF k < p THEN k ELSE k - 1
  <1> DEFINE stay == (1 .. n) \ {p}
  <1>1. Cardinality(stay) = n - 1
    <2>1. IsFiniteSet(1 .. n) /\ Cardinality(1 .. n) = n
      BY FS_Interval
    <2>2. QED
      BY <2>1, FS_RemoveElement
  <1>2. ASSUME NEW k \in stay
        PROVE  Cardinality({j \in stay : j <= k}) = IF k < p THEN k ELSE k - 1
    <2>1. IsFiniteSet(1 .. k) /\ Cardinality(1 .. k) = k
      BY FS_Interval
    <2>2. CASE k < p
      <3>1. {j \in stay : j <= k} = 1 .. k
        BY <2>2
      <3>2. QED
        BY <2>1, <2>2, <3>1
    <2>3. CASE ~(k < p)
      <3>1. {j \in stay : j <= k} = (1 .. k) \ {p} /\ p \in 1 .. k
        BY <2>3
      <3>2. Cardinality((1 .. k) \ {p}) = k - 1
        BY <2>1, <3>1, FS_RemoveElement
      <3>3. QED
        BY <2>3, <3>1, <3>2
    <2>4. QED
      BY <2>2, <2>3
  <1>3. QED
    BY <1>1, <1>2

\* Unsubscribing the p-th handler moves those behind it one place.
LEMMA UnsubscribeOne ==
  ASSUME NEW d \in Dispatchers, NEW p \in 1 .. Len(d.handlers),
         \A k \in 1 .. Len(d.handlers) :
           k # p => d.handlers[k].id # d.handlers[p].id
  PROVE  LET u == Unsubscribe(d, d.handlers[p].id)
         IN  /\ u \in Dispatchers /\ u.next_id = d.next_id
             /\ Len(u.handlers) = Len(d.handlers) - 1
             /\ \A m \in 1 .. Len(u.handlers) :
                  u.handlers[m] = d.handlers[IF m < p THEN m ELSE m + 1]
  <1> DEFINE h == d.handlers
             n == Len(h)
             stay == (1 .. n) \ {p}
             Rank(k) == Cardinality({j \in stay : j <= k})
             Place(m) == CHOOSE k \in stay : Rank(k) = m
             u == Unsubscribe(d, h[p].id)
             after == [m \in 1 .. n - 1 |-> h[Place(m)]]
  <1>1. /\ d = [next_id |-> d.next_id, handlers |-> h] /\ d.next_id \in Nat
        /\ h \in Seq(Handlers)
        /\ n \in Nat /\ n - 1 \in Nat /\ DOMAIN h = 1 .. n
        /\ \A k \in 1 .. n : h[k] \in Handlers
    BY DispatcherFacts DEF Dispatchers
  <1>2. /\ Cardinality(stay) = n - 1
        /\ \A k \in stay : Rank(k) = IF k < p THEN k ELSE k - 1
    BY <1>1, Ranks
  <1>3. stay = {k \in DOMAIN h : h[k].id # h[p].id}
    BY <1>1
  <1>4. u = [d EXCEPT !.handlers = after]
    <2> DEFINE same == {k \in DOMAIN h : h[k].id # h[p].id}
               Kept(S) == [m \in 1 .. Cardinality(S) |->
                             h[CHOOSE k \in S :
                                 Cardinality({j \in S : j <= k}) = m]]
    <2>1. u = [d EXCEPT !.handlers = Kept(same)]
      BY DEF Unsubscribe
    <2>2. Kept(stay) = after
      BY <1>2
    <2> HIDE DEF Kept, same, stay, after, u
    <2>3. stay = same
      BY <1>3 DEF same
    <2>4. QED
      BY <2>1, <2>2, <2>3
  <1>5. u = [next_id |-> d.next_id, handlers |-> after]
    <2> HIDE DEF after, h, u
    <2>1. QED
      BY <1>1, <1>4
  <1>6. ASSUME NEW m \in 1 .. n - 1
        PROVE  Place(m) = IF m < p THEN m ELSE m + 1
    <2> DEFINE q == IF m < p THEN m ELSE m + 1
    <2>1. q \in stay /\ Rank(q) = m
      <3>1. q \in stay
        BY <1>1
      <3>2. Rank(q) = IF q < p THEN q ELSE q - 1
        BY <3>1, <1>2
      <3>3. QED
        BY <3>1, <3>2, <1>1
    <2>2. ASSUME NEW k \in stay, Rank(k) = m
          PROVE  k = q
      <3>1. Rank(k) = IF k < p THEN k ELSE k - 1
        BY <1>2
      <3> HIDE DEF Rank
      <3>2. QED
        BY <2>2, <3>1, <1>1
    <2> HIDE DEF Rank, q, stay
    <2>3. QED
      BY <2>1, <2>2 DEF q
  <1> HIDE DEF Place
  <1>7. /\ \A m \in 1 .. n - 1 : after[m] = h[IF m < p THEN m ELSE m + 1]
        /\ DOMAIN after = 1 .. n - 1
    BY <1>6
  <1>8. after \in Seq(Handlers) /\ Len(after) = n - 1
    <2>1. \A m \in 1 .. n - 1 : h[IF m < p THEN m ELSE m + 1] \in Handlers
      BY <1>1
    <2>2. after \in [1 .. n - 1 -> Handlers]
      BY <1>7, <2>1
    <2> HIDE DEF after
    <2>3. QED
      BY <1>1, <1>7, <2>2, IsASeq, LenProperties
  <1>9. QED
    <2> HIDE DEF after, u, h
    <2>1. u.handlers = after /\ u.next_id = d.next_id /\ u \in Dispatchers
      BY <1>1, <1>5, <1>8 DEF Dispatchers
    <2>2. QED
      BY <1>7, <1>8, <2>1 DEF u, h

LEMMA SubscribeKeeps ==
  ASSUME NEW d, NEW g, NEW live, Subscribed(d, g, live),
         NEW s \in Nat, \A t \in live : t < s
  PROVE  LET e == Subscribe(d, s)
         IN  Subscribed(e,
                        [t \in live \cup {s} |->
                           IF t = s THEN e.next_id ELSE g[t]],
                        live \cup {s})
  <1> DEFINE h == d.handlers
             n == Len(h)
             new == [id |-> d.next_id + 1, call |-> s]
             e == Subscribe(d, s)
             eg == [t \in live \cup {s} |-> IF t = s THEN e.next_id ELSE g[t]]
  <1>1. /\ d.next_id \in Nat /\ h \in Seq(Handlers) /\ n \in Nat
        /\ live \subseteq Nat /\ DOMAIN g = live
        /\ \A k \in 1 .. n : h[k].id \in Nat /\ h[k].call \in Nat
    BY DispatcherFacts DEF Subscribed
  <1>2. /\ \A j, k \in 1 .. n : j < k => h[j].id < h[k].id /\ h[j].call < h[k].call
        /\ \A k \in 1 .. n : /\ h[k].id <= d.next_id
                             /\ h[k].call \in live
                             /\ h[k].id = g[h[k].call]
        /\ \A t \in live : \E k \in 1 .. n : h[k].call = t
    BY DEF Subscribed
  <1>3. e = [next_id |-> d.next_id + 1, handlers |-> Append(h, new)]
    BY DEF Subscribe
  <1>4. new \in Handlers /\ new.id = d.next_id + 1 /\ new.call = s
    BY <1>1 DEF Handlers
  <1> HIDE DEF h, new, e
  <1>5. /\ Append(h, new) \in Seq(Handlers)
        /\ Len(Append(h, new)) = n + 1
        /\ \A k \in 1 .. n : Append(h, new)[k] = h[k]
        /\ Append(h, new)[n + 1] = new
    BY <1>1, <1>4, AppendProperties
  <1> DEFINE f == Append(h, new)
  <1> HIDE DEF f
  <1>6. /\ e.next_id = d.next_id + 1 /\ e.handlers = f /\ e \in Dispatchers
        /\ Len(f) = n + 1
    BY <1>1, <1>3, <1>5 DEF Dispatchers, f
  <1>7. ASSUME NEW k \in 1 .. n + 1
        PROVE  /\ f[k].id <= e.next_id
               /\ f[k].call \in live \cup {s}
               /\ f[k].id = eg[f[k].call]
    <2>1. CASE k \in 1 .. n
      <3>1. f[k] = h[k] /\ h[k].call \in live /\ h[k].call # s
        BY <1>1, <1>2, <1>5, <2>1 DEF f
      <3>2. eg[h[k].call] = g[h[k].call]
        BY <3>1
      <3>3. h[k].id <= d.next_id + 1
        BY <1>1, <1>2, <2>1
      <3>4. QED
        BY <1>2, <1>6, <2>1, <3>1, <3>2, <3>3
    <2>2. CASE k = n + 1
      <3>1. f[k] = new
        BY <1>5, <2>2 DEF f
      <3>2. QED
        BY <1>1, <1>4, <1>6, <3>1
    <2>3. QED
      BY <1>1, <2>1, <2>2
  <1>8. ASSUME NEW j \in 1 .. n + 1, NEW k \in 1 .. n + 1, j < k
        PROVE  f[j].id < f[k].id /\ f[j].call < f[k].call
    <2>1. j \in 1 .. n /\ f[j] = h[j]
      BY <1>1, <1>5, <1>8 DEF f
    <2>2. CASE k \in 1 .. n
      <3>1. f[k] = h[k]
        BY <1>5, <2>2 DEF f
      <3>2. QED
        BY <1>2, <1>8, <2>1, <2>2, <3>1
    <2>3. CASE k = n + 1
      <3>1. f[k] = new
        BY <1>5, <2>3 DEF f
      <3>2. h[j].id <= d.next_id /\ h[j].call < s
        BY <1>2, <2>1
      <3>3. QED
        BY <1>1, <1>4, <2>1, <3>1, <3>2
    <2>4. QED
      BY <1>1, <2>2, <2>3
  <1>9. ASSUME NEW t \in live \cup {s}
        PROVE  \E k \in 1 .. n + 1 : f[k].call = t
    <2>1. CASE t \in live
      <3>1. PICK k \in 1 .. n : h[k].call = t
        BY <1>2, <2>1
      <3>2. f[k] = h[k] /\ k \in 1 .. n + 1
        BY <1>1, <1>5 DEF f
      <3>3. QED
        BY <3>1, <3>2
    <2>2. CASE t = s
      <3>1. f[n + 1].call = s /\ n + 1 \in 1 .. n + 1
        BY <1>1, <1>4, <1>5 DEF f
      <3>2. QED
        BY <2>2, <3>1
    <2>3. QED
      BY <2>1, <2>2
  <1>10. Subscribed(e, eg, live \cup {s})
    <2>1. live \cup {s} \subseteq Nat /\ DOMAIN eg = live \cup {s}
      BY <1>1
    <2> HIDE DEF eg
    <2>2. QED
      BY <1>6, <1>7, <1>8, <1>9, <2>1 DEF Subscribed
  <1>11. QED
    BY <1>10 DEF e

LEMMA UnsubscribeKeeps ==
  ASSUME NEW d, NEW g, NEW live, Subscribed(d, g, live), NEW s \in live
  PROVE  Subscribed(ResetGuard(d, g[s]), [t \in live \ {s} |-> g[t]],
                    live \ {s})
  <1> DEFINE h == d.handlers
             n == Len(h)
             u == ResetGuard(d, g[s])
             f == u.handlers
             ug == [t \in live \ {s} |-> g[t]]
  <1>1. /\ d \in Dispatchers /\ d.next_id \in Nat /\ n \in Nat
        /\ live \subseteq Nat /\ DOMAIN g = live
        /\ \A k \in 1 .. n : h[k].id \in Nat \ {0} /\ h[k].call \in Nat
    BY DispatcherFacts DEF Subscribed
  <1>2. /\ \A j, k \in 1 .. n : j < k => h[j].id < h[k].id /\ h[j].call < h[k].call
        /\ \A k \in 1 .. n : /\ h[k].id <= d.next_id
                             /\ h[k].call \in live
                             /\ h[k].id = g[h[k].call]
        /\ \A t \in live : \E k \in 1 .. n : h[k].call = t
    BY DEF Subscribed
  <1>3. PICK p \in 1 .. n : h[p].call = s
    BY <1>2
  <1>4. /\ g[s] = h[p].id
        /\ u = Unsubscribe(d, h[p].id)
    <2>1. g[s] = h[p].id /\ h[p].id # 0
      BY <1>1, <1>2, <1>3
    <2>2. QED
      BY <2>1 DEF ResetGuard, EmptyGuard
  <1>5. \A j, k \in 1 .. n : j # k => h[j].id # h[k].id /\ h[j].call # h[k].call
    <2> SUFFICES ASSUME NEW j \in 1 .. n, NEW k \in 1 .. n, j # k
                 PROVE  h[j].id # h[k].id /\ h[j].call # h[k].call
      OBVIOUS
    <2>1. j < k \/ k < j
      BY <1>1
    <2>2. \/ h[j].id < h[k].id /\ h[j].call < h[k].call
          \/ h[k].id < h[j].id /\ h[k].call < h[j].call
      BY <1>2, <2>1
    <2>3. QED
      BY <1>1, <2>2
  <1>6. /\ u \in Dispatchers /\ u.next_id = d.next_id
        /\ Len(f) = n - 1
        /\ \A m \in 1 .. n - 1 : f[m] = h[IF m < p THEN m ELSE m + 1]
    <2>1. \A k \in 1 .. Len(d.handlers) :
            k # p => d.handlers[k].id # d.handlers[p].id
      BY <1>5
    <2> DEFINE v == Unsubscribe(d, h[p].id)
    <2>2. /\ v \in Dispatchers /\ v.next_id = d.next_id
          /\ Len(v.handlers) = n - 1
          /\ \A m \in 1 .. Len(v.handlers) :
               v.handlers[m] = h[IF m < p THEN m ELSE m + 1]
      BY <1>1, <2>1, UnsubscribeOne
    <2>3. v = u
      BY <1>4
    <2> HIDE DEF u, v, h
    <2>4. QED
      BY <2>2, <2>3
  <1> DEFINE Old(m) == IF m < p THEN m ELSE m + 1
  <1>7. \A m \in 1 .. n - 1 : Old(m) \in 1 .. n /\ Old(m) # p
    BY <1>1
  <1>8. \A j, m \in 1 .. n - 1 : j < m => Old(j) < Old(m)
    BY <1>1
  <1>9. \A k \in 1 .. n : k # p => \E m \in 1 .. n - 1 : Old(m) = k
    <2> SUFFICES ASSUME NEW k \in 1 .. n, k # p
                 PROVE  \E m \in 1 .. n - 1 : Old(m) = k
      OBVIOUS
    <2>1. CASE k < p
      <3>1. k \in 1 .. n - 1 /\ Old(k) = k
        BY <1>1, <2>1
      <3>2. QED
        BY <3>1
    <2>2. CASE ~(k < p)
      <3>1. k - 1 \in 1 .. n - 1 /\ Old(k - 1) = k
        BY <1>1, <2>2
      <3>2. QED
        BY <3>1
    <2>3. QED
      BY <2>1, <2>2
  <1>10. \A m \in 1 .. n - 1 : f[m] = h[Old(m)]
    BY <1>6
  <1> HIDE DEF Old, u, f, h
  <1>11. ASSUME NEW k \in 1 .. n - 1
         PROVE  /\ f[k].id <= d.next_id
                /\ f[k].call \in live \ {s}
                /\ f[k].id = ug[f[k].call]
    <2>1. /\ f[k] = h[Old(k)] /\ Old(k) \in 1 .. n /\ Old(k) # p
      BY <1>7, <1>10
    <2>2. h[Old(k)].call \in live \ {s}
      BY <1>2, <1>3, <1>5, <2>1
    <2>3. ug[h[Old(k)].call] = g[h[Old(k)].call]
      BY <2>2
    <2>4. QED
      BY <1>2, <2>1, <2>2, <2>3
  <1>12. ASSUME NEW j \in 1 .. n - 1, NEW k \in 1 .. n - 1, j < k
         PROVE  f[j].id < f[k].id /\ f[j].call < f[k].call
    BY <1>2, <1>7, <1>8, <1>10, <1>12
  <1>13. ASSUME NEW t \in live \ {s}
         PROVE  \E k \in 1 .. n - 1 : f[k].call = t
    <2>1. PICK k \in 1 .. n : h[k].call = t
      BY <1>2
    <2>2. k # p
      BY <1>3, <2>1
    <2>3. PICK m \in 1 .. n - 1 : Old(m) = k
      BY <1>9, <2>2
    <2>4. QED
      BY <1>10, <2>1, <2>3
  <1>14. Subscribed(u, ug, live \ {s})
    <2>1. live \ {s} \subseteq Nat /\ DOMAIN ug = live \ {s}
      BY <1>1
    <2> HIDE DEF ug
    <2>2. QED
      BY <1>6, <1>11, <1>12, <1>13, <2>1 DEF Subscribed, f
  <1>15. QED
    BY <1>14 DEF u

-----------------------------------------------------------------------------
(* ParseFromArray.                                                         *)

\* A nonempty set of the first naturals has a greatest element, the least
\* of its upper bounds.
LEMMA MaxOfInterval ==
  ASSUME NEW n \in Nat, NEW S, S \subseteq 1 .. n, S # {}
  PROVE  Max(S) \in S
  <1> DEFINE bounds == {b \in Nat : \A x \in S : x <= b}
  <1>1. n \in bounds
    OBVIOUS
  <1>2. PICK m \in bounds : \A b \in bounds : ~(<<b, m>> \in OpToRel(<, Nat))
    BY <1>1, WFMin, NatLessThanWellFounded
  <1>3. \A b \in bounds : ~(b < m)
    BY <1>2 DEF OpToRel
  <1>4. m \in S
    <2>1. SUFFICES ASSUME m \notin S
                   PROVE  FALSE
      OBVIOUS
    <2>2. \A x \in S : x \in Nat \ {0} /\ x <= m - 1
      BY <2>1
    <2>3. m - 1 \in Nat
      <3>1. PICK x \in S : TRUE
        OBVIOUS
      <3>2. QED
        BY <2>2, <3>1
    <2>4. m - 1 \in bounds
      BY <2>2, <2>3
    <2>5. QED
      BY <1>3, <2>3, <2>4
  <1>5. \A y \in S : m >= y
    OBVIOUS
  <1>6. QED
    BY <1>4, <1>5 DEF Max

LEMMA ParsedEnvelope ==
  ASSUME NEW m \in Seq(Envelopes), m # <<>>
  PROVE  /\ Parsed(m) \in Envelopes
         /\ Parsed(m).status # "SUCCESS"
              => \E k \in 1 .. Len(m) : m[k].status = Parsed(m).status
  <1> DEFINE n == Len(m)
             merged == {k \in 1 .. n : \A j \in k .. n : m[j].action = m[n].action}
             Sent(name, default) == {k \in merged : m[k][name] # default}
             Field(name, default) ==
               IF Sent(name, default) = {} THEN default
               ELSE m[Max(Sent(name, default))][name]
  <1>1. /\ n \in Nat \ {0}
        /\ \A k \in 1 .. n : m[k] \in Envelopes
    BY EmptySeq, LenProperties
  <1>2. Parsed(m) = [action |-> m[n].action,
                     status |-> Field("status", "SUCCESS"),
                     id     |-> Field("id", NoId)]
    BY DEF Parsed
  <1>3. \/ Field("status", "SUCCESS") = "SUCCESS"
        \/ \E k \in 1 .. n : m[k].status = Field("status", "SUCCESS")
    <2> DEFINE S == Sent("status", "SUCCESS")
    <2>1. S \subseteq 1 .. n
      OBVIOUS
    <2>2. S # {} => Max(S) \in 1 .. n
      <3> HIDE DEF S
      <3>1. QED
        BY <1>1, <2>1, MaxOfInterval
    <2>3. S # {} => Field("status", "SUCCESS") = m[Max(S)].status
      OBVIOUS
    <2> HIDE DEF S
    <2>4. S = {} => Field("status", "SUCCESS") = "SUCCESS"
      BY DEF S
    <2> HIDE DEF Field
    <2>5. QED
      BY <2>2, <2>3, <2>4
  <1>4. \/ Field("id", NoId) = NoId
        \/ \E k \in 1 .. n : m[k].id = Field("id", NoId)
    <2> DEFINE S == Sent("id", NoId)
    <2>1. S \subseteq 1 .. n
      OBVIOUS
    <2>2. S # {} => Max(S) \in 1 .. n
      <3> HIDE DEF S
      <3>1. QED
        BY <1>1, <2>1, MaxOfInterval
    <2>3. S # {} => Field("id", NoId) = m[Max(S)].id
      OBVIOUS
    <2> HIDE DEF S
    <2>4. S = {} => Field("id", NoId) = NoId
      BY DEF S
    <2> HIDE DEF Field
    <2>5. QED
      BY <2>2, <2>3, <2>4
  <1> HIDE DEF Field, n
  <1>5. NoId \in NoId .. Cardinality(Clients) - 1
    BY CommandsAssumption, FS_CardinalityType DEF NoId
  <1>6. m[n] \in Envelopes
    BY <1>1 DEF n
  <1> DEFINE IDs == NoId .. Cardinality(Clients) - 1
  <1> HIDE DEF IDs
  <1>7. \A e \in Envelopes :
          /\ e.action \in {"add", "statistics", "list"}
          /\ e.status \in {"SUCCESS", "DEVICE_FILE_DOES_NOT_EXIST",
                            "DEVICE_NOT_FOUND"}
          /\ e.id \in IDs
    BY DEF Envelopes, IDs
  <1>8. /\ Field("status", "SUCCESS")
               \in {"SUCCESS", "DEVICE_FILE_DOES_NOT_EXIST",
                    "DEVICE_NOT_FOUND"}
        /\ Field("id", NoId) \in IDs
    BY <1>1, <1>3, <1>4, <1>5, <1>7 DEF IDs, n
  <1>9. Parsed(m) \in Envelopes
    BY <1>2, <1>6, <1>7, <1>8 DEF Envelopes, IDs
  <1>10. Parsed(m).status = Field("status", "SUCCESS")
    BY <1>2
  <1>11. QED
    BY <1>3, <1>9, <1>10 DEF n

-----------------------------------------------------------------------------
(* What a client is told.                                                  *)

LEMMA AppendElements ==
  ASSUME NEW S, NEW s \in Seq(S), NEW m \in S
  PROVE  /\ Append(s, m) \in Seq(S)
         /\ Len(s) \in Nat /\ Len(Append(s, m)) = Len(s) + 1
         /\ DOMAIN s = 1 .. Len(s) /\ DOMAIN Append(s, m) = 1 .. Len(s) + 1
         /\ \A k \in 1 .. Len(s) : Append(s, m)[k] = s[k]
         /\ Append(s, m)[Len(s) + 1] = m
         /\ \A k \in DOMAIN Append(s, m) :
              Append(s, m)[k] = m \/ \E j \in DOMAIN s : Append(s, m)[k] = s[j]
  <1>1. /\ Append(s, m) \in Seq(S) /\ Len(s) \in Nat
        /\ Len(Append(s, m)) = Len(s) + 1
        /\ \A k \in 1 .. Len(s) : Append(s, m)[k] = s[k]
        /\ Append(s, m)[Len(s) + 1] = m
    BY AppendProperties, LenProperties
  <1> DEFINE t == Append(s, m)
  <1> HIDE DEF t
  <1>2. DOMAIN s = 1 .. Len(s) /\ DOMAIN t = 1 .. Len(s) + 1
    BY <1>1, LenProperties DEF t
  <1>3. ASSUME NEW k \in 1 .. Len(s) + 1
        PROVE  t[k] = m \/ \E j \in DOMAIN s : t[k] = s[j]
    <2>1. CASE k \in 1 .. Len(s)
      BY <1>1, <1>2, <2>1 DEF t
    <2>2. CASE k = Len(s) + 1
      BY <1>1, <2>2 DEF t
    <2>3. QED
      BY <1>1, <2>1, <2>2
  <1>4. QED
    BY <1>1, <1>2, <1>3 DEF t

Telling(m) == m.action = "add" /\ m.status = "SUCCESS"

\* The tellings among the messages s are those of the devices announced
\* after the first n, once and in order.
ToldSince(s, n, devs) ==
  \E told \in [n + 1 .. Len(devs) -> {k \in DOMAIN s : Telling(s[k])}] :
    /\ \A i, j \in DOMAIN told : i < j => told[i] < told[j]
    /\ \A k \in {k \in DOMAIN s : Telling(s[k])} :
         \E i \in DOMAIN told : told[i] = k
    /\ \A i \in DOMAIN told : s[told[i]].id = devs[i]

\* A client that is accepted was told of nothing and has missed nothing.
LEMMA ToldNothing ==
  ASSUME NEW S, NEW devs \in Seq(S)
  PROVE  ToldSince(<<>>, Len(devs), devs)
  <1>1. Len(devs) \in Nat
    BY LenProperties
  <1>2. (Len(devs) + 1) .. Len(devs) = {}
    BY <1>1
  <1>3. {k \in DOMAIN <<>> : Telling(<<>>[k])} = {}
    OBVIOUS
  <1> DEFINE told == [i \in {} |-> 0]
  <1>4. told \in [{} -> {}] /\ DOMAIN told = {}
    OBVIOUS
  <1> HIDE DEF told
  <1>5. QED
    BY <1>2, <1>3, <1>4 DEF ToldSince

\* Another message changes nothing.
LEMMA ToldOther ==
  ASSUME NEW S, NEW s \in Seq(S), NEW m \in S, ~Telling(m),
         NEW n, NEW devs, ToldSince(s, n, devs)
  PROVE  ToldSince(Append(s, m), n, devs)
  <1> DEFINE t == Append(s, m)
             T(a) == {k \in DOMAIN a : Telling(a[k])}
  <1>1. /\ Len(s) \in Nat
        /\ DOMAIN s = 1 .. Len(s) /\ DOMAIN t = 1 .. Len(s) + 1
        /\ \A k \in 1 .. Len(s) : t[k] = s[k]
        /\ t[Len(s) + 1] = m
    BY AppendElements
  <1> HIDE DEF t
  <1>2. T(t) = T(s)
    BY <1>1
  <1>3. \A k \in T(s) : t[k] = s[k]
    BY <1>1
  <1> HIDE DEF T
  <1>4. PICK told \in [n + 1 .. Len(devs) -> T(s)] :
          /\ \A i, j \in DOMAIN told : i < j => told[i] < told[j]
          /\ \A k \in T(s) : \E i \in DOMAIN told : told[i] = k
          /\ \A i \in DOMAIN told : s[told[i]].id = devs[i]
    BY DEF ToldSince, T
  <1>5. \A i \in DOMAIN told : t[told[i]].id = devs[i]
    BY <1>3, <1>4
  <1>6. QED
    BY <1>2, <1>4, <1>5 DEF ToldSince, T, t

\* Another device, and the message that tells of it.
LEMMA ToldAnother ==
  ASSUME NEW S, NEW s \in Seq(S), NEW m \in S, Telling(m),
         NEW D, NEW devs \in Seq(D), NEW d \in D, m.id = d,
         NEW n \in Nat, n <= Len(devs), ToldSince(s, n, devs)
  PROVE  ToldSince(Append(s, m), n, Append(devs, d))
  <1> DEFINE t == Append(s, m)
             e == Append(devs, d)
             T(a) == {k \in DOMAIN a : Telling(a[k])}
             l == Len(s) + 1
             p == Len(devs) + 1
  <1>1. /\ Len(s) \in Nat
        /\ DOMAIN s = 1 .. Len(s) /\ DOMAIN t = 1 .. l
        /\ \A k \in 1 .. Len(s) : t[k] = s[k]
        /\ t[l] = m
    BY AppendElements
  <1>2. /\ Len(devs) \in Nat /\ Len(e) = p
        /\ DOMAIN devs = 1 .. Len(devs)
        /\ \A k \in 1 .. Len(devs) : e[k] = devs[k]
        /\ e[p] = d
    BY AppendElements
  <1> HIDE DEF t, e
  <1>3. T(t) = T(s) \cup {l} /\ l \notin T(s)
    BY <1>1
  <1>4. \A k \in T(s) : t[k] = s[k] /\ k \in Nat /\ k < l
    BY <1>1
  <1> HIDE DEF T
  <1>5. PICK told \in [n + 1 .. Len(devs) -> T(s)] :
          /\ \A i, j \in DOMAIN told : i < j => told[i] < told[j]
          /\ \A k \in T(s) : \E i \in DOMAIN told : told[i] = k
          /\ \A i \in DOMAIN told : s[told[i]].id = devs[i]
    BY DEF ToldSince, T
  <1> DEFINE now == [i \in n + 1 .. p |-> IF i = p THEN l ELSE told[i]]
  <1>6. /\ DOMAIN now = n + 1 .. p
        /\ p \in n + 1 .. p
        /\ now[p] = l
        /\ DOMAIN told = n + 1 .. Len(devs)
        /\ \A i \in n + 1 .. p : i = p \/ i \in n + 1 .. Len(devs)
        /\ \A i \in n + 1 .. Len(devs) :
             /\ i \in n + 1 .. p /\ i < p
             /\ now[i] = told[i] /\ told[i] \in T(s)
    <2>1. /\ p \in n + 1 .. p
          /\ \A i \in n + 1 .. p : i = p \/ i \in n + 1 .. Len(devs)
          /\ \A i \in n + 1 .. Len(devs) : i \in n + 1 .. p /\ i < p /\ i # p
      BY <1>2
    <2>2. /\ DOMAIN told = n + 1 .. Len(devs)
          /\ \A i \in n + 1 .. Len(devs) : told[i] \in T(s)
      BY <1>5
    <2> HIDE DEF p, l
    <2>3. QED
      BY <2>1, <2>2
  <1> HIDE DEF now, l, p
  <1>7. now \in [n + 1 .. p -> T(t)]
    <2>1. \A i \in n + 1 .. p : now[i] \in T(t)
      BY <1>3, <1>6
    <2>2. now = [i \in n + 1 .. p |-> now[i]]
      BY <1>6 DEF now
    <2>3. QED
      BY <2>1, <2>2
  <1>8. \A i, j \in DOMAIN now : i < j => now[i] < now[j]
    <2> SUFFICES ASSUME NEW i \in n + 1 .. p, NEW j \in n + 1 .. p, i < j
                 PROVE  now[i] < now[j]
      BY <1>6
    <2>1. i \in n + 1 .. Len(devs) /\ now[i] = told[i] /\ told[i] \in T(s)
      BY <1>2, <1>6 DEF p
    <2>2. CASE j = p
      BY <1>4, <1>6, <2>1, <2>2
    <2>3. CASE j \in n + 1 .. Len(devs)
      BY <1>5, <1>6, <2>1, <2>3
    <2>4. QED
      BY <1>6, <2>2, <2>3
  <1>9. ASSUME NEW k \in T(t)
        PROVE  \E i \in DOMAIN now : now[i] = k
    <2>1. CASE k = l
      BY <1>6, <2>1
    <2>2. CASE k \in T(s)
      <3>1. PICK i \in DOMAIN told : told[i] = k
        BY <1>5, <2>2
      <3>2. QED
        BY <1>6, <3>1
    <2>3. QED
      BY <1>3, <2>1, <2>2
  <1>10. ASSUME NEW i \in DOMAIN now
         PROVE  t[now[i]].id = e[i]
    <2>1. CASE i = p
      BY <1>1, <1>2, <1>6, <2>1
    <2>2. CASE i \in n + 1 .. Len(devs)
      <3>1. now[i] = told[i] /\ told[i] \in T(s) /\ i \in DOMAIN told
        BY <1>6, <2>2
      <3>2. t[told[i]] = s[told[i]]
        BY <1>4, <3>1
      <3>3. s[told[i]].id = devs[i]
        BY <1>5, <3>1
      <3>4. i \in 1 .. Len(devs)
        BY <1>2, <2>2
      <3>5. e[i] = devs[i]
        BY <1>2, <3>4
      <3>6. QED
        BY <3>1, <3>2, <3>3, <3>5
    <2>3. QED
      BY <1>6, <2>1, <2>2
  <1>11. QED
    <2>1. Len(e) = p
      BY <1>2
    <2> HIDE DEF e
    <2>2. QED
      BY <1>7, <1>8, <1>9, <1>10, <2>1 DEF ToldSince, T, t, e

-----------------------------------------------------------------------------
(* The invariant.                                                          *)

Devices == [file : Files, by : Clients, requested_start : BOOLEAN]

ClientStates == {"idle", "waiting", "done", "interrupted", "failed"}

\* The types of all but the sessions and their subscriptions.
ClientsTyped ==
  /\ \A c \in Clients : command[c] \in Commands[c]
  /\ client \in [Clients -> ClientStates]
  /\ unread \subseteq Clients
  /\ answers \in [Clients -> Seq(Envelopes)]
  /\ printed \in [Clients -> Seq(Envelopes)]
  /\ \A c \in Clients : Len(printed[c]) <= 1
  /\ running \in BOOLEAN
  /\ devices \in Seq(Devices)
  /\ announced \in Seq(0 .. Cardinality(Clients) - 1)
  /\ joined \in [Clients -> NotYet .. Cardinality(Clients)]

\* The clients that were accepted.
Joined == {c \in Clients : joined[c] # NotYet}

Live == DOMAIN peer \cup {waiting_session}

\* A session is made for each client accepted and each accept that failed;
\* those that live, and only they, are subscribed.
SessionsLive ==
  /\ waiting_session \in 1 .. MaxSessions + Cardinality(Joined)
  /\ \A s \in DOMAIN peer :
       s \in 1 .. waiting_session - 1 /\ peer[s] \in Joined
  /\ IF running
     THEN Subscribed(dispatcher, guard, Live)
     ELSE peer = <<>> /\ dispatcher = NewDispatcher /\ guard = <<>>

Started == {d \in DOMAIN devices : devices[d].requested_start}

\* One announcement for each device that started.
AnnouncedOnce ==
  /\ Started \subseteq 1 .. Cardinality(Clients)
  /\ Len(announced) = Cardinality(Started)

\* Where client c stands with the daemon.
ClientJoined(c) ==
  /\ c \in Joined => client[c] # "idle" /\ joined[c] \in 0 .. Len(announced)
  /\ c \notin Joined => answers[c] = <<>>
  /\ running /\ c \in Joined /\ client[c] = "waiting" =>
       \E s \in DOMAIN peer : peer[s] = c

Told(c) ==
  c \in Joined /\ client[c] = "waiting"
    => ToldSince(answers[c], joined[c], announced)

NoDeviceBy(c) == \A d \in DOMAIN devices : devices[d].by # c

\* The file client c asked for did not open.
Refused(c) ==
  /\ command[c].action = "add" /\ c \notin unread /\ client[c] # "idle"
  /\ NoDeviceBy(c)

\* The messages m, if they hold a refusal, are for a client refused.
OnlyIfRefused(c, m) ==
  \A k \in DOMAIN m :
    m[k].status = "DEVICE_FILE_DOES_NOT_EXIST" => Refused(c)

ClientRefused(c) ==
  /\ c \in unread => client[c] # "idle"
  /\ c \in unread \/ client[c] = "idle" => NoDeviceBy(c)
  /\ OnlyIfRefused(c, answers[c])
  /\ OnlyIfRefused(c, printed[c])

CInv ==
  /\ ClientsTyped
  /\ SessionsLive
  /\ AnnouncedOnce
  /\ \A c \in Clients : ClientJoined(c) /\ Told(c) /\ ClientRefused(c)

LEMMA ClientsFinite ==
  /\ IsFiniteSet(Clients) /\ Cardinality(Clients) \in Nat
  /\ MaxSessions \in Nat \ {0}
  /\ NoId = -1 /\ NotYet = -1
  BY CommandsAssumption, FS_CardinalityType DEF NoId, NotYet

\* What the number of clients bounds.
LEMMA JoinedFacts ==
  ASSUME ClientsTyped, AnnouncedOnce
  PROVE  /\ Joined \subseteq Clients /\ IsFiniteSet(Joined)
         /\ Cardinality(Joined) \in 0 .. Cardinality(Clients)
         /\ \A c \in Clients : joined[c] \in Int
         /\ Len(announced) \in 0 .. Cardinality(Clients)
         /\ IsFiniteSet(Started)
  <1>1. /\ Joined \subseteq Clients /\ IsFiniteSet(Joined)
        /\ Cardinality(Joined) \in 0 .. Cardinality(Clients)
    <2>1. Joined \in SUBSET Clients
      BY DEF Joined
    <2>2. /\ IsFiniteSet(Joined)
          /\ Cardinality(Joined) <= Cardinality(Clients)
      BY <2>1, ClientsFinite, FS_Subset
    <2>3. QED
      BY <2>1, <2>2, ClientsFinite, FS_CardinalityType
  <1>2. \A c \in Clients : joined[c] \in Int
    BY ClientsFinite DEF ClientsTyped
  <1>3. IsFiniteSet(Started) /\ Len(announced) \in 0 .. Cardinality(Clients)
    <2>1. /\ IsFiniteSet(1 .. Cardinality(Clients))
          /\ Cardinality(1 .. Cardinality(Clients)) = Cardinality(Clients)
      BY ClientsFinite, FS_Interval
    <2>2. Started \in SUBSET (1 .. Cardinality(Clients))
      BY DEF AnnouncedOnce
    <2>3. /\ IsFiniteSet(Started)
          /\ Cardinality(Started) <= Cardinality(Clients)
      BY <2>1, <2>2, FS_Subset
    <2>4. QED
      BY <2>3, ClientsFinite, FS_CardinalityType DEF AnnouncedOnce
  <1>4. QED
    BY <1>1, <1>2, <1>3

\* An envelope written to one client.
LEMMA RespondTypes ==
  ASSUME ClientsTyped, NEW c \in Clients, NEW m \in Envelopes, Respond(c, m)
  PROVE  ClientsTyped'
  <1>1. answers' \in [Clients -> Seq(Envelopes)]
    <2>1. Append(answers[c], m) \in Seq(Envelopes)
      BY AppendProperties DEF ClientsTyped
    <2>2. QED
      BY <2>1 DEF ClientsTyped, Respond
  <1>2. /\ unread' \subseteq Clients
        /\ UNCHANGED <<command, client, printed, running, devices, announced,
                       joined>>
    BY DEF ClientsTyped, Respond, daemonVars
  <1>3. QED
    BY <1>1, <1>2 DEF ClientsTyped

\* Those that the daemon writes.
LEMMA Responses ==
  /\ \A st \in {"SUCCESS", "DEVICE_FILE_DOES_NOT_EXIST", "DEVICE_NOT_FOUND"},
        ac \in {"add", "statistics", "list"} :
       [action |-> ac, status |-> st, id |-> NoId] \in Envelopes
  /\ \A d \in 1 .. Cardinality(Clients) :
       [action |-> "add", status |-> "SUCCESS", id |-> d - 1] \in Envelopes
  <1>1. NoId \in NoId .. Cardinality(Clients) - 1
    BY ClientsFinite
  <1>2. \A d \in 1 .. Cardinality(Clients) :
          d - 1 \in NoId .. Cardinality(Clients) - 1
    BY ClientsFinite
  <1>3. QED
    BY <1>1, <1>2 DEF Envelopes

LEMMA PublishTypes ==
  ASSUME ClientsTyped, NEW m \in Envelopes, Publish(m)
  PROVE  answers' \in [Clients -> Seq(Envelopes)]
  <1>1. \A c \in Clients : /\ answers[c] \in Seq(Envelopes)
                           /\ Append(answers[c], m) \in Seq(Envelopes)
    BY AppendProperties DEF ClientsTyped
  <1>2. QED
    BY <1>1 DEF Publish

LEMMA ClientsTypedStep ==
  ASSUME ClientsTyped, AnnouncedOnce, [Next]_vars
  PROVE  ClientsTyped'
  <1>1. ASSUME NEW c \in Clients, SendMessage(c)
        PROVE  ClientsTyped'
    BY <1>1 DEF SendMessage, ClientsTyped, ClientStates, daemonVars
  <1>2. ASSUME NEW c \in Clients, ReceiveMessage(c)
        PROVE  ClientsTyped'
    <2>1. PICK n \in 1 .. Len(answers[c]) :
            printed' = [printed EXCEPT ![c] = <<Parsed(SubSeq(answers[c], 1, n))>>]
      BY <1>2 DEF ReceiveMessage
    <2>2. answers[c] \in Seq(Envelopes) /\ Len(answers[c]) \in Nat
      BY LenProperties DEF ClientsTyped
    <2>3. /\ SubSeq(answers[c], 1, n) \in Seq(Envelopes)
          /\ Len(SubSeq(answers[c], 1, n)) = n
      BY <2>2, SubSeqProperties
    <2>4. SubSeq(answers[c], 1, n) # <<>>
      BY <2>2, <2>3
    <2>5. Parsed(SubSeq(answers[c], 1, n)) \in Envelopes
      BY <2>3, <2>4, ParsedEnvelope
    <2> DEFINE p == Parsed(SubSeq(answers[c], 1, n))
    <2> HIDE DEF p
    <2>6. <<p>> \in Seq(Envelopes) /\ Len(<<p>>) = 1
      BY <2>5 DEF p
    <2>7. printed' = [printed EXCEPT ![c] = <<p>>]
      BY <2>1 DEF p
    <2>8. /\ printed' \in [Clients -> Seq(Envelopes)]
          /\ \A d \in Clients : Len(printed'[d]) <= 1
      BY <2>6, <2>7 DEF ClientsTyped
    <2>9. /\ client' \in [Clients -> ClientStates]
          /\ answers' \in [Clients -> Seq(Envelopes)]
          /\ UNCHANGED <<command, unread, running, devices, announced, joined>>
      BY <1>2 DEF ReceiveMessage, ClientsTyped, ClientStates, daemonVars
    <2>10. QED
      BY <2>8, <2>9 DEF ClientsTyped
  <1>3. ASSUME NEW c \in Clients, Fail(c) \/ Interrupt(c)
        PROVE  ClientsTyped'
    <2>1. /\ client' \in [Clients -> ClientStates]
          /\ answers' \in [Clients -> Seq(Envelopes)]
          /\ UNCHANGED <<command, unread, printed, running, devices, announced,
                         joined>>
      <3>1. CASE Fail(c)
        BY <3>1 DEF Fail, ClientsTyped, ClientStates, daemonVars
      <3>2. CASE Interrupt(c)
        BY <3>2, EmptySeq DEF Interrupt, ClientsTyped, ClientStates, daemonVars
      <3>3. QED
        BY <1>3, <3>1, <3>2
    <2>2. QED
      BY <2>1 DEF ClientsTyped
  <1>4. ASSUME NEW c \in Clients, Accept(c)
        PROVE  ClientsTyped'
    <2>1. joined' \in [Clients -> NotYet .. Cardinality(Clients)]
      BY <1>4, JoinedFacts, ClientsFinite DEF Accept, ClientsTyped
    <2>2. UNCHANGED <<command, client, unread, answers, printed, running,
                      devices, announced>>
      BY <1>4 DEF Accept, clientVars
    <2>3. QED
      BY <2>1, <2>2 DEF ClientsTyped
  <1>5. CASE AcceptFails
    BY <1>5 DEF AcceptFails, ClientsTyped, clientVars
  <1>6. ASSUME NEW s \in Sessions, NEW c \in Clients, OpenFails(s, c)
        PROVE  ClientsTyped'
    BY <1>6, Responses, RespondTypes DEF OpenFails
  <1>7. ASSUME NEW s \in Sessions, NEW c \in Clients, OpenThrows(s, c)
        PROVE  ClientsTyped'
    BY <1>7 DEF OpenThrows, ClientsTyped
  <1>8. ASSUME NEW s \in Sessions, NEW c \in Clients, AddUartDevice(s, c)
        PROVE  ClientsTyped'
    <2> DEFINE d == [file |-> command[c].file, by |-> c,
                     requested_start |-> FALSE]
    <2>1. d \in Devices
      BY <1>8 DEF AddUartDevice, Devices
    <2>2. devices' = Append(devices, d)
      BY <1>8 DEF AddUartDevice
    <2> HIDE DEF d
    <2>3. devices' \in Seq(Devices)
      BY <2>1, <2>2, AppendProperties DEF ClientsTyped
    <2>4. /\ unread' \subseteq Clients
          /\ UNCHANGED <<command, client, answers, printed, running, announced,
                         joined>>
      BY <1>8 DEF AddUartDevice, ClientsTyped
    <2>5. QED
      BY <2>3, <2>4 DEF ClientsTyped
  <1>9. ASSUME NEW s \in Sessions, NEW c \in Clients, GetStatistics(s, c)
        PROVE  ClientsTyped'
    <2>1. PICK st \in {"SUCCESS", "DEVICE_NOT_FOUND"} :
            Respond(c, [action |-> "statistics", status |-> st, id |-> NoId])
      BY <1>9 DEF GetStatistics
    <2>2. QED
      BY <2>1, Responses, RespondTypes
  <1>10. ASSUME NEW s \in Sessions, NEW c \in Clients, GetListOfDevices(s, c)
         PROVE  ClientsTyped'
    BY <1>10, Responses, RespondTypes DEF GetListOfDevices
  <1>11. ASSUME NEW s \in Sessions, EndSession(s)
         PROVE  ClientsTyped'
    BY <1>11 DEF EndSession, ClientsTyped, clientVars
  <1>12. ASSUME NEW d \in 1 .. Cardinality(Clients), StartDevice(d)
         PROVE  ClientsTyped'
    <2>1. devices' = [devices EXCEPT ![d].requested_start = TRUE]
      BY <1>12 DEF StartDevice
    <2>2. d \in 1 .. Len(devices) /\ devices[d] \in Devices
      BY <1>12, LenProperties DEF StartDevice, ClientsTyped
    <2>3. [devices[d] EXCEPT !.requested_start = TRUE] \in Devices
      BY <2>2 DEF Devices
    <2>4. devices' \in Seq(Devices)
      BY <2>1, <2>2, <2>3, ExceptSeq DEF ClientsTyped
    <2>5. announced' \in Seq(0 .. Cardinality(Clients) - 1)
      <3>1. d - 1 \in 0 .. Cardinality(Clients) - 1
        BY ClientsFinite
      <3>2. announced' = Append(announced, d - 1)
        BY <1>12 DEF StartDevice
      <3>3. QED
        BY <3>1, <3>2, AppendProperties DEF ClientsTyped
    <2>6. answers' \in [Clients -> Seq(Envelopes)]
      BY <1>12, Responses, PublishTypes DEF StartDevice
    <2>7. UNCHANGED <<command, client, unread, printed, running, joined>>
      BY <1>12 DEF StartDevice
    <2>8. QED
      BY <2>4, <2>5, <2>6, <2>7 DEF ClientsTyped
  <1>13. CASE UNCHANGED vars
    BY <1>13 DEF ClientsTyped, vars, clientVars, daemonVars
  <1>14. QED
    BY <1>1, <1>2, <1>3, <1>4, <1>5, <1>6, <1>7, <1>8, <1>9, <1>10, <1>11,
       <1>12, <1>13 DEF Next, ClientStep, HandleRead

-----------------------------------------------------------------------------
(* The sessions.                                                           *)

sessionVars == <<running, peer, waiting_session, dispatcher, guard, joined>>

LEMMA SessionActions ==
  ASSUME [Next]_vars
  PROVE  \/ UNCHANGED sessionVars
         \/ \E c \in Clients : Accept(c)
         \/ AcceptFails
         \/ \E s \in Sessions, c \in Clients : OpenThrows(s, c)
         \/ \E s \in Sessions : EndSession(s)
  <1>1. \A c \in Clients : ClientStep(c) => UNCHANGED sessionVars
    BY DEF ClientStep, SendMessage, ReceiveMessage, Fail, Interrupt,
           daemonVars, sessionVars
  <1>2. \A s \in Sessions, c \in Clients :
          HandleRead(s, c) => UNCHANGED sessionVars \/ OpenThrows(s, c)
    BY DEF HandleRead, OpenFails, AddUartDevice, GetStatistics,
           GetListOfDevices, Respond, daemonVars, sessionVars
  <1>3. \A d : StartDevice(d) => UNCHANGED sessionVars
    BY DEF StartDevice, sessionVars
  <1>4. UNCHANGED vars => UNCHANGED sessionVars
    BY DEF vars, daemonVars, sessionVars
  <1>5. QED
    BY <1>1, <1>2, <1>3, <1>4 DEF Next

\* What the invariant says of the sessions while the daemon runs.
LEMMA SessionFacts ==
  ASSUME SessionsLive, running
  PROVE  /\ Subscribed(dispatcher, guard, Live)
         /\ waiting_session \in Nat /\ waiting_session \in Live
         /\ waiting_session \notin DOMAIN peer
         /\ DOMAIN guard = Live /\ Live \subseteq Nat
         /\ \A s \in Live : s <= waiting_session
         /\ 0 \notin Live /\ waiting_session + 1 \notin Live
         /\ dispatcher \in Dispatchers
  <1>1. /\ waiting_session \in Nat \ {0}
        /\ \A s \in DOMAIN peer : s \in 1 .. waiting_session - 1
    <2>1. waiting_session \in 1 .. MaxSessions + Cardinality(Joined)
      BY DEF SessionsLive
    <2>2. waiting_session \in Nat \ {0}
      BY <2>1
    <2>3. QED
      BY <2>2 DEF SessionsLive
  <1>2. Subscribed(dispatcher, guard, Live)
    BY DEF SessionsLive
  <1>3. DOMAIN guard = Live /\ dispatcher \in Dispatchers
    BY <1>2 DEF Subscribed
  <1>4. \A s \in Live : s \in Nat /\ s <= waiting_session /\ s # 0
    BY <1>1 DEF Live
  <1>5. waiting_session \notin DOMAIN peer /\ waiting_session \in Live
    BY <1>1 DEF Live
  <1>6. QED
    BY <1>1, <1>2, <1>3, <1>4, <1>5

\* A new session next to those that live.
LEMMA CreateKeeps ==
  ASSUME SessionsLive, running, Create(0)
  PROVE  /\ waiting_session' = waiting_session + 1
         /\ Subscribed(dispatcher', guard', Live \cup {waiting_session + 1})
  <1> DEFINE s == waiting_session + 1
             e == Subscribe(dispatcher, s)
             g == [t \in Live \cup {s} |-> IF t = s THEN e.next_id ELSE guard[t]]
  <1>1. Subscribed(e, g, Live \cup {s})
    <2>1. s \in Nat /\ \A t \in Live : t < s
      BY SessionFacts
    <2>2. QED
      BY <2>1, SessionFacts, SubscribeKeeps
  <1>2. waiting_session' = s /\ dispatcher' = e
    BY DEF Create
  <1>3. guard' = g
    <2>1. guard' = [t \in (DOMAIN guard \cup {s}) \ {0} |->
                      IF t = s THEN e.next_id ELSE guard[t]]
      BY DEF Create
    <2>2. (DOMAIN guard \cup {s}) \ {0} = Live \cup {s}
      BY SessionFacts
    <2>3. QED
      BY <2>1, <2>2
  <1>4. QED
    BY <1>1, <1>2, <1>3

\* A new session in the place of the one that waited.
LEMMA CreateReplaces ==
  ASSUME SessionsLive, running, Create(waiting_session)
  PROVE  /\ waiting_session' = waiting_session + 1
         /\ Subscribed(dispatcher', guard',
                       DOMAIN peer \cup {waiting_session + 1})
  <1> DEFINE w == waiting_session
             s == waiting_session + 1
             e == Subscribe(dispatcher, s)
             g == [t \in Live \cup {s} |-> IF t = s THEN e.next_id ELSE guard[t]]
  <1>1. Subscribed(e, g, Live \cup {s})
    <2>1. s \in Nat /\ \A t \in Live : t < s
      BY SessionFacts
    <2>2. QED
      BY <2>1, SessionFacts, SubscribeKeeps
  <1>2. w \in Live /\ w # s /\ w # 0
    BY SessionFacts
  <1>3. /\ waiting_session' = s
        /\ dispatcher' = ResetGuard(e, guard[w])
        /\ guard' = [t \in (Live \cup {s}) \ {w} |->
                       IF t = s THEN e.next_id ELSE guard[t]]
    BY <1>2, SessionFacts DEF Create
  <1>4. g[w] = guard[w]
    BY <1>2
  <1>5. guard' = [t \in (Live \cup {s}) \ {w} |-> g[t]]
    BY <1>3
  <1>6. (Live \cup {s}) \ {w} = DOMAIN peer \cup {s}
    BY <1>2, SessionFacts DEF Live
  <1> HIDE DEF e, g, s, w
  <1>7. Subscribed(ResetGuard(e, g[w]), [t \in (Live \cup {s}) \ {w} |-> g[t]],
                   (Live \cup {s}) \ {w})
    BY <1>1, <1>2, UnsubscribeKeeps
  <1>8. Subscribed(dispatcher', guard', DOMAIN peer \cup {s})
    BY <1>3, <1>4, <1>5, <1>6, <1>7
  <1>9. QED
    BY <1>3, <1>8 DEF s

LEMMA SessionsLiveStep ==
  ASSUME ClientsTyped, AnnouncedOnce, SessionsLive, [Next]_vars
  PROVE  SessionsLive'
  <1>1. CASE UNCHANGED sessionVars
    <2>1. UNCHANGED <<Joined, Live>>
      BY <1>1 DEF sessionVars, Joined, Live
    <2>2. QED
      BY <1>1, <2>1 DEF SessionsLive, sessionVars
  <1>2. ASSUME NEW c \in Clients, Accept(c)
        PROVE  SessionsLive'
    <2>1. /\ running /\ running' = running
          /\ joined[c] = NotYet /\ joined' = [joined EXCEPT ![c] = Len(announced)]
          /\ Create(0)
          /\ peer' = [s \in DOMAIN peer \cup {waiting_session} |->
                        IF s = waiting_session THEN c ELSE peer[s]]
      BY <1>2 DEF Accept
    <2>2. Joined' = Joined \cup {c} /\ c \notin Joined
      <3>1. joined'[c] # NotYet
        BY <2>1, JoinedFacts, ClientsFinite DEF ClientsTyped
      <3>2. \A e \in Clients : e # c => joined'[e] = joined[e]
        BY <2>1 DEF ClientsTyped
      <3>3. QED
        BY <2>1, <3>1, <3>2 DEF Joined
    <2>3. /\ Cardinality(Joined') = Cardinality(Joined) + 1
          /\ Cardinality(Joined) \in Nat
      <3>1. IsFiniteSet(Joined) /\ Cardinality(Joined) \in Nat
        BY JoinedFacts, FS_CardinalityType
      <3>2. Cardinality(Joined \cup {c}) = Cardinality(Joined) + 1
        BY <2>2, <3>1, FS_AddElement
      <3>3. QED
        BY <2>2, <3>1, <3>2
    <2>4. waiting_session' = waiting_session + 1
      BY <2>1, CreateKeeps
    <2>5. waiting_session' \in 1 .. MaxSessions + Cardinality(Joined')
      <3>1. waiting_session \in 1 .. MaxSessions + Cardinality(Joined)
        BY DEF SessionsLive
      <3>2. QED
        BY <2>3, <2>4, <3>1, ClientsFinite
    <2>6. Live' = Live \cup {waiting_session + 1}
      BY <2>1, <2>4 DEF Live
    <2>7. Subscribed(dispatcher', guard', Live')
      BY <2>1, <2>6, CreateKeeps
    <2>8. ASSUME NEW s \in DOMAIN peer'
          PROVE  s \in 1 .. waiting_session' - 1 /\ peer'[s] \in Joined'
      <3>1. s \in Live
        BY <2>1 DEF Live
      <3>2. s \in 1 .. waiting_session' - 1
        BY <2>1, <2>4, <3>1, SessionFacts
      <3>3. peer'[s] \in Joined'
        BY <2>1, <2>2 DEF SessionsLive
      <3>4. QED
        BY <3>2, <3>3
    <2>9. QED
      BY <2>1, <2>5, <2>7, <2>8 DEF SessionsLive
  <1>3. CASE AcceptFails
    <2>1. /\ running /\ Create(waiting_session)
          /\ waiting_session < MaxSessions
          /\ UNCHANGED <<running, peer, joined>>
      BY <1>3 DEF AcceptFails
    <2>2. UNCHANGED Joined /\ waiting_session' = waiting_session + 1
      BY <2>1, CreateReplaces DEF Joined
    <2>3. Live' = DOMAIN peer \cup {waiting_session + 1}
      BY <2>1, <2>2 DEF Live
    <2>4. waiting_session' \in 1 .. MaxSessions + Cardinality(Joined')
      BY <2>1, <2>2, JoinedFacts, ClientsFinite DEF SessionsLive
    <2>5. \A s \in DOMAIN peer' :
            s \in 1 .. waiting_session' - 1 /\ peer'[s] \in Joined'
      BY <2>1, <2>2, SessionFacts DEF SessionsLive
    <2>6. Subscribed(dispatcher', guard', Live')
      BY <2>1, <2>3, CreateReplaces
    <2>7. QED
      BY <2>1, <2>4, <2>5, <2>6 DEF SessionsLive
  <1>4. ASSUME NEW s \in Sessions, NEW c \in Clients, OpenThrows(s, c)
        PROVE  SessionsLive'
    <2>1. /\ ~running' /\ peer' = <<>> /\ dispatcher' = NewDispatcher
          /\ guard' = <<>>
          /\ UNCHANGED <<waiting_session, Joined>>
      BY <1>4 DEF OpenThrows, Joined
    <2>2. DOMAIN peer' = {}
      BY <2>1
    <2>3. QED
      BY <2>1, <2>2 DEF SessionsLive
  <1>5. ASSUME NEW s \in Sessions, EndSession(s)
        PROVE  SessionsLive'
    <2>1. /\ running /\ UNCHANGED <<running, waiting_session, Joined>>
          /\ s \in DOMAIN peer
          /\ peer' = [t \in DOMAIN peer \ {s} |-> peer[t]]
          /\ Destroy(s)
      BY <1>5 DEF EndSession, Joined
    <2>2. s \in Live /\ Live' = Live \ {s}
      BY <2>1, SessionFacts DEF Live
    <2>3. Subscribed(dispatcher', guard', Live')
      <3>1. /\ dispatcher' = ResetGuard(dispatcher, guard[s])
            /\ guard' = [t \in Live \ {s} |-> guard[t]]
        BY <2>1, SessionFacts DEF Destroy
      <3>2. QED
        BY <2>1, <2>2, <3>1, SessionFacts, UnsubscribeKeeps
    <2>4. \A t \in DOMAIN peer' : t \in DOMAIN peer /\ peer'[t] = peer[t]
      BY <2>1
    <2>5. QED
      BY <2>1, <2>3, <2>4 DEF SessionsLive
  <1>6. QED
    BY <1>1, <1>2, <1>3, <1>4, <1>5, SessionActions

-----------------------------------------------------------------------------
(* The devices.                                                            *)

\* Devices that start, and the one step that does.
LEMMA AnnouncedOnceStep ==
  ASSUME ClientsTyped, AnnouncedOnce, [Next]_vars
  PROVE  AnnouncedOnce'
  <1>1. CASE UNCHANGED <<devices, announced>>
    BY <1>1 DEF AnnouncedOnce, Started
  <1>2. ASSUME NEW s \in Sessions, NEW c \in Clients, AddUartDevice(s, c)
        PROVE  AnnouncedOnce'
    <2> DEFINE d == [file |-> command[c].file, by |-> c,
                     requested_start |-> FALSE]
    <2>1. d \in Devices /\ ~d.requested_start
      BY <1>2 DEF AddUartDevice, Devices
    <2>2. devices' = Append(devices, d) /\ announced' = announced
      BY <1>2 DEF AddUartDevice
    <2> HIDE DEF d
    <2>3. /\ DOMAIN devices = 1 .. Len(devices) /\ Len(devices) \in Nat
          /\ DOMAIN devices' = 1 .. Len(devices) + 1
          /\ \A k \in 1 .. Len(devices) : devices'[k] = devices[k]
          /\ devices'[Len(devices) + 1] = d
      BY <2>1, <2>2, AppendElements DEF ClientsTyped
    <2>4. Started' = Started
      <3>1. \A k \in 1 .. Len(devices) + 1 :
              k \in 1 .. Len(devices) \/ k = Len(devices) + 1
        BY <2>3
      <3>2. \A k \in 1 .. Len(devices) : k \in 1 .. Len(devices) + 1
        BY <2>3
      <3>3. QED
        BY <2>1, <2>3, <3>1, <3>2 DEF Started
    <2>5. QED
      BY <2>2, <2>4 DEF AnnouncedOnce
  <1>3. ASSUME NEW d \in 1 .. Cardinality(Clients), StartDevice(d)
        PROVE  AnnouncedOnce'
    <2>1. /\ d \in DOMAIN devices /\ ~devices[d].requested_start
          /\ devices' = [devices EXCEPT ![d].requested_start = TRUE]
          /\ announced' = Append(announced, d - 1)
      BY <1>3 DEF StartDevice
    <2>2. Started' = Started \cup {d} /\ d \notin Started
      <3>1. devices[d] \in Devices
        BY <2>1, LenProperties DEF ClientsTyped
      <3>2. devices'[d].requested_start
        BY <2>1, <3>1 DEF Devices
      <3>3. /\ DOMAIN devices' = DOMAIN devices
            /\ \A k \in DOMAIN devices : k # d => devices'[k] = devices[k]
        BY <2>1
      <3>4. QED
        BY <2>1, <3>2, <3>3 DEF Started
    <2>3. Cardinality(Started') = Cardinality(Started) + 1
      BY <2>2, JoinedFacts, FS_AddElement
    <2>4. Len(announced') = Len(announced) + 1
      <3>1. d - 1 \in 0 .. Cardinality(Clients) - 1
        BY ClientsFinite
      <3>2. QED
        BY <2>1, <3>1, AppendProperties DEF ClientsTyped
    <2>5. QED
      BY <2>2, <2>3, <2>4 DEF AnnouncedOnce
  <1>4. \A c \in Clients :
          ClientStep(c) \/ Accept(c) => UNCHANGED <<devices, announced>>
    BY DEF ClientStep, SendMessage, ReceiveMessage, Fail, Interrupt, Accept,
           daemonVars
  <1>5. \A s \in Sessions, c \in Clients :
          HandleRead(s, c)
            => UNCHANGED <<devices, announced>> \/ AddUartDevice(s, c)
    BY DEF HandleRead, OpenFails, OpenThrows, GetStatistics, GetListOfDevices,
           Respond, daemonVars
  <1>6. AcceptFails \/ UNCHANGED vars \/ (\E s \in Sessions : EndSession(s))
          => UNCHANGED <<devices, announced>>
    BY DEF AcceptFails, EndSession, vars, daemonVars
  <1>7. QED
    BY <1>1, <1>2, <1>3, <1>4, <1>5, <1>6 DEF Next

\* A device keeps the client that added it; a new one is the client's
\* whose request is read.
LEMMA DevicesAdded ==
  ASSUME ClientsTyped, [Next]_vars, NEW e \in Clients, NoDeviceBy(e)
  PROVE  \/ NoDeviceBy(e)'
         \/ /\ \E s \in Sessions : AddUartDevice(s, e)
            /\ e \in unread /\ e \notin unread'
  <1>1. CASE devices' = devices
    BY <1>1 DEF NoDeviceBy
  <1>2. ASSUME NEW s \in Sessions, NEW c \in Clients, AddUartDevice(s, c),
               c # e
        PROVE  NoDeviceBy(e)'
    <2> DEFINE d == [file |-> command[c].file, by |-> c,
                     requested_start |-> FALSE]
    <2>1. d \in Devices /\ d.by = c
      BY <1>2 DEF AddUartDevice, Devices
    <2>2. devices' = Append(devices, d)
      BY <1>2 DEF AddUartDevice
    <2> HIDE DEF d
    <2>3. \A k \in DOMAIN devices' :
            devices'[k] = d \/ \E j \in DOMAIN devices : devices'[k] = devices[j]
      BY <2>1, <2>2, AppendElements DEF ClientsTyped
    <2>4. QED
      BY <1>2, <2>1, <2>3 DEF NoDeviceBy
  <1>3. ASSUME NEW s \in Sessions, AddUartDevice(s, e)
        PROVE  e \in unread /\ e \notin unread'
    BY <1>3 DEF AddUartDevice, Reading
  <1>4. ASSUME NEW d \in 1 .. Cardinality(Clients), StartDevice(d)
        PROVE  NoDeviceBy(e)'
    <2>1. /\ d \in DOMAIN devices
          /\ devices' = [devices EXCEPT ![d].requested_start = TRUE]
      BY <1>4 DEF StartDevice
    <2>2. devices[d] \in Devices
      BY <2>1, LenProperties DEF ClientsTyped
    <2>3. devices'[d].by = devices[d].by
      BY <2>1, <2>2 DEF Devices
    <2>4. /\ DOMAIN devices' = DOMAIN devices
          /\ \A k \in DOMAIN devices : k # d => devices'[k] = devices[k]
      BY <2>1
    <2>5. QED
      BY <2>1, <2>3, <2>4 DEF NoDeviceBy
  <1>5. \A c \in Clients : ClientStep(c) \/ Accept(c) => devices' = devices
    BY DEF ClientStep, SendMessage, ReceiveMessage, Fail, Interrupt, Accept,
           daemonVars
  <1>6. \A s \in Sessions, c \in Clients :
          HandleRead(s, c) => devices' = devices \/ AddUartDevice(s, c)
    BY DEF HandleRead, OpenFails, OpenThrows, GetStatistics, GetListOfDevices,
           Respond, daemonVars
  <1>7. AcceptFails \/ UNCHANGED vars \/ (\E s \in Sessions : EndSession(s))
          => devices' = devices
    BY DEF AcceptFails, EndSession, vars, daemonVars
  <1>8. QED
    BY <1>1, <1>2, <1>3, <1>4, <1>5, <1>6, <1>7 DEF Next

-----------------------------------------------------------------------------
(* Each client.                                                            *)

\* What a step does to the messages that wait for client e: nothing, or
\* they are taken, or one is added.
LEMMA AnswersStep ==
  ASSUME ClientsTyped, SessionsLive, [Next]_vars, NEW e \in Clients
  PROVE  \/ /\ answers'[e] = answers[e]
            /\ \/ announced' = announced
               \/ running /\ ~(/\ client[e] = "waiting"
                               /\ \E s \in DOMAIN peer : peer[s] = e)
         \/ answers'[e] = <<>> /\ client'[e] \in {"done", "interrupted"}
         \/ \E m \in Envelopes :
              /\ client[e] = "waiting" /\ \E s \in DOMAIN peer : peer[s] = e
              /\ answers'[e] = Append(answers[e], m)
              /\ announced' = announced /\ ~Telling(m)
              /\ m.status = "DEVICE_FILE_DOES_NOT_EXIST"
                   => /\ e \in unread /\ e \notin unread'
                      /\ command[e].action = "add" /\ UNCHANGED devices
         \/ \E d \in 1 .. Cardinality(Clients) :
              /\ client[e] = "waiting" /\ \E s \in DOMAIN peer : peer[s] = e
              /\ answers'[e] = Append(answers[e],
                   [action |-> "add", status |-> "SUCCESS", id |-> d - 1])
              /\ announced' = Append(announced, d - 1)
  <1> DEFINE Same == answers'[e] = answers[e] /\ announced' = announced
             Taken == answers'[e] = <<>> /\ client'[e] \in {"done", "interrupted"}
             Here == client[e] = "waiting" /\ \E s \in DOMAIN peer : peer[s] = e
             Answered(m) ==
               /\ Here /\ answers'[e] = Append(answers[e], m)
               /\ announced' = announced /\ ~Telling(m)
               /\ m.status = "DEVICE_FILE_DOES_NOT_EXIST"
                    => /\ e \in unread /\ e \notin unread'
                       /\ command[e].action = "add" /\ UNCHANGED devices
  <1>1. ASSUME NEW c \in Clients, ClientStep(c)
        PROVE  Same \/ Taken
    <2>1. CASE SendMessage(c) \/ Fail(c)
      BY <2>1 DEF SendMessage, Fail
    <2>2. CASE ReceiveMessage(c)
      <3>1. /\ answers' = [answers EXCEPT ![c] = <<>>]
            /\ client' = [client EXCEPT ![c] = "done"]
            /\ announced' = announced
        BY <2>2 DEF ReceiveMessage
      <3>2. QED
        BY <3>1 DEF ClientsTyped
    <2>3. CASE Interrupt(c)
      <3>1. /\ answers' = [answers EXCEPT ![c] = <<>>]
            /\ client' = [client EXCEPT ![c] = "interrupted"]
            /\ announced' = announced
        BY <2>3 DEF Interrupt
      <3>2. QED
        BY <3>1 DEF ClientsTyped
    <2>4. QED
      BY <1>1, <2>1, <2>2, <2>3 DEF ClientStep
  <1>2. ASSUME NEW s, NEW c \in Clients, NEW ac, Reading(s, c, ac),
               NEW m \in Envelopes, ~Telling(m), Respond(c, m),
               m.status = "DEVICE_FILE_DOES_NOT_EXIST" => ac = "add"
        PROVE  Same \/ \E n \in Envelopes : Answered(n)
    <2>1. /\ c \in unread /\ c \notin unread' /\ s \in DOMAIN peer /\ peer[s] = c
          /\ command[c].action = ac
          /\ announced' = announced /\ devices' = devices
          /\ answers' = IF client[c] = "waiting"
                        THEN [answers EXCEPT ![c] = Append(answers[c], m)]
                        ELSE answers
      BY <1>2 DEF Reading, Respond, daemonVars
    <2>2. CASE c = e /\ client[c] = "waiting"
      <3>1. answers'[e] = Append(answers[e], m)
        BY <2>1, <2>2 DEF ClientsTyped
      <3>2. Answered(m)
        BY <1>2, <2>1, <2>2, <3>1
      <3>3. QED
        BY <3>2
    <2>3. CASE ~(c = e /\ client[c] = "waiting")
      BY <2>1, <2>3 DEF ClientsTyped
    <2>4. QED
      BY <2>2, <2>3
  <1>3. ASSUME NEW s \in Sessions, NEW c \in Clients, HandleRead(s, c)
        PROVE  Same \/ \E m \in Envelopes : Answered(m)
    <2>1. CASE OpenFails(s, c)
      <3> DEFINE m == [action |-> "add", status |-> "DEVICE_FILE_DOES_NOT_EXIST",
                       id |-> NoId]
      <3>1. /\ Reading(s, c, "add") /\ Respond(c, m)
            /\ m \in Envelopes /\ ~Telling(m)
        BY <2>1, Responses DEF OpenFails, Telling
      <3> HIDE DEF m, Same, Answered
      <3>2. QED
        BY <1>2, <3>1
    <2>2. CASE GetStatistics(s, c)
      <3>1. PICK st \in {"SUCCESS", "DEVICE_NOT_FOUND"} :
              Respond(c, [action |-> "statistics", status |-> st, id |-> NoId])
        BY <2>2 DEF GetStatistics
      <3> DEFINE m == [action |-> "statistics", status |-> st, id |-> NoId]
      <3>2. /\ Reading(s, c, "statistics") /\ Respond(c, m)
            /\ m \in Envelopes /\ ~Telling(m)
            /\ m.status # "DEVICE_FILE_DOES_NOT_EXIST"
        BY <2>2, <3>1, Responses DEF GetStatistics, Telling
      <3> HIDE DEF m, Same, Answered
      <3>3. QED
        BY <1>2, <3>2
    <2>3. CASE GetListOfDevices(s, c)
      <3> DEFINE m == [action |-> "list", status |-> "SUCCESS", id |-> NoId]
      <3>1. /\ Reading(s, c, "list") /\ Respond(c, m)
            /\ m \in Envelopes /\ ~Telling(m)
            /\ m.status # "DEVICE_FILE_DOES_NOT_EXIST"
        BY <2>3, Responses DEF GetListOfDevices, Telling
      <3> HIDE DEF m, Same, Answered
      <3>2. QED
        BY <1>2, <3>1
    <2>4. CASE OpenThrows(s, c) \/ AddUartDevice(s, c)
      BY <2>4 DEF OpenThrows, AddUartDevice
    <2>5. QED
      BY <1>3, <2>1, <2>2, <2>3, <2>4 DEF HandleRead
  <1>4. ASSUME NEW d \in 1 .. Cardinality(Clients), StartDevice(d)
        PROVE  \/ answers'[e] = answers[e] /\ running /\ ~Here
               \/ /\ Here
                  /\ answers'[e] = Append(answers[e],
                       [action |-> "add", status |-> "SUCCESS", id |-> d - 1])
                  /\ announced' = Append(announced, d - 1)
    <2> DEFINE m == [action |-> "add", status |-> "SUCCESS", id |-> d - 1]
    <2>1. running /\ Publish(m) /\ announced' = Append(announced, d - 1)
      BY <1>4 DEF StartDevice
    <2>2. ToSet(Called(dispatcher)) = Live
      <3>1. Subscribed(dispatcher, guard, Live) /\ dispatcher \in Dispatchers
        BY <2>1, SessionFacts
      <3>2. DOMAIN dispatcher.handlers = 1 .. Len(dispatcher.handlers)
        BY <3>1, DispatcherFacts
      <3>3. /\ \A k \in 1 .. Len(dispatcher.handlers) :
                 dispatcher.handlers[k].call \in Live
            /\ \A s \in Live : \E k \in 1 .. Len(dispatcher.handlers) :
                 dispatcher.handlers[k].call = s
        BY <3>1 DEF Subscribed
      <3>4. QED
        BY <3>2, <3>3 DEF ToSet, Called
    <2>3. (\E s \in ToSet(Called(dispatcher)) : s \in DOMAIN peer /\ peer[s] = e)
            <=> \E s \in DOMAIN peer : peer[s] = e
      BY <2>2 DEF Live
    <2> HIDE DEF m
    <2>4. answers'[e] = IF Here THEN Append(answers[e], m) ELSE answers[e]
      BY <2>1, <2>3 DEF Publish
    <2> HIDE DEF Here
    <2>5. QED
      BY <2>1, <2>4 DEF m
  <1>5. ASSUME \/ \E c \in Clients : Accept(c)
               \/ AcceptFails
               \/ \E s \in Sessions : EndSession(s)
               \/ UNCHANGED vars
        PROVE  Same
    BY <1>5 DEF Accept, AcceptFails, EndSession, vars, clientVars
  <1>6. QED
    BY <1>1, <1>3, <1>4, <1>5 DEF Next

\* What a step does with the rest of client e.
LEMMA ClientMoves ==
  ASSUME ClientsTyped, [Next]_vars, NEW e \in Clients
  PROVE  /\ command' = command
         /\ client'[e] = "idle" => client[e] = "idle"
         /\ \/ joined'[e] = joined[e]
            \/ Accept(e)
         /\ client'[e] = "waiting"
              => client[e] = "waiting" \/ (client[e] = "idle" /\ joined' = joined)
         /\ e \in unread'
              => e \in unread \/ (client[e] = "idle" /\ client'[e] # "idle")
         /\ printed'[e] = printed[e] \/ ReceiveMessage(e)
         /\ announced' = announced \/ \E d \in 1 .. Cardinality(Clients) :
                                        announced' = Append(announced, d - 1)
  <1> DEFINE Still == UNCHANGED <<command, client, joined, printed, announced>>
                        /\ unread' \subseteq unread
  <1>1. ASSUME NEW c \in Clients, SendMessage(c)
        PROVE  /\ UNCHANGED <<command, joined, printed, announced>>
               /\ client'[e] = client[e] \/ client[e] = "idle"
               /\ client'[e] # "idle" \/ client[e] = "idle"
               /\ e \in unread'
                    => e \in unread \/ (client[e] = "idle" /\ client'[e] # "idle")
    BY <1>1 DEF SendMessage, ClientsTyped
  <1>2. ASSUME NEW c \in Clients, ReceiveMessage(c)
        PROVE  /\ UNCHANGED <<command, joined, unread, announced>>
               /\ client'[e] = client[e] \/ client'[e] = "done"
               /\ printed'[e] = printed[e] \/ ReceiveMessage(e)
    BY <1>2 DEF ReceiveMessage, ClientsTyped
  <1>3. ASSUME NEW c \in Clients, Fail(c) \/ Interrupt(c)
        PROVE  /\ UNCHANGED <<command, joined, unread, printed, announced>>
               /\ client'[e] = client[e] \/ client'[e] \in {"failed", "interrupted"}
    <2>1. CASE Fail(c)
      BY <2>1 DEF Fail, ClientsTyped
    <2>2. CASE Interrupt(c)
      BY <2>2 DEF Interrupt, ClientsTyped
    <2>3. QED
      BY <1>3, <2>1, <2>2
  <1>4. ASSUME NEW c \in Clients, Accept(c)
        PROVE  /\ UNCHANGED <<command, client, unread, printed, announced>>
               /\ joined'[e] = joined[e] \/ Accept(e)
    BY <1>4 DEF Accept, ClientsTyped, clientVars
  <1>5. ASSUME NEW s \in Sessions, NEW c \in Clients, HandleRead(s, c)
        PROVE  Still
    BY <1>5 DEF HandleRead, OpenFails, OpenThrows, AddUartDevice,
                GetStatistics, GetListOfDevices, Respond
  <1>6. ASSUME NEW d \in 1 .. Cardinality(Clients), StartDevice(d)
        PROVE  /\ UNCHANGED <<command, client, joined, printed, unread>>
               /\ announced' = Append(announced, d - 1)
    BY <1>6 DEF StartDevice
  <1>7. ASSUME AcceptFails \/ UNCHANGED vars \/ \E s \in Sessions : EndSession(s)
        PROVE  Still
    BY <1>7 DEF AcceptFails, EndSession, vars, clientVars
  <1>8. QED
    BY <1>1, <1>2, <1>3, <1>4, <1>5, <1>6, <1>7 DEF Next, ClientStep

LEMMA AnnouncedGrows ==
  ASSUME ClientsTyped, [Next]_vars
  PROVE  Len(announced) \in Nat /\ Len(announced') >= Len(announced)
  <1>1. Len(announced) \in Nat
    BY LenProperties DEF ClientsTyped
  <1>2. ASSUME NEW d \in 1 .. Cardinality(Clients),
               announced' = Append(announced, d - 1)
        PROVE  Len(announced') = Len(announced) + 1
    <2>1. d - 1 \in 0 .. Cardinality(Clients) - 1
      BY ClientsFinite
    <2>2. QED
      BY <1>2, <2>1, AppendProperties DEF ClientsTyped
  <1>3. CASE Clients = {}
    <2>1. Cardinality(Clients) = 0
      BY <1>3, FS_EmptySet
    <2>2. \A d \in 1 .. Cardinality(Clients) : ~StartDevice(d)
      BY <2>1
    <2>3. announced' = announced
      BY <1>3, <2>2 DEF Next, AcceptFails, EndSession, vars
    <2>4. QED
      BY <1>1, <2>3
  <1>4. CASE Clients # {}
    <2>1. PICK e \in Clients : TRUE
      BY <1>4
    <2>2. announced' = announced \/ \E d \in 1 .. Cardinality(Clients) :
                                      announced' = Append(announced, d - 1)
      BY ClientMoves
    <2>3. QED
      BY <1>1, <1>2, <2>2
  <1>5. QED
    BY <1>3, <1>4

LEMMA ClientJoinedStep ==
  ASSUME ClientsTyped, SessionsLive, AnnouncedOnce, [Next]_vars,
         NEW e \in Clients, ClientJoined(e)
  PROVE  ClientJoined(e)'
  <1>1. \/ e \in Joined /\ joined'[e] = joined[e]
        \/ e \notin Joined /\ joined'[e] = joined[e]
        \/ Accept(e) /\ e \notin Joined
    BY ClientMoves DEF Accept, Joined
  <1>2. e \in Joined' => client'[e] # "idle" /\ joined'[e] \in 0 .. Len(announced')
    <2>1. CASE e \in Joined /\ joined'[e] = joined[e]
      <3>1. client[e] # "idle" /\ joined[e] \in 0 .. Len(announced)
        BY <2>1 DEF ClientJoined
      <3>2. client'[e] # "idle"
        BY <3>1, ClientMoves
      <3>3. joined[e] \in 0 .. Len(announced')
        <4>1. Len(announced') \in Nat
          BY ClientsTypedStep, LenProperties DEF ClientsTyped
        <4>2. QED
          BY <3>1, <4>1, AnnouncedGrows
      <3>4. QED
        BY <2>1, <3>2, <3>3
    <2>2. CASE Accept(e)
      <3>1. /\ client'[e] # "idle"
            /\ joined'[e] = Len(announced) /\ announced' = announced
        BY <2>2 DEF Accept, clientVars, ClientsTyped
      <3>2. Len(announced) \in Nat
        BY AnnouncedGrows
      <3>3. QED
        BY <3>1, <3>2
    <2>3. CASE e \notin Joined /\ joined'[e] = joined[e]
      BY <2>3 DEF Joined
    <2>4. QED
      BY <1>1, <2>1, <2>2, <2>3
  <1>3. e \notin Joined' => answers'[e] = <<>>
    <2>1. SUFFICES ASSUME e \notin Joined'
                   PROVE  answers'[e] = <<>>
      OBVIOUS
    <2>2. e \notin Joined
      <3>1. ~Accept(e)
        <4>1. Accept(e) => joined'[e] = Len(announced) /\ Len(announced) # NotYet
          BY JoinedFacts, ClientsFinite DEF Accept, ClientsTyped
        <4>2. QED
          BY <2>1, <4>1 DEF Joined
      <3>2. QED
        BY <1>1, <2>1, <3>1 DEF Joined
    <2>3. answers[e] = <<>> /\ ~ \E s \in DOMAIN peer : peer[s] = e
      BY <2>2 DEF ClientJoined, SessionsLive
    <2>4. QED
      BY <2>3, AnswersStep
  <1>4. running' /\ e \in Joined' /\ client'[e] = "waiting" =>
          \E s \in DOMAIN peer' : peer'[s] = e
    <2>1. SUFFICES ASSUME running', e \in Joined', client'[e] = "waiting"
                   PROVE  \E s \in DOMAIN peer' : peer'[s] = e
      OBVIOUS
    <2>2. CASE Accept(e)
      BY <2>2 DEF Accept
    <2>3. CASE e \in Joined /\ joined'[e] = joined[e]
      <3>1. client[e] = "waiting"
        BY <2>1, <2>3, ClientMoves DEF ClientJoined
      <3>2. CASE UNCHANGED sessionVars
        BY <2>1, <2>3, <3>1, <3>2 DEF ClientJoined, sessionVars
      <3>3. ASSUME NEW c \in Clients, Accept(c)
            PROVE  \E s \in DOMAIN peer' : peer'[s] = e
        <4>1. /\ running
              /\ peer' = [s \in DOMAIN peer \cup {waiting_session} |->
                            IF s = waiting_session THEN c ELSE peer[s]]
          BY <3>3 DEF Accept
        <4>2. PICK s \in DOMAIN peer : peer[s] = e
          BY <2>3, <3>1, <4>1 DEF ClientJoined
        <4>3. s # waiting_session
          BY <4>1, SessionFacts
        <4>4. QED
          BY <4>1, <4>2, <4>3
      <3>4. CASE AcceptFails
        BY <2>3, <3>1, <3>4 DEF AcceptFails, ClientJoined
      <3>5. ASSUME NEW t \in Sessions, EndSession(t)
            PROVE  \E s \in DOMAIN peer' : peer'[s] = e
        <4>1. /\ running /\ client[peer[t]] # "waiting"
              /\ peer' = [s \in DOMAIN peer \ {t} |-> peer[s]]
          BY <3>5 DEF EndSession
        <4>2. PICK s \in DOMAIN peer : peer[s] = e
          BY <2>3, <3>1, <4>1 DEF ClientJoined
        <4>3. s # t
          BY <3>1, <4>1, <4>2
        <4>4. QED
          BY <4>1, <4>2, <4>3
      <3>6. ASSUME NEW s \in Sessions, NEW c \in Clients, OpenThrows(s, c)
            PROVE  FALSE
        BY <2>1, <3>6 DEF OpenThrows
      <3>7. QED
        BY <3>2, <3>3, <3>4, <3>5, <3>6, SessionActions
    <2>4. CASE e \notin Joined /\ joined'[e] = joined[e]
      BY <2>1, <2>4 DEF Joined
    <2>5. QED
      BY <1>1, <2>2, <2>3, <2>4
  <1>5. QED
    BY <1>2, <1>3, <1>4 DEF ClientJoined

LEMMA ToldStep ==
  ASSUME ClientsTyped, SessionsLive, AnnouncedOnce, [Next]_vars,
         NEW e \in Clients, ClientJoined(e), Told(e)
  PROVE  Told(e)'
  <1>1. SUFFICES ASSUME e \in Joined', client'[e] = "waiting"
                 PROVE  ToldSince(answers'[e], joined'[e], announced')
    BY DEF Told
  <1>2. answers[e] \in Seq(Envelopes)
        /\ announced \in Seq(0 .. Cardinality(Clients) - 1)
    BY DEF ClientsTyped
  <1>3. CASE Accept(e)
    <2>1. /\ joined'[e] = Len(announced) /\ UNCHANGED <<answers, announced>>
          /\ e \notin Joined
      BY <1>3 DEF Accept, clientVars, ClientsTyped, Joined
    <2>2. answers[e] = <<>>
      BY <2>1 DEF ClientJoined
    <2>3. QED
      BY <1>2, <2>1, <2>2, ToldNothing
  <1>4. CASE joined'[e] = joined[e]
    <2>1. e \in Joined
      BY <1>1, <1>4 DEF Joined
    <2>2. client[e] = "waiting"
      BY <1>1, <2>1, ClientMoves DEF ClientJoined
    <2>3. /\ ToldSince(answers[e], joined[e], announced)
          /\ joined[e] \in 0 .. Len(announced)
          /\ running => \E s \in DOMAIN peer : peer[s] = e
      BY <2>1, <2>2 DEF Told, ClientJoined
    <2>4. CASE answers'[e] = answers[e] /\ announced' = announced
      BY <1>4, <2>3, <2>4
    <2>5. ASSUME NEW m \in Envelopes, ~Telling(m), announced' = announced,
                 answers'[e] = Append(answers[e], m)
          PROVE  ToldSince(answers'[e], joined'[e], announced')
      BY <1>2, <1>4, <2>3, <2>5, ToldOther
    <2>6. ASSUME NEW d \in 1 .. Cardinality(Clients),
                 announced' = Append(announced, d - 1),
                 answers'[e] = Append(answers[e],
                   [action |-> "add", status |-> "SUCCESS", id |-> d - 1])
          PROVE  ToldSince(answers'[e], joined'[e], announced')
      <3> DEFINE m == [action |-> "add", status |-> "SUCCESS", id |-> d - 1]
                 i == d - 1
                 n == joined[e]
      <3>1. m \in Envelopes /\ Telling(m) /\ m.id = i
        BY Responses DEF Telling
      <3>2. i \in 0 .. Cardinality(Clients) - 1
        BY ClientsFinite
      <3>3. n \in Nat /\ n <= Len(announced)
        <4>1. Len(announced) \in Nat
          BY AnnouncedGrows
        <4>2. QED
          BY <2>3, <4>1
      <3>4. ToldSince(answers[e], n, announced)
        BY <2>3
      <3>5. answers'[e] = Append(answers[e], m) /\ announced' = Append(announced, i)
        BY <2>6
      <3> HIDE DEF m, i, n
      <3>6. ToldSince(Append(answers[e], m), n, Append(announced, i))
        BY <1>2, <3>1, <3>2, <3>3, <3>4, ToldAnother
      <3>7. QED
        BY <1>4, <3>5, <3>6 DEF n
    <2>7. QED
      BY <1>1, <2>2, <2>3, <2>4, <2>5, <2>6, AnswersStep
  <1>5. QED
    BY <1>3, <1>4, ClientMoves

-----------------------------------------------------------------------------
(* The refusals.                                                           *)

LEMMA RefusedStays ==
  ASSUME ClientsTyped, [Next]_vars, NEW e \in Clients, Refused(e)
  PROVE  Refused(e)'
  <1>1. /\ command[e].action = "add" /\ e \notin unread /\ client[e] # "idle"
        /\ NoDeviceBy(e)
    BY DEF Refused
  <1>2. NoDeviceBy(e)'
    BY <1>1, DevicesAdded
  <1>3. e \notin unread' /\ client'[e] # "idle" /\ command' = command
    BY <1>1, ClientMoves
  <1>4. QED
    BY <1>1, <1>2, <1>3 DEF Refused

LEMMA ClientRefusedStep ==
  ASSUME ClientsTyped, SessionsLive, [Next]_vars,
         NEW e \in Clients, ClientRefused(e)
  PROVE  ClientRefused(e)'
  <1>1. e \in unread' => client'[e] # "idle"
    BY ClientMoves DEF ClientRefused
  <1>2. e \in unread' \/ client'[e] = "idle" => NoDeviceBy(e)'
    <2>1. SUFFICES ASSUME e \in unread' \/ client'[e] = "idle"
                   PROVE  NoDeviceBy(e)'
      OBVIOUS
    <2>2. NoDeviceBy(e)
      BY <2>1, ClientMoves DEF ClientRefused
    <2>3. ~(e \in unread /\ e \notin unread')
      BY <2>1, ClientMoves DEF ClientRefused
    <2>4. QED
      BY <2>2, <2>3, DevicesAdded
  <1>3. ASSUME NEW k \in DOMAIN answers'[e],
               answers'[e][k].status = "DEVICE_FILE_DOES_NOT_EXIST"
        PROVE  Refused(e)'
    <2>1. ASSUME NEW j \in DOMAIN answers[e],
                 answers[e][j].status = "DEVICE_FILE_DOES_NOT_EXIST"
          PROVE  Refused(e)'
      BY <2>1, RefusedStays DEF ClientRefused, OnlyIfRefused
    <2>2. answers[e] \in Seq(Envelopes)
      BY DEF ClientsTyped
    <2>3. CASE answers'[e] = answers[e]
      BY <1>3, <2>1, <2>3
    <2>4. CASE answers'[e] = <<>>
      BY <1>3, <2>4
    <2>5. ASSUME NEW m \in Envelopes, answers'[e] = Append(answers[e], m),
                 m.status = "DEVICE_FILE_DOES_NOT_EXIST"
                   => /\ e \in unread /\ e \notin unread'
                      /\ command[e].action = "add" /\ UNCHANGED devices
          PROVE  Refused(e)'
      <3>1. answers'[e][k] = m \/ \E j \in DOMAIN answers[e] :
                                    answers'[e][k] = answers[e][j]
        BY <1>3, <2>2, <2>5, AppendElements
      <3>2. CASE answers'[e][k] = m
        <4>1. /\ e \in unread /\ e \notin unread'
              /\ command[e].action = "add" /\ UNCHANGED devices
          BY <1>3, <2>5, <3>2
        <4>2. client[e] # "idle" /\ NoDeviceBy(e)
          BY <4>1 DEF ClientRefused
        <4>3. client'[e] # "idle" /\ command' = command /\ NoDeviceBy(e)'
          BY <4>1, <4>2, ClientMoves DEF NoDeviceBy
        <4>4. QED
          BY <4>1, <4>3 DEF Refused
      <3>3. QED
        BY <1>3, <2>1, <3>1, <3>2
    <2>6. ASSUME NEW d \in 1 .. Cardinality(Clients),
                 answers'[e] = Append(answers[e],
                   [action |-> "add", status |-> "SUCCESS", id |-> d - 1])
          PROVE  Refused(e)'
      <3> DEFINE m == [action |-> "add", status |-> "SUCCESS", id |-> d - 1]
      <3>1. m \in Envelopes /\ m.status # "DEVICE_FILE_DOES_NOT_EXIST"
        BY Responses
      <3>2. answers'[e] = Append(answers[e], m)
        BY <2>6
      <3> HIDE DEF m
      <3>3. QED
        BY <2>5, <3>1, <3>2
    <2>7. QED
      BY <2>3, <2>4, <2>5, <2>6, AnswersStep
  <1>4. ASSUME NEW k \in DOMAIN printed'[e],
               printed'[e][k].status = "DEVICE_FILE_DOES_NOT_EXIST"
        PROVE  Refused(e)'
    <2>1. CASE printed'[e] = printed[e]
      BY <1>4, <2>1, RefusedStays DEF ClientRefused, OnlyIfRefused
    <2>2. CASE ReceiveMessage(e)
      <3>1. PICK n \in 1 .. Len(answers[e]) :
              printed' = [printed EXCEPT
                            ![e] = <<Parsed(SubSeq(answers[e], 1, n))>>]
        BY <2>2 DEF ReceiveMessage
      <3> DEFINE s == SubSeq(answers[e], 1, n)
      <3>2. answers[e] \in Seq(Envelopes) /\ Len(answers[e]) \in Nat
        BY LenProperties DEF ClientsTyped
      <3>3. /\ s \in Seq(Envelopes) /\ Len(s) = n /\ n \in Nat \ {0}
            /\ \A i \in 1 .. n : s[i] = answers[e][i]
        BY <3>2, SubSeqProperties
      <3> HIDE DEF s
      <3>4. s # <<>>
        BY <3>3
      <3>5. Parsed(s).status = "DEVICE_FILE_DOES_NOT_EXIST"
        <4>1. printed'[e] = <<Parsed(s)>>
          BY <3>1 DEF s, ClientsTyped
        <4>2. k = 1
          BY <1>4, <4>1
        <4>3. QED
          BY <1>4, <4>1, <4>2
      <3>6. PICK i \in 1 .. n : s[i].status = "DEVICE_FILE_DOES_NOT_EXIST"
        BY <3>3, <3>4, <3>5, ParsedEnvelope
      <3>7. i \in DOMAIN answers[e]
        BY <3>2, <3>3, LenProperties
      <3>8. Refused(e)
        BY <3>3, <3>6, <3>7 DEF ClientRefused, OnlyIfRefused
      <3>9. QED
        BY <3>8, RefusedStays
    <2>3. QED
      BY <2>1, <2>2, ClientMoves
  <1>5. QED
    BY <1>1, <1>2, <1>3, <1>4 DEF ClientRefused, OnlyIfRefused

-----------------------------------------------------------------------------
LEMMA CInvInit == Init => CInv
  <1> SUFFICES ASSUME Init
               PROVE  CInv
    OBVIOUS
  <1>1. ClientsTyped
    <2>1. /\ \A c \in Clients : command[c] \in Commands[c]
          /\ client \in [Clients -> ClientStates]
          /\ unread \subseteq Clients
          /\ running \in BOOLEAN
      BY DEF Init, ClientStates
    <2>2. answers \in [Clients -> Seq(Envelopes)]
          /\ printed \in [Clients -> Seq(Envelopes)]
      BY EmptySeq DEF Init
    <2>3. \A c \in Clients : Len(printed[c]) <= 1
      BY DEF Init
    <2>4. /\ devices \in Seq(Devices)
          /\ announced \in Seq(0 .. Cardinality(Clients) - 1)
      BY EmptySeq DEF Init
    <2>5. joined \in [Clients -> NotYet .. Cardinality(Clients)]
      BY ClientsFinite DEF Init
    <2>6. QED
      BY <2>1, <2>2, <2>3, <2>4, <2>5 DEF ClientsTyped
  <1>2. Joined = {} /\ Cardinality(Joined) = 0
    BY FS_EmptySet DEF Init, Joined
  <1>3. SessionsLive
    <2>1. /\ running /\ waiting_session = 1 /\ DOMAIN peer = {}
          /\ Live = {1}
      BY DEF Init, Live
    <2>2. waiting_session \in 1 .. MaxSessions + Cardinality(Joined)
      BY <1>2, <2>1, ClientsFinite
    <2> DEFINE e == Subscribe(NewDispatcher, 1)
               none == [s \in {} |-> 0]
               g == [t \in {} \cup {1} |-> IF t = 1 THEN e.next_id ELSE none[t]]
    <2>3. Subscribed(NewDispatcher, none, {})
      <3>1. /\ NewDispatcher \in Dispatchers
            /\ Len(NewDispatcher.handlers) = 0
        BY EmptySeq DEF NewDispatcher, Dispatchers
      <3>2. 1 .. 0 = {}
        OBVIOUS
      <3>3. QED
        BY <3>1, <3>2 DEF Subscribed
    <2>4. Subscribed(e, g, {} \cup {1})
      BY <2>3, SubscribeKeeps
    <2>5. dispatcher = e /\ guard = <<e.next_id>>
      BY DEF Init
    <2> HIDE DEF e
    <2>6. <<e.next_id>> = g
      OBVIOUS
    <2> HIDE DEF g
    <2>7. Subscribed(dispatcher, guard, Live)
      BY <2>1, <2>4, <2>5, <2>6
    <2>8. QED
      BY <2>1, <2>2, <2>7 DEF SessionsLive
  <1>4. AnnouncedOnce
    <2>1. Started = {} /\ Len(announced) = 0
      BY DEF Init, Started
    <2>2. QED
      BY <2>1, FS_EmptySet DEF AnnouncedOnce
  <1>5. ASSUME NEW c \in Clients
        PROVE  ClientJoined(c) /\ Told(c) /\ ClientRefused(c)
    <2>1. /\ c \notin Joined /\ client[c] = "idle" /\ c \notin unread
          /\ answers[c] = <<>> /\ printed[c] = <<>> /\ devices = <<>>
      BY <1>2 DEF Init
    <2>2. NoDeviceBy(c)
      BY <2>1 DEF NoDeviceBy
    <2>3. QED
      BY <2>1, <2>2 DEF ClientJoined, Told, ClientRefused, OnlyIfRefused
  <1>6. QED
    BY <1>1, <1>3, <1>4, <1>5 DEF CInv

LEMMA CInvStep == CInv /\ [Next]_vars => CInv'
  <1> SUFFICES ASSUME CInv, [Next]_vars
               PROVE  CInv'
    OBVIOUS
  <1>1. ClientsTyped' /\ SessionsLive' /\ AnnouncedOnce'
    BY ClientsTypedStep, SessionsLiveStep, AnnouncedOnceStep DEF CInv
  <1>2. ASSUME NEW c \in Clients
        PROVE  ClientJoined(c)' /\ Told(c)' /\ ClientRefused(c)'
    BY ClientJoinedStep, ToldStep, ClientRefusedStep DEF CInv
  <1>3. QED
    BY <1>1, <1>2 DEF CInv

LEMMA ControlInvariance == Spec => []CInv
  BY CInvInit, CInvStep, PTL DEF Spec

\* The types that the invariant implies.
LEMMA SessionTypes ==
  ASSUME CInv
  PROVE  /\ DOMAIN peer \subseteq Sessions
         /\ \A s \in DOMAIN peer : peer[s] \in Clients
         /\ waiting_session \in Sessions
         /\ dispatcher.next_id \in Nat
         /\ dispatcher.handlers \in Seq([id : 1 .. dispatcher.next_id,
                                         call : Sessions \cup {waiting_session}])
         /\ \A s \in DOMAIN guard : guard[s] \in 1 .. dispatcher.next_id
  <1>1. waiting_session \in Sessions
    BY JoinedFacts, ClientsFinite DEF CInv, SessionsLive, Sessions
  <1>2. \A s \in DOMAIN peer : s \in Sessions /\ peer[s] \in Clients
    BY <1>1, ClientsFinite DEF CInv, SessionsLive, Sessions, Joined
  <1> DEFINE H == [id : 1 .. dispatcher.next_id,
                   call : Sessions \cup {waiting_session}]
  <1>3. CASE running
    <2>1. Subscribed(dispatcher, guard, Live) /\ dispatcher \in Dispatchers
      BY <1>3, SessionFacts DEF CInv
    <2> DEFINE h == dispatcher.handlers
    <2>2. /\ dispatcher.next_id \in Nat
          /\ h \in Seq(Handlers) /\ DOMAIN h = 1 .. Len(h) /\ Len(h) \in Nat
          /\ \A k \in 1 .. Len(h) : h[k] \in Handlers /\ h[k].id \in Nat \ {0}
      BY <2>1, DispatcherFacts
    <2>3. /\ \A k \in 1 .. Len(h) : /\ h[k].id <= dispatcher.next_id
                                    /\ h[k].call \in Live
                                    /\ h[k].id = guard[h[k].call]
          /\ \A s \in Live : \E k \in 1 .. Len(h) : h[k].call = s
          /\ DOMAIN guard = Live
      BY <2>1 DEF Subscribed
    <2>4. Live \subseteq Sessions
      BY <1>1, <1>2 DEF Live
    <2> HIDE DEF h
    <2>5. \A k \in 1 .. Len(h) : h[k].id \in 1 .. dispatcher.next_id
      BY <2>2, <2>3
    <2>6. \A k \in 1 .. Len(h) : h[k] \in H
      BY <2>2, <2>3, <2>4, <2>5 DEF Handlers
    <2> HIDE DEF H
    <2>7. h \in Seq(H)
      <3>1. h = [k \in 1 .. Len(h) |-> h[k]]
        BY <2>2
      <3>2. h \in [1 .. Len(h) -> H]
        BY <2>6, <3>1
      <3>3. QED
        BY <2>2, <3>2, SeqDef
    <2>8. \A s \in DOMAIN guard : guard[s] \in 1 .. dispatcher.next_id
      BY <2>3, <2>5
    <2>9. QED
      BY <1>1, <1>2, <2>2, <2>7, <2>8 DEF H, h
  <1>4. CASE ~running
    <2>1. /\ dispatcher.next_id = 0 /\ dispatcher.handlers = <<>>
          /\ DOMAIN guard = {}
      BY <1>4 DEF CInv, SessionsLive, NewDispatcher
    <2>2. dispatcher.handlers \in Seq(H)
      BY <2>1, EmptySeq
    <2>3. QED
      BY <1>1, <1>2, <2>1, <2>2
  <1>5. QED
    BY <1>3, <1>4 DEF CInv, ClientsTyped

\* The types of the daemon and its clients, of every number of either.
THEOREM ControlTypes == Spec => []TypeOK
  <1>1. CInv => TypeOK
    BY SessionTypes DEF CInv, ClientsTyped, ClientStates, Devices, TypeOK
  <1>2. QED
    BY <1>1, ControlInvariance, PTL

(***************************************************************************)
(* The dispatcher calls live sessions only, each once and in their order,  *)
(* under the id the session's guard holds (event_dispatcher.hpp): however  *)
(* many sessions are made, replaced after a failed accept, or end.         *)
(***************************************************************************)
THEOREM ControlLiveHandlers == Spec => []LiveHandlers
  <1>1. ASSUME CInv, running
        PROVE  LET called == Called(dispatcher) IN
               /\ ToSet(called) = DOMAIN peer \cup {waiting_session}
               /\ \A j, k \in DOMAIN called : j < k => called[j] < called[k]
               /\ \A k \in DOMAIN called :
                    dispatcher.handlers[k].id = guard[called[k]]
    <2> DEFINE h == dispatcher.handlers
               called == Called(dispatcher)
    <2>1. Subscribed(dispatcher, guard, Live) /\ dispatcher \in Dispatchers
      BY <1>1, SessionFacts DEF CInv
    <2>2. DOMAIN h = 1 .. Len(h)
      BY <2>1, DispatcherFacts
    <2>3. /\ \A j, k \in 1 .. Len(h) : j < k => h[j].call < h[k].call
          /\ \A k \in 1 .. Len(h) : /\ h[k].call \in Live
                                    /\ h[k].id = guard[h[k].call]
          /\ \A s \in Live : \E k \in 1 .. Len(h) : h[k].call = s
      BY <2>1 DEF Subscribed
    <2>4. /\ DOMAIN called = 1 .. Len(h)
          /\ \A k \in 1 .. Len(h) : called[k] = h[k].call
      BY <2>2 DEF Called
    <2> HIDE DEF called, h
    <2>5. ToSet(called) = Live
      BY <2>3, <2>4 DEF ToSet
    <2>6. QED
      BY <2>3, <2>4, <2>5 DEF Live, called, h
  <1>2. CInv => LiveHandlers
    BY <1>1 DEF LiveHandlers
  <1>3. QED
    BY <1>2, ControlInvariance, PTL

(***************************************************************************)
(* A client that is accepted and waits is told of every device announced   *)
(* from then on, once and in order (control_session::on_new_uart_device).  *)
(***************************************************************************)
THEOREM ControlToldOfEveryDevice == Spec => []ToldOfEveryDevice
  <1>1. ASSUME CInv, NEW c \in Clients, joined[c] # NotYet,
               client[c] = "waiting"
        PROVE  \E told \in [joined[c] + 1 .. Len(announced) -> Tellings(c)] :
                 /\ \A i, j \in DOMAIN told : i < j => told[i] < told[j]
                 /\ \A k \in Tellings(c) : \E i \in DOMAIN told : told[i] = k
                 /\ \A i \in DOMAIN told :
                      answers[c][told[i]].id = announced[i]
    <2>1. ToldSince(answers[c], joined[c], announced)
      BY <1>1 DEF CInv, Told, Joined
    <2>2. Tellings(c) = {k \in DOMAIN answers[c] : Telling(answers[c][k])}
      BY DEF Tellings, Telling
    <2>3. QED
      BY <2>1, <2>2 DEF ToldSince
  <1>2. CInv => ToldOfEveryDevice
    BY <1>1 DEF ToldOfEveryDevice
  <1>3. QED
    BY <1>2, ControlInvariance, PTL

(***************************************************************************)
(* Whatever messages ParseFromArray merges in one read, a client that      *)
(* prints "Device file does not exist" asked for a device, and none was    *)
(* added for it.                                                           *)
(***************************************************************************)
THEOREM ControlRefusalIsOwn == Spec => []RefusalIsOwn
  <1>1. CInv => RefusalIsOwn
    BY DEF CInv, ClientRefused, OnlyIfRefused, Refused, NoDeviceBy,
           RefusalIsOwn
  <1>2. QED
    BY <1>1, ControlInvariance, PTL

-----------------------------------------------------------------------------
(***************************************************************************)
(* The messages.  Each that one end packs is the message the other end     *)
(* unpacks, for every content, with a header that declares the bytes it    *)
(* has: what the frames on the line are assumed to be.                     *)
(***************************************************************************)
ByteStrings(n) == [1 .. n -> Byte]

\* What a length in four bytes can say.
Uint32 == {n \in Nat : n < 4294967296}
Data == {d \in Seq(Byte) : Len(d) \in Uint32}

LEMMA PayloadNat == Payload \in Nat
  BY PayloadAssumption, SMT

LEMMA LengthTaken ==
  ASSUME NEW m \in Nat, m >= 14
  PROVE  LET n == Lesser(m, TunBytes)
         IN  /\ m \in Nat /\ TunBytes \in Nat
             /\ n \in Nat /\ 14 <= n /\ n <= m /\ n <= TunBytes
             /\ n <= 65535
  BY TunBytesAssumption, SMT DEF Lesser

\* A function on 1 .. n is a sequence of n bytes.
LEMMA BytesSeq ==
  ASSUME NEW n \in Nat, NEW v \in ByteStrings(n)
  PROVE  v \in Seq(Byte) /\ Len(v) = n
  BY DEF ByteStrings

LEMMA MemoryFacts ==
  ASSUME NEW n \in Uint32
  PROVE  Memory(n) \in ByteStrings(4) /\ Number(Memory(n)) = n
  <1> DEFINE a == n % 256
             b == (n \div 256) % 256
             c == (n \div 65536) % 256
             d == n \div 16777216
  <1>0. n \in Nat /\ n < 4294967296
    BY SMT DEF Uint32
  <1>1. /\ a \in 0 .. 255 /\ b \in 0 .. 255 /\ c \in 0 .. 255
        /\ d \in 0 .. 255
    BY <1>0, SMT
  <1>2. n = a + 256 * (b + 256 * (c + 256 * d))
    BY <1>0, SMT
  <1>3. Memory(n) = <<a, b, c, d>>
    BY DEF Memory
  <1> HIDE DEF a, b, c, d
  <1> QED
    BY <1>1, <1>2, <1>3 DEF ByteStrings, Byte, Number

\* Turning the bytes round twice leaves them as they were.
LEMMA SwapFacts ==
  ASSUME NEW n \in Nat, NEW v \in ByteStrings(n)
  PROVE  /\ HostToNetwork(v) \in ByteStrings(n)
         /\ HostToNetwork(HostToNetwork(v)) = v
  <1>1. Len(v) = n /\ DOMAIN v = 1 .. n
    BY BytesSeq DEF ByteStrings
  <1>2. HostToNetwork(v) = [i \in 1 .. n |-> v[n + 1 - i]]
    BY <1>1 DEF HostToNetwork
  <1>3. \A i \in 1 .. n : n + 1 - i \in 1 .. n /\ v[n + 1 - i] \in Byte
    BY DEF ByteStrings
  <1>4. HostToNetwork(v) \in ByteStrings(n)
    BY <1>2, <1>3 DEF ByteStrings
  <1>5. Len(HostToNetwork(v)) = n /\ DOMAIN HostToNetwork(v) = 1 .. n
    BY <1>4, BytesSeq DEF ByteStrings
  <1>6. HostToNetwork(HostToNetwork(v))
          = [i \in 1 .. n |-> HostToNetwork(v)[n + 1 - i]]
    BY <1>5 DEF HostToNetwork
  <1>7. \A i \in 1 .. n : HostToNetwork(v)[n + 1 - i] = v[i]
    BY <1>2, <1>3
  <1> QED
    BY <1>4, <1>6, <1>7 DEF ByteStrings

(***************************************************************************)
(* buffer_utils: what write puts at the front of a buffer, read takes      *)
(* from it, for a value of any width and whatever follows it.              *)
(***************************************************************************)
THEOREM ValueRoundTrip ==
  ASSUME NEW n \in Nat, NEW value \in ByteStrings(n), NEW rest \in Seq(Byte)
  PROVE  ReadValue(WriteValue(value) \o rest, n) = value
  <1> DEFINE w == WriteValue(value)
             b == w \o rest
             r == [i \in 1 .. n |-> b[n + 1 - i]]
  <1>1. /\ Len(value) = n /\ DOMAIN value = 1 .. n
        /\ HostToNetwork(value) \in ByteStrings(n)
        /\ HostToNetwork(HostToNetwork(value)) = value
    BY BytesSeq, SwapFacts DEF ByteStrings
  <1>2. w = [i \in 1 .. n |-> HostToNetwork(value)[n + 1 - i]]
    BY <1>1 DEF WriteValue
  <1>3. \A i \in 1 .. n : n + 1 - i \in 1 .. n
    OBVIOUS
  <1>4. w \in ByteStrings(n)
    BY <1>1, <1>2, <1>3 DEF ByteStrings
  <1>5. w \in Seq(Byte) /\ Len(w) = n
    BY <1>4, BytesSeq
  <1> HIDE DEF w
  <1>6. \A i \in 1 .. n : b[i] = w[i]
    <2>1. \A i \in 1 .. Len(w) + Len(rest) :
            b[i] = IF i <= Len(w) THEN w[i] ELSE rest[i - Len(w)]
      BY <1>5, ConcatProperties
    <2> QED
      BY <1>5, <2>1, LenProperties
  <1> HIDE DEF b
  <1>7. \A i \in 1 .. n : r[i] = HostToNetwork(value)[i]
    BY <1>2, <1>3, <1>6
  <1>8. r = HostToNetwork(value)
    BY <1>1, <1>7 DEF ByteStrings
  <1> QED
    BY <1>1, <1>8 DEF ReadValue, w, b

-----------------------------------------------------------------------------
\* Concatenation, by its length and its elements.
Cat(a, b) == a \o b

LEMMA CatLength ==
  ASSUME NEW a \in Seq(Byte), NEW b \in Seq(Byte)
  PROVE  Cat(a, b) \in Seq(Byte) /\ Len(Cat(a, b)) = Len(a) + Len(b)
  BY ConcatProperties DEF Cat

LEMMA CatElements ==
  ASSUME NEW a \in Seq(Byte), NEW b \in Seq(Byte)
  PROVE  \A i \in 1 .. Len(a) + Len(b) :
           Cat(a, b)[i] = IF i <= Len(a) THEN a[i] ELSE b[i - Len(a)]
  BY ConcatProperties DEF Cat

LEMMA CatAssociative ==
  ASSUME NEW a \in Seq(Byte), NEW b \in Seq(Byte), NEW c \in Seq(Byte)
  PROVE  Cat(Cat(a, b), c) = Cat(a, Cat(b, c))
  BY ConcatAssociative DEF Cat

\* The middle of three parts.
LEMMA MiddlePart ==
  ASSUME NEW a \in Seq(Byte), NEW b \in Seq(Byte), NEW c \in Seq(Byte)
  PROVE  SubSeq(Cat(Cat(a, b), c), Len(a) + 1, Len(a) + Len(b)) = b
  <1> DEFINE s == Cat(Cat(a, b), c)
             m == Len(a) + 1
             n == Len(a) + Len(b)
             t == SubSeq(s, m, n)
  <1>0. Len(a) \in Nat /\ Len(b) \in Nat /\ Len(c) \in Nat
    BY LenProperties
  <1>1. Cat(a, b) \in Seq(Byte) /\ Len(Cat(a, b)) = n
    BY CatLength, Zenon
  <1>2. s \in Seq(Byte) /\ Len(s) = Len(Cat(a, b)) + Len(c)
    BY <1>1, CatLength, Zenon
  <1>2a. \A i \in 1 .. Len(a) + Len(b) :
          Cat(a, b)[i] = IF i <= Len(a) THEN a[i] ELSE b[i - Len(a)]
    BY CatElements, Zenon
  <1>2b. \A i \in 1 .. Len(Cat(a, b)) + Len(c) :
           s[i] = IF i <= Len(Cat(a, b)) THEN Cat(a, b)[i]
                  ELSE c[i - Len(Cat(a, b))]
    BY <1>1, CatElements, Zenon
  <1> HIDE DEF s
  <1>3. \A i \in 1 .. n : s[i] = IF i <= Len(a) THEN a[i]
                                 ELSE b[i - Len(a)]
    BY <1>0, <1>1, <1>2a, <1>2b
  <1>4. \A i \in m .. n : s[i] \in Byte
    BY <1>0, <1>1, <1>2, ElementOfSeq
  <1>5. /\ t \in Seq(Byte)
        /\ Len(t) = IF m <= n THEN n - m + 1 ELSE 0
        /\ \A i \in 1 .. n - m + 1 : t[i] = s[m + i - 1]
    BY <1>0, <1>4, SubSeqProperties
  <1> HIDE DEF t
  <1>6. Len(t) = Len(b)
    BY <1>0, <1>5
  <1>7. \A i \in 1 .. Len(t) : t[i] = b[i]
    <2> SUFFICES ASSUME NEW i \in 1 .. Len(b) PROVE t[i] = b[i]
      BY <1>6
    <2>1. /\ i \in 1 .. n - m + 1 /\ m + i - 1 \in 1 .. n
          /\ ~(m + i - 1 <= Len(a)) /\ (m + i - 1) - Len(a) = i
      BY <1>0
    <2> QED
      BY <1>3, <1>5, <2>1
  <1>8. t = b
    BY <1>5, <1>6, <1>7, SeqEqual
  <1> QED
    BY <1>8 DEF t, s

-----------------------------------------------------------------------------
\* A packet at the front of a buffer, whatever follows it.
Packet(id, mac, data, rest) == Serialize(id, mac, data) \o rest

\* Four parts and what follows them, and where they stand.
Parts(a, b, c, d, e) == Cat(Cat(Cat(a, b), Cat(c, d)), e)

StandIn(s, a, b, c, d, e) ==
  /\ s \in Seq(Byte)
  /\ Len(s) = Len(a) + Len(b) + Len(c) + Len(d) + Len(e)
  /\ \A i \in 1 .. Len(a) : s[i] = a[i]
  /\ SubSeq(s, Len(a) + 1, Len(a) + Len(b)) = b
  /\ SubSeq(s, Len(a) + Len(b) + 1, Len(a) + Len(b) + Len(c)) = c
  /\ SubSeq(s, Len(a) + Len(b) + Len(c) + 1,
            Len(a) + Len(b) + Len(c) + Len(d)) = d

LEMMA FourParts ==
  ASSUME NEW a \in Seq(Byte), NEW b \in Seq(Byte), NEW c \in Seq(Byte),
         NEW d \in Seq(Byte), NEW e \in Seq(Byte)
  PROVE  StandIn(Parts(a, b, c, d, e), a, b, c, d, e)
  <1> DEFINE s == Parts(a, b, c, d, e)
             ab == Cat(a, b)
             cde == Cat(c, Cat(d, e))
             abc == Cat(ab, c)
  <1>0. /\ Len(a) \in Nat /\ Len(b) \in Nat /\ Len(c) \in Nat
        /\ Len(d) \in Nat /\ Len(e) \in Nat
    BY LenProperties
  <1>1. ab \in Seq(Byte) /\ Len(ab) = Len(a) + Len(b)
    BY CatLength, Zenon
  <1>2. Cat(c, d) \in Seq(Byte)
    BY CatLength
  <1>3. Cat(d, e) \in Seq(Byte) /\ Len(Cat(d, e)) = Len(d) + Len(e)
    BY CatLength, Zenon
  <1>4. cde \in Seq(Byte) /\ Len(cde) = Len(c) + Len(Cat(d, e))
    BY <1>3, CatLength, Zenon
  <1>5. abc \in Seq(Byte) /\ Len(abc) = Len(ab) + Len(c)
    BY <1>1, CatLength, Zenon
  <1>5a. \A i \in 1 .. Len(a) : ab[i] = a[i]
    <2>1. \A i \in 1 .. Len(a) + Len(b) :
            ab[i] = IF i <= Len(a) THEN a[i] ELSE b[i - Len(a)]
      BY CatElements, Zenon
    <2> QED
      BY <1>0, <2>1, SMTT(30)
  <1>6. s = Cat(ab, cde)
    BY <1>1, <1>2, CatAssociative DEF Parts
  <1> HIDE DEF s
  <1>7. s = Cat(abc, Cat(d, e))
    BY <1>1, <1>3, <1>6, CatAssociative
  <1>8. s = Cat(Cat(abc, d), e)
    BY <1>5, <1>7, CatAssociative
  <1> HIDE DEF cde, abc
  <1>9. /\ s \in Seq(Byte)
        /\ Len(s) = Len(a) + Len(b) + Len(c) + Len(d) + Len(e)
        /\ \A i \in 1 .. Len(a) : s[i] = a[i]
    <2> HIDE DEF ab
    <2>1. s \in Seq(Byte) /\ Len(s) = Len(ab) + Len(cde)
      BY <1>1, <1>4, <1>6, CatLength, Zenon
    <2>2. \A i \in 1 .. Len(ab) + Len(cde) :
            s[i] = IF i <= Len(ab) THEN ab[i] ELSE cde[i - Len(ab)]
      BY <1>1, <1>4, <1>6, CatElements, Zenon
    <2>3. \A i \in 1 .. Len(a) : s[i] = a[i]
      <3> SUFFICES ASSUME NEW i \in 1 .. Len(a) PROVE s[i] = a[i]
        OBVIOUS
      <3>1. /\ i \in 1 .. Len(ab) + Len(cde) /\ i <= Len(ab)
        BY <1>0, <1>1, <1>3, <1>4
      <3> QED
        BY <1>5a, <2>2, <3>1
    <2> QED
      BY <1>0, <1>1, <1>3, <1>4, <2>1, <2>3
  <1>10. SubSeq(s, Len(a) + 1, Len(a) + Len(b)) = b
    <2>1. SubSeq(Cat(Cat(a, b), cde), Len(a) + 1, Len(a) + Len(b)) = b
      BY <1>4, MiddlePart
    <2> QED
      BY <1>6, <2>1
  <1> HIDE DEF ab
  <1>11. SubSeq(s, Len(ab) + 1, Len(ab) + Len(c)) = c
    <2>1. SubSeq(Cat(Cat(ab, c), Cat(d, e)), Len(ab) + 1, Len(ab) + Len(c))
            = c
      BY <1>1, <1>3, MiddlePart
    <2> QED
      BY <1>7, <2>1 DEF abc
  <1>12. SubSeq(s, Len(abc) + 1, Len(abc) + Len(d)) = d
    <2>1. SubSeq(Cat(Cat(abc, d), e), Len(abc) + 1, Len(abc) + Len(d)) = d
      BY <1>5, MiddlePart
    <2> QED
      BY <1>8, <2>1
  <1> QED
    BY <1>1, <1>5, <1>9, <1>10, <1>11, <1>12 DEF StandIn, s

\* What a packet at the front of a buffer has where.
HoldsPacket(s, id, mac, data, rest) ==
  /\ s \in Seq(Byte)
  /\ Len(s) = 11 + Len(data) + Len(rest)
  /\ s[1] = id
  /\ SubSeq(s, 2, 7) = mac
  /\ Number(HostToNetwork(SubSeq(s, 8, 11))) = Len(data)
  /\ SubSeq(s, 12, 11 + Len(data)) = data

LEMMA PacketParts ==
  ASSUME NEW id \in Byte, NEW mac \in ByteStrings(6), NEW data \in Data,
         NEW rest \in Seq(Byte)
  PROVE  HoldsPacket(Packet(id, mac, data, rest), id, mac, data, rest)
  <1> DEFINE s == Packet(id, mac, data, rest)
             first == <<id>>
             size == HostToNetwork(Memory(Len(data)))
  <1>0. /\ data \in Seq(Byte) /\ Len(data) \in Uint32
        /\ Len(data) \in Nat /\ Len(rest) \in Nat
    BY LenProperties DEF Data
  <1>1. /\ size \in ByteStrings(4)
        /\ HostToNetwork(size) = Memory(Len(data))
        /\ Number(HostToNetwork(size)) = Len(data)
    BY MemoryFacts, SwapFacts, <1>0
  <1>2. first \in Seq(Byte) /\ Len(first) = 1 /\ first[1] = id
    OBVIOUS
  <1>3. mac \in Seq(Byte) /\ Len(mac) = 6
    BY BytesSeq
  <1>4. size \in Seq(Byte) /\ Len(size) = 4
    BY <1>1, BytesSeq
  <1>5. s = Parts(first, mac, size, data, rest)
    BY DEF Serialize, Packet, Cat, Parts
  <1> HIDE DEF first, size, s
  <1>6. StandIn(s, first, mac, size, data, rest)
    BY <1>0, <1>2, <1>3, <1>4, <1>5, FourParts
  <1>7. /\ Len(first) + 1 = 2 /\ Len(first) + Len(mac) = 7
        /\ Len(first) + Len(mac) + 1 = 8
        /\ Len(first) + Len(mac) + Len(size) = 11
        /\ Len(first) + Len(mac) + Len(size) + 1 = 12
        /\ Len(first) + Len(mac) + Len(size) + Len(data) = 11 + Len(data)
    BY <1>0, <1>2, <1>3, <1>4
  <1>8. Len(s) = 11 + Len(data) + Len(rest)
    <2>1. Len(s) = Len(first) + Len(mac) + Len(size) + Len(data) + Len(rest)
      BY <1>6 DEF StandIn
    <2> QED
      BY <1>0, <1>2, <1>3, <1>4, <2>1
  <1>9. s[1] = id
    BY <1>2, <1>6 DEF StandIn
  <1>10. /\ SubSeq(s, 2, 7) = mac
         /\ SubSeq(s, 8, 11) = size
         /\ SubSeq(s, 12, 11 + Len(data)) = data
    BY <1>6, <1>7 DEF StandIn
  <1> QED
    BY <1>1, <1>6, <1>8, <1>9, <1>10 DEF StandIn, HoldsPacket, s

LEMMA SerializeSeq ==
  ASSUME NEW id \in Byte, NEW mac \in ByteStrings(6), NEW data \in Data
  PROVE  Serialize(id, mac, data) \in Seq(Byte)
  <1>0. data \in Seq(Byte) /\ Len(data) \in Uint32
    BY DEF Data
  <1>1. <<id>> \in Seq(Byte) /\ mac \in Seq(Byte)
    BY BytesSeq
  <1>2. Memory(Len(data)) \in ByteStrings(4)
    BY <1>0, MemoryFacts
  <1>3. HostToNetwork(Memory(Len(data))) \in Seq(Byte)
    BY <1>2, SwapFacts, BytesSeq
  <1> QED
    BY <1>0, <1>1, <1>3, ConcatProperties DEF Serialize

(***************************************************************************)
(* The header of a packet declares the bytes it has: the frames of the     *)
(* line are Sound.                                                         *)
(***************************************************************************)
THEOREM PacketsSound ==
  ASSUME NEW id \in Byte, NEW mac \in ByteStrings(6), NEW data \in Data,
         NEW rest \in Seq(Byte)
  PROVE  /\ Len(Serialize(id, mac, data)) = 11 + Len(data)
         /\ Claim(Serialize(id, mac, data) \o rest) = 11 + Len(data)
  <1>1. <<>> \in Seq(Byte) /\ Len(<<>>) = 0
    OBVIOUS
  <1>2. Number(HostToNetwork(SubSeq(Packet(id, mac, data, rest), 8, 11)))
          = Len(data)
    BY PacketParts DEF HoldsPacket
  <1>3. Len(Packet(id, mac, data, <<>>)) = 11 + Len(data) + Len(<<>>)
    <2>1. HoldsPacket(Packet(id, mac, data, <<>>), id, mac, data, <<>>)
      BY <1>1, PacketParts
    <2> QED
      BY <2>1 DEF HoldsPacket
  <1>4. data \in Seq(Byte) /\ Len(data) \in Uint32 /\ Len(data) \in Nat
    BY LenProperties DEF Data
  <1>5. Serialize(id, mac, data) \in Seq(Byte)
    BY SerializeSeq
  <1>6. Packet(id, mac, data, <<>>) = Serialize(id, mac, data)
    BY <1>5, ConcatEmptySeq DEF Packet
  <1>7. Len(Serialize(id, mac, data)) = 11 + Len(data)
    BY <1>1, <1>3, <1>4, <1>6
  <1> QED
    BY <1>2, <1>7 DEF Claim, Packet

(***************************************************************************)
(* handle_packet_from_jtag gives esp_now_send the mac and the data the     *)
(* daemon serialized, whatever waits behind the packet.                    *)
(***************************************************************************)
THEOREM PacketToSendRoundTrip ==
  ASSUME NEW mac \in ByteStrings(6), NEW data \in Data, NEW rest \in Seq(Byte)
  PROVE  DeserializePacketToSend(Serialize(PACKET_TO_SEND, mac, data) \o rest)
           = [destination_mac |-> mac, data |-> data]
  <1> DEFINE s == Packet(PACKET_TO_SEND, mac, data, rest)
  <1>1. PACKET_TO_SEND \in Byte
    BY DEF PACKET_TO_SEND, Byte
  <1>2. /\ SubSeq(s, 2, 7) = mac
        /\ Number(HostToNetwork(SubSeq(s, 8, 11))) = Len(data)
        /\ SubSeq(s, 12, 11 + Len(data)) = data
    BY <1>1, PacketParts DEF HoldsPacket
  <1> HIDE DEF s
  <1>3. DeserializePacketToSend(s) = [destination_mac |-> mac, data |-> data]
    BY <1>2 DEF DeserializePacketToSend
  <1> QED
    BY <1>3 DEF s, Packet

\* The front of a concatenation.
LEMMA FirstPart ==
  ASSUME NEW a \in Seq(Byte), NEW b \in Seq(Byte)
  PROVE  SubSeq(Cat(a, b), 1, Len(a)) = a
  <1> DEFINE s == Cat(a, b)
             t == SubSeq(s, 1, Len(a))
  <1>0. Len(a) \in Nat /\ Len(b) \in Nat
    BY LenProperties
  <1>1. \A i \in 1 .. Len(a) + Len(b) :
          s[i] = IF i <= Len(a) THEN a[i] ELSE b[i - Len(a)]
    BY CatElements, Zenon
  <1> HIDE DEF s
  <1>2. \A i \in 1 .. Len(a) : s[i] = a[i]
    BY <1>0, <1>1
  <1>3. \A i \in 1 .. Len(a) : s[i] \in Byte
    BY <1>2, ElementOfSeq
  <1>4. /\ t \in Seq(Byte)
        /\ Len(t) = IF 1 <= Len(a) THEN Len(a) - 1 + 1 ELSE 0
        /\ \A i \in 1 .. Len(a) - 1 + 1 : t[i] = s[1 + i - 1]
    BY <1>0, <1>3, SubSeqProperties
  <1> HIDE DEF t
  <1>5. Len(t) = Len(a)
    BY <1>0, <1>4
  <1>6. \A i \in 1 .. Len(t) : t[i] = a[i]
    <2> SUFFICES ASSUME NEW i \in 1 .. Len(a) PROVE t[i] = a[i]
      BY <1>5
    <2>1. i \in 1 .. Len(a) - 1 + 1 /\ 1 + i - 1 = i
      BY <1>0
    <2> QED
      BY <1>2, <1>4, <2>1
  <1>7. t = a
    BY <1>4, <1>5, <1>6, SeqEqual
  <1> QED
    BY <1>7 DEF t, s

(***************************************************************************)
(* What the main loop writes of a slot is the received_packet of the last  *)
(* data put there, whatever an earlier packet left in its payload: the     *)
(* size is taken before its bytes are turned round.                        *)
(***************************************************************************)
THEOREM SlotPushesPacket ==
  ASSUME NEW slot \in Slots, NEW mac \in ByteStrings(6), NEW data \in Data,
         Len(data) <= Payload
  PROVE  Pushed(Fill(slot, mac, data)) = Serialize(RECEIVED_PACKET, mac, data)
  <1> DEFINE n == Len(data)
             id == RECEIVED_PACKET
             size == HostToNetwork(Memory(n))
             load == [i \in 1 .. Payload |-> IF i <= n THEN data[i]
                                             ELSE slot.payload[i]]
             tail == SubSeq(load, n + 1, Payload)
  <1>0. /\ data \in Seq(Byte) /\ n \in Uint32 /\ n \in Nat
        /\ Payload \in Nat
    <2>1. data \in Seq(Byte) /\ n \in Uint32
      BY DEF Data
    <2>2. Len(data) \in Nat
      BY <2>1, LenProperties
    <2>3. Payload \in Nat
      BY PayloadNat, Zenon
    <2> QED
      BY <2>1, <2>2, <2>3
  <1>1. /\ Memory(n) \in ByteStrings(4) /\ Number(Memory(n)) = n
        /\ size \in ByteStrings(4)
    BY <1>0, MemoryFacts, SwapFacts
  <1>2. id \in Byte
    BY DEF RECEIVED_PACKET, Byte
  <1>3. \A i \in 1 .. Payload : slot.payload[i] \in Byte
    BY DEF Slots
  <1>4. DOMAIN slot.payload = 1 .. Payload
    BY DEF Slots
  <1>5. \A i \in 1 .. n : data[i] \in Byte
    BY <1>0, ElementOfSeq
  <1>6. load \in ByteStrings(Payload)
    BY <1>0, <1>3, <1>5 DEF ByteStrings
  <1>7. load \in Seq(Byte) /\ Len(load) = Payload
    BY <1>0, <1>6, BytesSeq
  <1>8. Fill(slot, mac, data)
          = [src_mac |-> mac, payload_size |-> Memory(n), payload |-> load]
    BY <1>4 DEF Fill
  <1>9. \A i \in 1 .. n : load[i] = data[i]
    BY <1>0
  <1> HIDE DEF n, size, load, id
  <1>10. Pushed(Fill(slot, mac, data))
           = SubSeq((<<id>> \o mac) \o (size \o load), 1, 11 + n)
    <2> DEFINE f == Fill(slot, mac, data)
    <2>1. f.src_mac = mac /\ f.payload_size = Memory(n) /\ f.payload = load
      BY <1>8
    <2> HIDE DEF f
    <2>2. Number(f.payload_size) = n
      BY <1>1, <2>1
    <2>3. Pushed(f) = SubSeq((<<id>> \o f.src_mac)
                               \o (HostToNetwork(f.payload_size) \o f.payload),
                             1, 11 + Number(f.payload_size))
      BY DEF Pushed, id
    <2> QED
      BY <2>1, <2>2, <2>3 DEF f, size
  <1>11. /\ tail \in Seq(Byte)
         /\ Len(tail) = Payload - n
         /\ \A i \in 1 .. Payload - n : tail[i] = load[n + i]
    <2>1. \A i \in n + 1 .. Payload : load[i] \in Byte
      BY <1>0, <1>6 DEF ByteStrings
    <2>2. /\ tail \in Seq(Byte)
          /\ Len(tail) = IF n + 1 <= Payload THEN Payload - (n + 1) + 1
                         ELSE 0
          /\ \A i \in 1 .. Payload - (n + 1) + 1 :
               tail[i] = load[n + 1 + i - 1]
      BY <1>0, <2>1, SubSeqProperties, SMTT(30)
    <2> HIDE DEF tail
    <2>3. Len(tail) = Payload - n
      BY <1>0, <2>2 DEF n
    <2>4. ASSUME NEW i \in 1 .. Payload - n
          PROVE  tail[i] = load[n + i]
      <3>1. i \in 1 .. Payload - (n + 1) + 1 /\ n + 1 + i - 1 = n + i
        BY <1>0
      <3> QED
        BY <2>2, <3>1
    <2> QED
      BY <2>2, <2>3, <2>4
  <1> HIDE DEF tail
  <1>12. load = Cat(data, tail)
    <2>1. Cat(data, tail) \in Seq(Byte) /\ Len(Cat(data, tail)) = n + Len(tail)
      BY <1>0, <1>11, CatLength, Zenon DEF n
    <2>2. \A i \in 1 .. n + Len(tail) :
            Cat(data, tail)[i] = IF i <= n THEN data[i] ELSE tail[i - n]
      BY <1>0, <1>11, CatElements, Zenon DEF n
    <2>3. Len(Cat(data, tail)) = Len(load)
      BY <1>0, <1>7, <1>11, <2>1
    <2>4. ASSUME NEW i \in 1 .. Len(load)
          PROVE  load[i] = Cat(data, tail)[i]
      <3>0. i \in 1 .. n + Len(tail)
        BY <1>0, <1>7, <1>11
      <3>1. CASE i <= n
        <4>1. i \in 1 .. n
          BY <3>1, <1>0
        <4> QED
          BY <1>9, <2>2, <3>0, <3>1, <4>1
      <3>2. CASE ~(i <= n)
        <4>1. i - n \in 1 .. Payload - n /\ n + (i - n) = i
          BY <1>0, <1>7, <3>2
        <4>2. tail[i - n] = load[i]
          BY <1>11, <4>1
        <4> QED
          BY <2>2, <3>0, <3>2, <4>2
      <3> QED
        BY <3>1, <3>2
    <2> QED
      BY <1>7, <2>1, <2>3, <2>4, SeqEqual
  <1>13. (<<id>> \o mac) \o (size \o load)
           = Cat(Serialize(id, mac, data), tail)
    <2>1. /\ <<id>> \in Seq(Byte) /\ mac \in Seq(Byte) /\ size \in Seq(Byte)
      BY <1>1, <1>2, BytesSeq
    <2>2. Cat(<<id>>, mac) \in Seq(Byte) /\ Cat(size, data) \in Seq(Byte)
      BY <1>0, <2>1, CatLength
    <2>3. Cat(size, Cat(data, tail)) = Cat(Cat(size, data), tail)
      BY <1>0, <1>11, <2>1, CatAssociative, ZenonT(60)
    <2>4. Cat(Cat(<<id>>, mac), Cat(Cat(size, data), tail))
            = Cat(Cat(Cat(<<id>>, mac), Cat(size, data)), tail)
      BY <1>11, <2>2, CatAssociative, Zenon
    <2>5. Serialize(id, mac, data) = Cat(Cat(<<id>>, mac), Cat(size, data))
      BY DEF Serialize, Cat, size, n
    <2>6. (<<id>> \o mac) \o (size \o load)
            = Cat(Cat(<<id>>, mac), Cat(size, load))
      BY DEF Cat
    <2> QED
      BY <1>12, <2>3, <2>4, <2>5, <2>6
  <1>14. /\ Serialize(id, mac, data) \in Seq(Byte)
         /\ Len(Serialize(id, mac, data)) = 11 + n
    BY <1>2, PacketsSound, SerializeSeq DEF n
  <1>15. SubSeq(Cat(Serialize(id, mac, data), tail), 1, 11 + n)
           = Serialize(id, mac, data)
    BY <1>11, <1>14, FirstPart
  <1> QED
    BY <1>10, <1>13, <1>15 DEF id

-----------------------------------------------------------------------------
\* What stands behind the id of a message.
LEMMA LenBehindId ==
  ASSUME NEW s \in Seq(Byte), Len(s) >= 2
  PROVE  /\ SubSeq(s, 2, Len(s)) \in Seq(Byte)
         /\ Len(SubSeq(s, 2, Len(s))) = Len(s) - 1
  <1> DEFINE t == SubSeq(s, 2, Len(s))
  <1>0. Len(s) \in Nat
    BY LenProperties
  <1>1. \A k \in 2 .. Len(s) : s[k] \in Byte
    BY <1>0, ElementOfSeq
  <1>2. /\ t \in Seq(Byte)
        /\ Len(t) = IF 2 <= Len(s) THEN Len(s) - 2 + 1 ELSE 0
    BY <1>0, <1>1, SubSeqProperties
  <1> HIDE DEF t
  <1>3. Len(t) = Len(s) - 1
    BY <1>0, <1>2
  <1> QED
    BY <1>2, <1>3 DEF t

LEMMA BehindId ==
  ASSUME NEW s \in Seq(Byte), NEW i \in Nat, NEW j \in Nat,
         NEW m \in Nat, NEW n \in Nat, m = i + 1, n = j + 1,
         2 <= m, n <= Len(s), Len(s) >= 2
  PROVE  SubSeq(SubSeq(s, 2, Len(s)), i, j) = SubSeq(s, m, n)
  <1> DEFINE t == SubSeq(s, 2, Len(s))
  <1>0. Len(s) \in Nat
    BY LenProperties
  <1>1. CASE m <= n
    <2>1. /\ 2 \in 1 .. Len(s) /\ Len(s) \in 1 .. Len(s)
          /\ i \in 1 .. Len(s) - 2 + 1 /\ j \in 1 .. Len(s) - 2 + 1
          /\ 2 + i - 1 = m /\ 2 + j - 1 = n
      BY <1>0, <1>1
    <2>2. SubSeq(SubSeq(s, 2, Len(s)), i, j)
            = SubSeq(s, 2 + i - 1, 2 + j - 1)
      BY <2>1, SubSeqOfSubSeq
    <2> QED
      BY <2>1, <2>2
  <1>2. CASE n < m
    <2> HIDE DEF t
    <2>1. SubSeq(s, m, n) = <<>>
      BY <1>2, SubSeqEmpty
    <2>2. SubSeq(t, i, j) = <<>>
      BY <1>2, SubSeqEmpty
    <2> QED
      BY <2>1, <2>2 DEF t
  <1> QED
    BY <1>1, <1>2

\* What the handler makes of the parts of a received_packet.
LEMMA PartsTaken ==
  ASSUME NEW mac \in ByteStrings(6), NEW data \in Data, NEW rest \in Seq(Byte),
         NEW s, HoldsPacket(s, RECEIVED_PACKET, mac, data, rest)
  PROVE  /\ Processed(s) = 11 + Len(data)
         /\ DeserializeReceivedPacket(SubSeq(s, 2, Len(s)))
              = [mac |-> mac, data |-> data]
  <1> DEFINE t == SubSeq(s, 2, Len(s))
             n == Len(data)
  <1>0. data \in Seq(Byte) /\ n \in Nat /\ Len(rest) \in Nat
    BY LenProperties DEF Data
  <1>1. /\ s \in Seq(Byte) /\ Len(s) = 11 + n + Len(rest)
        /\ SubSeq(s, 2, 7) = mac
        /\ Number(HostToNetwork(SubSeq(s, 8, 11))) = n
        /\ SubSeq(s, 12, 11 + n) = data
    BY DEF HoldsPacket
  <1> HIDE DEF n
  <1>2. Len(s) \in Nat /\ Len(s) >= 11 + n
    BY <1>0, <1>1
  <1>3. SubSeq(t, 1, 6) = SubSeq(s, 2, 7)
    <2>1. s \in Seq(Byte) /\ 7 <= Len(s) /\ Len(s) >= 2
      BY <1>0, <1>1, <1>2
    <2> QED
      BY <2>1, BehindId
  <1>4. SubSeq(t, 7, 10) = SubSeq(s, 8, 11)
    <2>1. s \in Seq(Byte) /\ 11 <= Len(s) /\ Len(s) >= 2
      BY <1>0, <1>1, <1>2
    <2> QED
      BY <2>1, BehindId
  <1>5. SubSeq(t, 11, 10 + n) = SubSeq(s, 12, 11 + n)
    <2>1. /\ s \in Seq(Byte) /\ 11 + n <= Len(s) /\ Len(s) >= 2
          /\ 10 + n \in Nat /\ 11 + n \in Nat /\ 11 + n = (10 + n) + 1
      BY <1>0, <1>1, <1>2
    <2> QED
      BY <2>1, BehindId
  <1> HIDE DEF t
  <1>6. /\ SubSeq(t, 1, 6) = mac
        /\ SubSeq(t, 7, 10) = SubSeq(s, 8, 11)
        /\ SubSeq(t, 11, 10 + n) = data
    BY <1>1, <1>3, <1>4, <1>5
  <1>7. Lesser(n, Len(t) - 10) = n
    <2>1. Len(s) >= 2 /\ Len(s) >= 11
      BY <1>0, <1>2
    <2>2. Len(t) = Len(s) - 1
      BY <1>1, <1>2, <2>1, LenBehindId DEF t
    <2> QED
      BY <1>0, <1>2, <2>2 DEF Lesser
  <1>8. DeserializeReceivedPacket(t) = [mac |-> mac, data |-> data]
    BY <1>1, <1>6, <1>7 DEF DeserializeReceivedPacket
  <1>9. ~(Len(s) < 11) /\ ~(n > Len(s) - 11)
    BY <1>0, <1>2
  <1>10. Processed(s) = 11 + Len(DeserializeReceivedPacket(t).data)
    BY <1>1, <1>9 DEF Processed, t
  <1>11. Processed(s) = 11 + n
    BY <1>8, <1>10 DEF n
  <1> QED
    BY <1>8, <1>11 DEF t, n

(***************************************************************************)
(* handle_serial_packet takes a whole received_packet, and no more than    *)
(* it, and puts its data behind the Ethernet header.                       *)
(***************************************************************************)
THEOREM ReceivedPacketTaken ==
  ASSUME NEW mac \in ByteStrings(6), NEW data \in Data, NEW rest \in Seq(Byte),
         NEW s, s = Serialize(RECEIVED_PACKET, mac, data) \o rest
  PROVE  /\ Processed(s) = 11 + Len(data)
         /\ EtherFrame(DeserializeReceivedPacket(SubSeq(s, 2, Len(s))))
              = (<<255, 255, 255, 255, 255, 255>> \o mac)
                  \o (<<136, 181>> \o data)
  <1>1. RECEIVED_PACKET \in Byte
    BY DEF RECEIVED_PACKET, Byte
  <1>2. HoldsPacket(s, RECEIVED_PACKET, mac, data, rest)
    BY <1>1, PacketParts DEF Packet
  <1>3. /\ Processed(s) = 11 + Len(data)
        /\ DeserializeReceivedPacket(SubSeq(s, 2, Len(s)))
             = [mac |-> mac, data |-> data]
    BY <1>2, PartsTaken, Zenon
  <1>4. EtherFrame([mac |-> mac, data |-> data])
          = (<<255, 255, 255, 255, 255, 255>> \o mac) \o (<<136, 181>> \o data)
    BY DEF EtherFrame
  <1> QED
    BY <1>3, <1>4, Zenon

(***************************************************************************)
(* Of any part of a packet the handler says that the rest is to come.      *)
(***************************************************************************)
THEOREM PartWaitsForRest ==
  ASSUME NEW mac \in ByteStrings(6), NEW data \in Data,
         NEW k \in 1 .. 10 + Len(data)
  PROVE  Processed(SubSeq(Serialize(RECEIVED_PACKET, mac, data), 1, k)) = -1
  <1> DEFINE s == Serialize(RECEIVED_PACKET, mac, data)
             p == SubSeq(s, 1, k)
             n == Len(data)
  <1>0. /\ data \in Seq(Byte) /\ n \in Nat /\ RECEIVED_PACKET \in Byte
        /\ k \in Nat /\ 1 <= k /\ k <= 10 + n
    BY LenProperties DEF Data, RECEIVED_PACKET, Byte
  <1>1. s \in Seq(Byte) /\ <<>> \in Seq(Byte)
    BY <1>0, SerializeSeq
  <1>2. Packet(RECEIVED_PACKET, mac, data, <<>>) = s
    BY <1>1, ConcatEmptySeq DEF Packet
  <1>3. HoldsPacket(Packet(RECEIVED_PACKET, mac, data, <<>>),
                    RECEIVED_PACKET, mac, data, <<>>)
    BY <1>0, <1>1, PacketParts
  <1>4. Number(HostToNetwork(SubSeq(s, 8, 11))) = n
    BY <1>2, <1>3 DEF HoldsPacket
  <1>5. Len(s) = 11 + n
    BY <1>0, <1>1, PacketsSound
  <1> HIDE DEF s, n
  <1>6. Len(p) = k
    <2>1. \A i \in 1 .. k : s[i] \in Byte
      BY <1>0, <1>1, <1>5, ElementOfSeq
    <2>2. Len(p) = IF 1 <= k THEN k - 1 + 1 ELSE 0
      BY <1>0, <2>1, SubSeqProperties
    <2> HIDE DEF p
    <2> QED
      BY <1>0, <2>2
  <1>7. CASE k < 11
    BY <1>6, <1>7 DEF Processed, p, s
  <1>8. CASE k >= 11
    <2>1. /\ 1 \in 1 .. Len(s) /\ k \in 1 .. Len(s)
          /\ 8 \in 1 .. k - 1 + 1 /\ 11 \in 1 .. k - 1 + 1
          /\ 1 + 8 - 1 = 8 /\ 1 + 11 - 1 = 11
      BY <1>0, <1>5, <1>8
    <2>2. SubSeq(SubSeq(s, 1, k), 8, 11) = SubSeq(s, 1 + 8 - 1, 1 + 11 - 1)
      BY <1>1, <2>1, SubSeqOfSubSeq
    <2>3. SubSeq(p, 8, 11) = SubSeq(s, 8, 11)
      BY <2>1, <2>2
    <2> HIDE DEF p
    <2>4. ~(Len(p) < 11) /\ n > Len(p) - 11
      BY <1>0, <1>6, <1>8
    <2>5. Processed(p) = -1
      BY <1>4, <2>3, <2>4 DEF Processed
    <2> QED
      BY <2>5 DEF p, s
  <1> QED
    BY <1>0, <1>7, <1>8

(***************************************************************************)
(* tun_read_handle: a frame of the tap device for ESP-NOW goes to the line *)
(* as the destination and what follows the Ethernet header, as far as      *)
(* tun_fd_buffer_ holds it, and the packet fits the device's buffer of the *)
(* same size.                                                              *)
(***************************************************************************)
THEOREM TapFrameFits ==
  ASSUME NEW frame \in Seq(Byte), Len(frame) >= 14,
         IsEspnow(TunRead(frame)), NEW rest \in Seq(Byte)
  PROVE  /\ Len(TunReadHandle(TunRead(frame))) <= TunBytes - 3
         /\ DeserializePacketToSend(TunReadHandle(TunRead(frame)) \o rest)
              = [destination_mac |-> SubSeq(frame, 1, 6),
                 data |-> SubSeq(frame, 15, Lesser(Len(frame), TunBytes))]
  <1> DEFINE n == Lesser(Len(frame), TunBytes)
             b == TunRead(frame)
             mac == SubSeq(b, 1, 6)
             data == SubSeq(b, 15, Len(b))
  <1>0. /\ Len(frame) \in Nat /\ TunBytes \in Nat
        /\ n \in Nat /\ 14 <= n /\ n <= Len(frame) /\ n <= TunBytes
        /\ n <= 65535
    <2>1. Len(frame) \in Nat
      BY LenProperties
    <2> QED
      BY <2>1, LengthTaken, SMT
  <1>1. \A i \in 1 .. n : frame[i] \in Byte
    BY <1>0, ElementOfSeq
  <1>2. b = SubSeq(frame, 1, n)
    BY DEF TunRead
  <1> HIDE DEF n, b
  <1>3. b \in Seq(Byte) /\ Len(b) = n
    <2>1. /\ b \in Seq(Byte)
          /\ Len(b) = IF 1 <= n THEN n - 1 + 1 ELSE 0
      BY <1>0, <1>1, <1>2, SubSeqProperties
    <2> QED
      BY <1>0, <2>1
  <1>4. mac = SubSeq(frame, 1, 6)
    <2>1. /\ 1 \in 1 .. Len(frame) /\ n \in 1 .. Len(frame)
          /\ 6 \in 1 .. n - 1 + 1 /\ 1 \in 1 .. n - 1 + 1
          /\ 1 + 1 - 1 = 1 /\ 1 + 6 - 1 = 6
      BY <1>0
    <2>2. SubSeq(SubSeq(frame, 1, n), 1, 6)
            = SubSeq(frame, 1 + 1 - 1, 1 + 6 - 1)
      BY <2>1, SubSeqOfSubSeq
    <2> QED
      BY <1>2, <2>1, <2>2
  <1>5. data = SubSeq(frame, 15, n)
    <2>1. CASE 15 <= n
      <3>1. /\ 1 \in 1 .. Len(frame) /\ n \in 1 .. Len(frame)
            /\ 15 \in 1 .. n - 1 + 1 /\ n \in 1 .. n - 1 + 1
            /\ 1 + 15 - 1 = 15 /\ 1 + n - 1 = n
        BY <1>0, <2>1
      <3>2. SubSeq(SubSeq(frame, 1, n), 15, n)
              = SubSeq(frame, 1 + 15 - 1, 1 + n - 1)
        BY <3>1, SubSeqOfSubSeq
      <3> QED
        BY <1>2, <1>3, <3>1, <3>2
    <2>2. CASE n < 15
      <3>1. SubSeq(b, 15, n) = <<>> /\ SubSeq(frame, 15, n) = <<>>
        BY <1>0, <2>2, SubSeqEmpty
      <3> QED
        BY <1>3, <3>1
    <2> QED
      BY <1>0, <2>1, <2>2
  <1>6. mac \in ByteStrings(6)
    <2>1. \A i \in 1 .. 6 : b[i] \in Byte
      BY <1>0, <1>3, ElementOfSeq
    <2>2. mac \in Seq(Byte) /\ Len(mac) = IF 1 <= 6 THEN 6 - 1 + 1 ELSE 0
      BY <2>1, SubSeqProperties
    <2> HIDE DEF mac
    <2>3. Len(mac) = 6
      BY <2>2
    <2> QED
      BY <2>2, <2>3, LenProperties DEF ByteStrings
  <1>7. data \in Data /\ Len(data) = n - 14
    <2>1. \A i \in 15 .. n : b[i] \in Byte
      BY <1>0, <1>3, ElementOfSeq
    <2>2. data \in Seq(Byte) /\ Len(data) = IF 15 <= n THEN n - 15 + 1 ELSE 0
      BY <1>0, <1>3, <2>1, SubSeqProperties
    <2> HIDE DEF data
    <2>3. Len(data) = n - 14
      BY <1>0, <2>2
    <2>4. Len(data) \in Uint32
      BY <1>0, <2>3, SMT DEF Uint32
    <2> QED
      BY <2>2, <2>3, <2>4 DEF Data
  <1>8. TunReadHandle(b) = Serialize(PACKET_TO_SEND, mac, data)
    BY DEF TunReadHandle, b
  <1>9. PACKET_TO_SEND \in Byte
    BY DEF PACKET_TO_SEND, Byte
  <1> HIDE DEF mac, data
  <1>10. Len(TunReadHandle(b)) = 11 + Len(data)
    BY <1>6, <1>7, <1>8, <1>9, PacketsSound
  <1>11. Len(TunReadHandle(b)) <= TunBytes - 3
    BY <1>0, <1>7, <1>10
  <1>12. DeserializePacketToSend(TunReadHandle(b) \o rest)
           = [destination_mac |-> mac, data |-> data]
    BY <1>6, <1>7, <1>8, PacketToSendRoundTrip
  <1> QED
    BY <1>4, <1>5, <1>11, <1>12 DEF b, n

-----------------------------------------------------------------------------
(***************************************************************************)
(* A start_device is read as it was written, and has the SIZE the daemon   *)
(* waits for and consumes.                                                 *)
(***************************************************************************)
THEOREM StartDeviceRoundTrip ==
  ASSUME NEW m \in StartDevices, NEW rest \in Seq(Byte)
  PROVE  /\ Len(WriteStartDevice(m)) = StartDeviceSize
         /\ ReadStartDevice(WriteStartDevice(m) \o rest) = m
  <1> DEFINE id == <<m.id>>
             header == m.header
             name == m.device_name
             version == <<m.version>>
             fw == m.fw_version
             mac == m.mac_address
             front == Cat(Cat(id, header), Cat(name, version))
             w == Cat(front, Cat(fw, mac))
             s == Cat(w, rest)
  <1>0. /\ m.id = START_DEVICE /\ m.header = Header
        /\ m.device_name \in ByteStrings(10) /\ m.version \in Byte
        /\ m.fw_version \in ByteStrings(3) /\ m.mac_address \in ByteStrings(6)
        /\ m = [id |-> m.id, header |-> m.header,
                device_name |-> m.device_name, version |-> m.version,
                fw_version |-> m.fw_version, mac_address |-> m.mac_address]
    BY DEF StartDevices, ByteStrings
  <1>1. id \in Seq(Byte) /\ Len(id) = 1 /\ id[1] = m.id
    BY <1>0 DEF START_DEVICE, Byte
  <1>2. header \in Seq(Byte) /\ Len(header) = 13
    BY <1>0 DEF Header, Byte
  <1>3. name \in Seq(Byte) /\ Len(name) = 10
    BY <1>0, BytesSeq
  <1>4. version \in Seq(Byte) /\ Len(version) = 1 /\ version[1] = m.version
    BY <1>0
  <1>5. fw \in Seq(Byte) /\ Len(fw) = 3
    BY <1>0, BytesSeq
  <1>6. mac \in Seq(Byte) /\ Len(mac) = 6
    BY <1>0, BytesSeq
  <1>7. WriteStartDevice(m) = w /\ WriteStartDevice(m) \o rest = s
    BY DEF WriteStartDevice, Cat
  <1> HIDE DEF id, header, name, version, fw, mac
  <1>9. front \in Seq(Byte) /\ Len(front) = 25
    <2>1. Cat(id, header) \in Seq(Byte)
          /\ Len(Cat(id, header)) = Len(id) + Len(header)
      BY <1>1, <1>2, CatLength, Zenon
    <2>2. Cat(name, version) \in Seq(Byte)
          /\ Len(Cat(name, version)) = Len(name) + Len(version)
      BY <1>3, <1>4, CatLength, Zenon
    <2>3. front \in Seq(Byte)
          /\ Len(front) = Len(Cat(id, header)) + Len(Cat(name, version))
      BY <2>1, <2>2, CatLength, Zenon
    <2> HIDE DEF front
    <2> QED
      BY <1>1, <1>2, <1>3, <1>4, <2>1, <2>2, <2>3
  <1>10. Cat(fw, mac) \in Seq(Byte) /\ Len(Cat(fw, mac)) = Len(fw) + Len(mac)
    BY <1>5, <1>6, CatLength, Zenon
  <1>11. Len(w) = 34 /\ w \in Seq(Byte)
    <2>1. w \in Seq(Byte) /\ Len(w) = Len(front) + Len(Cat(fw, mac))
      BY <1>9, <1>10, CatLength, Zenon
    <2> HIDE DEF w, front
    <2> QED
      BY <1>5, <1>6, <1>9, <1>10, <2>1
  <1>12. Cat(Cat(fw, mac), rest) \in Seq(Byte) /\ Cat(mac, rest) \in Seq(Byte)
    BY <1>6, <1>10, CatLength
  <1>13. s = Parts(id, header, name, version, Cat(Cat(fw, mac), rest))
    BY <1>9, <1>10, CatAssociative, Zenon DEF Parts
  <1>14. StandIn(s, id, header, name, version, Cat(Cat(fw, mac), rest))
    BY <1>1, <1>2, <1>3, <1>4, <1>12, <1>13, FourParts
  <1>15. /\ Len(id) + 1 = 2 /\ Len(id) + Len(header) = 14
         /\ Len(id) + Len(header) + 1 = 15
         /\ Len(id) + Len(header) + Len(name) = 24
         /\ Len(id) + Len(header) + Len(name) + 1 = 25
         /\ Len(id) + Len(header) + Len(name) + Len(version) = 25
    BY <1>1, <1>2, <1>3, <1>4
  <1>16. s = Cat(Cat(front, fw), Cat(mac, rest))
    <2>1. s = Cat(front, Cat(Cat(fw, mac), rest))
      BY <1>9, <1>10, CatAssociative, Zenon
    <2>2. Cat(Cat(fw, mac), rest) = Cat(fw, Cat(mac, rest))
      BY <1>5, <1>6, CatAssociative, Zenon
    <2>3. Cat(front, Cat(fw, Cat(mac, rest)))
            = Cat(Cat(front, fw), Cat(mac, rest))
      BY <1>5, <1>9, <1>12, CatAssociative, Zenon
    <2> QED
      BY <2>1, <2>2, <2>3
  <1>17. Cat(front, fw) \in Seq(Byte) /\ Len(Cat(front, fw)) = 28
    <2>1. Cat(front, fw) \in Seq(Byte)
          /\ Len(Cat(front, fw)) = Len(front) + Len(fw)
      BY <1>5, <1>9, CatLength, Zenon
    <2> HIDE DEF front
    <2> QED
      BY <1>5, <1>9, <2>1
  <1>18. s = Cat(Cat(Cat(front, fw), mac), rest)
    <2>1. Cat(Cat(front, fw), Cat(mac, rest))
            = Cat(Cat(Cat(front, fw), mac), rest)
      BY <1>6, <1>17, CatAssociative, Zenon
    <2> QED
      BY <1>16, <2>1
  <1> HIDE DEF s, w, front
  <1>19. SubSeq(s, 26, 28) = fw
    <2>1. SubSeq(Cat(Cat(front, fw), Cat(mac, rest)),
                 Len(front) + 1, Len(front) + Len(fw)) = fw
      BY <1>5, <1>9, <1>12, MiddlePart
    <2>2. Len(front) + 1 = 26 /\ Len(front) + Len(fw) = 28
      BY <1>5, <1>9
    <2> QED
      BY <1>16, <2>1, <2>2
  <1>20. SubSeq(s, 29, 34) = mac
    <2>1. SubSeq(Cat(Cat(Cat(front, fw), mac), rest),
                 Len(Cat(front, fw)) + 1, Len(Cat(front, fw)) + Len(mac))
            = mac
      BY <1>6, <1>17, MiddlePart
    <2>2. Len(Cat(front, fw)) + 1 = 29 /\ Len(Cat(front, fw)) + Len(mac) = 34
      BY <1>6, <1>17
    <2> QED
      BY <1>18, <2>1, <2>2
  <1>20a. s[1] = m.id
    BY <1>1, <1>14 DEF StandIn
  <1>21. /\ SubSeq(s, 2, 14) = header
         /\ SubSeq(s, 15, 24) = name
         /\ SubSeq(s, 25, 25) = version
    BY <1>14, <1>15 DEF StandIn
  <1>22. s[25] = m.version
    <2>1. s \in Seq(Byte) /\ Len(s) = Len(w) + Len(rest)
      BY <1>11, CatLength, Zenon DEF s
    <2>2. \A i \in 25 .. 25 : s[i] \in Byte
      BY <1>11, <2>1, LenProperties
    <2>3. \A i \in 1 .. 25 - 25 + 1 : SubSeq(s, 25, 25)[i] = s[25 + i - 1]
      BY <2>2, SubSeqProperties
    <2>4. SubSeq(s, 25, 25)[1] = s[25]
      BY <2>3
    <2> QED
      BY <1>4, <1>21, <2>4
  <1>23. ReadStartDevice(s) = m
    BY <1>0, <1>20a, <1>19, <1>20, <1>21, <1>22
       DEF ReadStartDevice, header, name, fw, mac
  <1>24. StartDeviceSize = 34
    BY DEF StartDeviceSize
  <1> QED
    BY <1>7, <1>11, <1>23, <1>24
=============================================================================
