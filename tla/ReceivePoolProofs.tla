-------------------------- MODULE ReceivePoolProofs --------------------------
(***************************************************************************)
(* The ownership of the slots, the bound of their leak, and the order of   *)
(* the packets, for every number of slots and every length of the queue.   *)
(***************************************************************************)
EXTENDS ReceivePool, FiniteSetTheorems, SequenceTheorems, TLAPS

\* A leaked slot has no other owner: nothing will ever free it.
LeakedForGood == leaked \cap Held = {}

\* A taken slot holds a packet.
Stored == \A i \in Pool : ~is_free[i] => data[i] \in 1 .. MaxPackets

IInv == TypeOK /\ Stored /\ OneOwner /\ LeakedForGood

\* The owners without sets of sets: what each step has to re-establish.
Owners ==
  /\ \A j, k \in 1 .. Len(receive_queue) :
       j # k => receive_queue[j] # receive_queue[k]
  /\ \A k \in 1 .. Len(receive_queue) :
       receive_queue[k] # sending /\ receive_queue[k] # main_index
  /\ sending # None => sending # main_index
  /\ \A i \in leaked :
       /\ i # sending /\ i # main_index
       /\ \A k \in 1 .. Len(receive_queue) : receive_queue[k] # i
  /\ \A i \in Pool :
       is_free[i] <=> /\ i \notin leaked /\ i # sending /\ i # main_index
                      /\ \A k \in 1 .. Len(receive_queue) :
                           receive_queue[k] # i

LEMMA OwnersInv == TypeOK => (OneOwner /\ LeakedForGood <=> Owners)
  <1> SUFFICES ASSUME TypeOK PROVE OneOwner /\ LeakedForGood <=> Owners
    OBVIOUS
  <1>1. /\ None \notin Pool /\ leaked \subseteq Pool
        /\ sending \in Pool \cup {None} /\ main_index \in Pool \cup {None}
        /\ \A k \in 1 .. Len(receive_queue) : receive_queue[k] \in Pool
    BY SizesAssumption DEF TypeOK, Pool, None
  <1>2. \A i \in Pool :
          i \in Held <=> \/ i = sending \/ i = main_index
                         \/ \E k \in 1 .. Len(receive_queue) :
                              receive_queue[k] = i
    BY <1>1 DEF Held, Queued
  <1>3. \A i : i \in Queued <=> \E k \in 1 .. Len(receive_queue) :
                                   receive_queue[k] = i
    BY DEF Queued
  <1>4. OneOwner /\ LeakedForGood => Owners
    BY <1>1, <1>2, <1>3 DEF OneOwner, LeakedForGood, Owners
  <1>5. Owners => OneOwner /\ LeakedForGood
    BY <1>1, <1>2, <1>3 DEF OneOwner, LeakedForGood, Owners
  <1> QED
    BY <1>4, <1>5

-----------------------------------------------------------------------------
LEMMA InitInv == Init => IInv
  <1> SUFFICES ASSUME Init PROVE IInv
    OBVIOUS
  <1>1. TypeOK
    BY SizesAssumption DEF Init, TypeOK, Pool, None
  <1>2. Owners
    BY SizesAssumption DEF Init, Owners, Pool, None
  <1>3. Stored
    BY DEF Init, Stored
  <1> QED
    BY <1>1, <1>2, <1>3, OwnersInv DEF IInv

LEMMA StepType ==
  TypeOK /\ Stored /\ Owners /\ [Next]_vars => TypeOK' /\ Stored'
  <1> SUFFICES ASSUME TypeOK, Stored, Owners, [Next]_vars
               PROVE  TypeOK' /\ Stored'
    OBVIOUS
  <1> USE SizesAssumption
  <1>1. CASE Claim
    BY <1>1 DEF Claim, TypeOK, Stored
  <1>2. CASE Drop
    BY <1>2 DEF Drop, TypeOK, Stored
  <1>3. CASE QueueSend
    BY <1>3 DEF QueueSend, TypeOK, Stored
  <1>4. CASE QueueSendFails
    BY <1>4 DEF QueueSendFails, TypeOK, Stored
  <1>5. CASE QueueReceive
    BY <1>5 DEF QueueReceive, TypeOK, Stored
  <1>6. CASE PushToUart
    <2>1. main_index \in Pool /\ ~is_free[main_index]
      BY <1>6 DEF PushToUart, TypeOK, Owners
    <2>2. data[main_index] \in 1 .. MaxPackets
      BY <2>1 DEF Stored
    <2>3. uart' \in Seq(1 .. MaxPackets)
      <3>1. uart \in Seq(1 .. MaxPackets)
        BY DEF TypeOK
      <3>2. uart' = uart \/ uart' = Append(uart, data[main_index])
        BY <1>6 DEF PushToUart
      <3> QED
        BY <2>2, <3>1, <3>2
    <2> QED
      BY <1>6, <2>1, <2>3 DEF PushToUart, TypeOK, Stored
  <1>7. CASE UNCHANGED vars
    BY <1>7 DEF vars, TypeOK, Stored
  <1> QED
    BY <1>1, <1>2, <1>3, <1>4, <1>5, <1>6, <1>7 DEF Next

LEMMA StepOwners == TypeOK /\ Owners /\ [Next]_vars => Owners'
  <1> SUFFICES ASSUME TypeOK, Owners, [Next]_vars PROVE Owners'
    OBVIOUS
  <1>0. /\ None \notin Pool /\ leaked \subseteq Pool
        /\ receive_queue \in Seq(Pool) /\ Len(receive_queue) \in Nat
        /\ sending \in Pool \cup {None} /\ main_index \in Pool \cup {None}
        /\ \A k \in 1 .. Len(receive_queue) : receive_queue[k] \in Pool
        /\ is_free \in [Pool -> BOOLEAN]
    BY SizesAssumption, SMTT(40) DEF TypeOK, Pool, None
  <1>1. CASE Claim
    BY <1>0, <1>1 DEF Claim, FirstFree, Owners
  <1>2. CASE Drop
    BY <1>2 DEF Drop, Owners
  <1>3. CASE QueueSend
    <2>1. /\ Len(receive_queue') = Len(receive_queue) + 1
          /\ receive_queue'[Len(receive_queue')] = sending
          /\ \A k \in 1 .. Len(receive_queue) :
               receive_queue'[k] = receive_queue[k]
          /\ \A k \in 1 .. Len(receive_queue') :
               k \in 1 .. Len(receive_queue) \/ k = Len(receive_queue')
      BY <1>0, <1>3 DEF QueueSend
    <2>2. sending \in Pool /\ sending' = None
          /\ UNCHANGED <<is_free, main_index, leaked>>
      BY <1>0, <1>3 DEF QueueSend
    <2> QED
      BY <1>0, <2>1, <2>2 DEF Owners
  <1>4. CASE QueueSendFails
    BY <1>0, <1>4 DEF QueueSendFails, Owners
  <1>5. CASE QueueReceive
    <2>1. /\ Len(receive_queue') = Len(receive_queue) - 1
          /\ main_index' = receive_queue[1]
          /\ 1 \in 1 .. Len(receive_queue)
          /\ \A k \in 1 .. Len(receive_queue') :
               /\ receive_queue'[k] = receive_queue[k + 1]
               /\ k + 1 \in 1 .. Len(receive_queue)
               /\ k + 1 # 1
          /\ \A k \in 1 .. Len(receive_queue) :
               k # 1 => /\ k - 1 \in 1 .. Len(receive_queue')
                        /\ receive_queue'[k - 1] = receive_queue[k]
      BY <1>0, <1>5 DEF QueueReceive
    <2>2. main_index = None /\ UNCHANGED <<is_free, sending, leaked>>
      BY <1>5 DEF QueueReceive
    <2>3. \A i : (\E k \in 1 .. Len(receive_queue) : receive_queue[k] = i)
                 <=> \/ i = main_index'
                     \/ \E k \in 1 .. Len(receive_queue') :
                          receive_queue'[k] = i
      BY <2>1
    <2>4. \A j, k \in 1 .. Len(receive_queue') :
            j # k => receive_queue'[j] # receive_queue'[k]
      <3> SUFFICES ASSUME NEW j \in 1 .. Len(receive_queue'),
                          NEW k \in 1 .. Len(receive_queue'), j # k
                   PROVE  receive_queue'[j] # receive_queue'[k]
        OBVIOUS
      <3>1. j + 1 # k + 1
        OBVIOUS
      <3> QED
        BY <2>1, <3>1 DEF Owners
    <2>5. \A k \in 1 .. Len(receive_queue') :
            receive_queue'[k] # sending /\ receive_queue'[k] # main_index'
      <3> SUFFICES ASSUME NEW k \in 1 .. Len(receive_queue')
                   PROVE  /\ receive_queue'[k] # sending
                          /\ receive_queue'[k] # main_index'
        OBVIOUS
      <3>1. /\ receive_queue'[k] = receive_queue[k + 1]
            /\ k + 1 \in 1 .. Len(receive_queue) /\ k + 1 # 1
        BY <2>1
      <3>2. /\ receive_queue[k + 1] # sending
            /\ receive_queue[k + 1] # receive_queue[1]
        BY <2>1, <3>1, Zenon DEF Owners
      <3> QED
        BY <2>1, <3>1, <3>2
    <2>6. /\ sending # None => sending # main_index'
          /\ \A i \in leaked : i # main_index'
      BY <2>1 DEF Owners
    <2>7. \A i \in Pool : i # main_index
      BY <1>0, <2>2
    <2>8. \A i \in leaked : \A k \in 1 .. Len(receive_queue') :
            receive_queue'[k] # i
      BY <2>3, Zenon DEF Owners
    <2>9. \A i \in Pool :
            is_free[i] <=> /\ i \notin leaked /\ i # sending /\ i # main_index'
                           /\ \A k \in 1 .. Len(receive_queue') :
                                receive_queue'[k] # i
      BY <2>3, <2>7, Zenon DEF Owners
    <2>10. \A i \in leaked : i # sending
      BY DEF Owners
    <2> QED
      BY <2>2, <2>4, <2>5, <2>6, <2>8, <2>9, <2>10 DEF Owners
  <1>6. CASE PushToUart
    BY <1>0, <1>6 DEF PushToUart, Owners
  <1>7. CASE UNCHANGED vars
    BY <1>7 DEF vars, Owners
  <1> QED
    BY <1>1, <1>2, <1>3, <1>4, <1>5, <1>6, <1>7 DEF Next

LEMMA Invariance == Spec => []IInv
  <1>1. IInv /\ [Next]_vars => IInv'
    <2> SUFFICES ASSUME IInv, [Next]_vars PROVE IInv'
      OBVIOUS
    <2>1. TypeOK /\ Owners
      BY OwnersInv DEF IInv
    <2>2. TypeOK' /\ Stored'
      BY <2>1, StepType DEF IInv
    <2>4. Owners'
      BY <2>1, StepOwners
    <2>3. TypeOK' => (OneOwner' /\ LeakedForGood' <=> Owners')
      BY OwnersInv, PTL
    <2> QED
      BY <2>2, <2>3, <2>4 DEF IInv
  <1> QED
    BY <1>1, InitInv, PTL DEF Spec

(***************************************************************************)
(* Indices stay indices and the queue within its length.                   *)
(***************************************************************************)
THEOREM PoolTypeOK == Spec => []TypeOK
  <1>1. IInv => TypeOK
    BY DEF IInv
  <1> QED
    BY <1>1, Invariance, PTL

(***************************************************************************)
(* A slot of the pool has one owner at a time, whichever way the callback  *)
(* and the main loop interleave and however many of its sends time out.    *)
(***************************************************************************)
THEOREM PoolOneOwner == Spec => []OneOwner
  <1>1. IInv => OneOwner
    BY DEF IInv
  <1> QED
    BY <1>1, Invariance, PTL

-----------------------------------------------------------------------------
(* Counting the slots.                                                     *)

LEMMA PoolCount ==
  /\ IsFiniteSet(Pool) /\ Cardinality(Pool) = Slots
  /\ \A S \in SUBSET Pool : IsFiniteSet(S) /\ Cardinality(S) \in Nat
                            /\ Cardinality(S) <= Slots
  <1>1. IsFiniteSet(Pool) /\ Cardinality(Pool) = Slots
    <2>1. 1 \in Int /\ Slots \in Int /\ ~(1 > Slots) /\ Slots - 1 + 1 = Slots
      BY SizesAssumption
    <2>2. /\ IsFiniteSet(1 .. Slots)
          /\ Cardinality(1 .. Slots) = IF 1 > Slots THEN 0 ELSE Slots - 1 + 1
      BY <2>1, FS_Interval
    <2> QED
      BY <2>1, <2>2 DEF Pool
  <1> QED
    BY <1>1, FS_Subset, FS_CardinalityType

\* The queue holds as many slots as it is long.
LEMMA QueuedCount ==
  ASSUME IInv
  PROVE  /\ Queued \in SUBSET Pool
         /\ Cardinality(Queued) = Len(receive_queue)
         /\ Len(receive_queue) \in 0 .. QueueSize
  <1> DEFINE n == Len(receive_queue)
  <1>1. /\ receive_queue \in Seq(Pool) /\ n \in 0 .. QueueSize /\ n \in Nat
    BY SizesAssumption DEF IInv, TypeOK
  <1>2. /\ Queued \in SUBSET Pool
        /\ receive_queue \in [1 .. n -> Queued]
        /\ DOMAIN receive_queue = 1 .. n
    BY <1>1 DEF Queued
  <1>3. receive_queue \in Surjection(1 .. n, Queued)
    BY <1>2 DEF Surjection, Queued
  <1>4. receive_queue \in Injection(1 .. n, Queued)
    BY <1>2 DEF Injection, IsInjective, IInv, OneOwner
  <1>5. IsFiniteSet(1 .. n) /\ Cardinality(1 .. n) = n
    <2>1. /\ IsFiniteSet(1 .. n)
          /\ Cardinality(1 .. n) = IF 1 > n THEN 0 ELSE n - 1 + 1
      BY <1>1, FS_Interval
    <2>2. (IF 1 > n THEN 0 ELSE n - 1 + 1) = n
      BY <1>1
    <2> QED
      BY <2>1, <2>2
  <1>6. Cardinality(Queued) = Cardinality(1 .. n)
    BY <1>3, <1>4, <1>5, FS_Surjection
  <1> QED
    BY <1>1, <1>2, <1>5, <1>6

\* A full queue leaves Slots - QueueSize slots to leak.
LEMMA LeakInStep ==
  ASSUME IInv, QueueSendFails
  PROVE  Cardinality(leaked') + QueueSize <= Slots
  <1>1. /\ leaked' = leaked \cup {sending} /\ sending # None
        /\ Len(receive_queue) = QueueSize
    BY DEF QueueSendFails
  <1>2. leaked' \in SUBSET Pool /\ leaked' \cap Queued = {}
    <2>1. sending \in Pool /\ leaked \in SUBSET Pool
      BY <1>1 DEF IInv, TypeOK
    <2>2. sending \notin Queued /\ leaked \cap Queued = {}
      BY <1>1 DEF IInv, OneOwner, LeakedForGood, Held
    <2> QED
      BY <1>1, <2>1, <2>2
  <1>3. Queued \in SUBSET Pool /\ Cardinality(Queued) = QueueSize
    BY <1>1, QueuedCount
  <1>4. Cardinality(leaked' \cup Queued)
          = Cardinality(leaked') + Cardinality(Queued) - 0
    <2>1. IsFiniteSet(leaked') /\ IsFiniteSet(Queued)
      BY <1>2, <1>3, PoolCount
    <2>2. Cardinality(leaked' \cup Queued)
            = Cardinality(leaked') + Cardinality(Queued)
                - Cardinality(leaked' \cap Queued)
      BY <2>1, FS_Union
    <2>3. Cardinality(leaked' \cap Queued) = 0
      BY <1>2, FS_EmptySet
    <2> QED
      BY <2>2, <2>3
  <1>5. leaked' \cup Queued \in SUBSET Pool
    BY <1>2, <1>3
  <1> QED
    BY <1>2, <1>3, <1>4, <1>5, PoolCount, SizesAssumption

\* A packet that finds no slot finds all of them leaked, queued, or with
\* the main loop.
LEMMA DropInStep ==
  ASSUME IInv, Drop
  PROVE  Cardinality(leaked) + QueueSize + 1 >= Slots
  <1>1. sending = None /\ \A i \in Pool : ~is_free[i]
    BY DEF Drop
  <1>2. leaked \in SUBSET Pool /\ Queued \in SUBSET Pool
    BY QueuedCount DEF IInv, TypeOK
  <1>3. Pool \subseteq (leaked \cup Queued) \cup {main_index}
    BY <1>1 DEF IInv, OneOwner, Held
  <1> DEFINE taken == leaked \cup Queued
  <1>4. IsFiniteSet(taken) /\ Cardinality(taken) \in Nat
        /\ Cardinality(taken) <= Cardinality(leaked) + Cardinality(Queued)
    <2>1. taken \in SUBSET Pool /\ leaked \cap Queued \in SUBSET Pool
      BY <1>2
    <2>2. Cardinality(taken) = Cardinality(leaked) + Cardinality(Queued)
                                 - Cardinality(leaked \cap Queued)
      BY <1>2, PoolCount, FS_Union
    <2> QED
      BY <1>2, <2>1, <2>2, PoolCount
  <1>5. /\ IsFiniteSet(taken \cup {main_index})
        /\ Cardinality(taken \cup {main_index}) \in Nat
        /\ Cardinality(taken \cup {main_index}) <= Cardinality(taken) + 1
    <2>1. /\ IsFiniteSet(taken \cup {main_index})
          /\ Cardinality(taken \cup {main_index})
               = IF main_index \in taken THEN Cardinality(taken)
                 ELSE Cardinality(taken) + 1
      BY <1>4, FS_AddElement
    <2> HIDE DEF taken
    <2> QED
      BY <1>4, <2>1, FS_CardinalityType
  <1>6. Slots <= Cardinality(taken \cup {main_index})
    BY <1>3, <1>5, PoolCount, FS_Subset
  <1>7. Cardinality(Queued) <= QueueSize /\ Cardinality(Queued) \in Nat
    BY QueuedCount, SizesAssumption
  <1>8. Cardinality(leaked) \in Nat
    BY <1>2, PoolCount
  <1> HIDE DEF taken
  <1> QED
    BY <1>4, <1>5, <1>6, <1>7, <1>8, SizesAssumption

LEMMA LeakInit == Init => LeakBounded
  <1> SUFFICES ASSUME Init PROVE LeakBounded
    OBVIOUS
  <1>1. leaked = {} /\ dropped = {}
    BY DEF Init
  <1> QED
    BY <1>1, FS_EmptySet, SizesAssumption DEF LeakBounded

LEMMA LeakStep == IInv /\ LeakBounded /\ [Next]_vars => LeakBounded'
  <1> SUFFICES ASSUME IInv, LeakBounded, [Next]_vars PROVE LeakBounded'
    OBVIOUS
  <1>1. leaked \in SUBSET Pool /\ Cardinality(leaked) \in Nat
    BY PoolCount DEF IInv, TypeOK
  <1>2. CASE QueueSendFails
    <2>1. Cardinality(leaked') + QueueSize <= Slots
      BY <1>2, LeakInStep
    <2>2. leaked' = leaked \cup {sending} /\ UNCHANGED dropped
      BY <1>2 DEF QueueSendFails
    <2>3. /\ Cardinality(leaked') \in Nat
          /\ Cardinality(leaked) <= Cardinality(leaked')
      <3>1. /\ IsFiniteSet(leaked)
            /\ Cardinality(leaked') = IF sending \in leaked
                                      THEN Cardinality(leaked)
                                      ELSE Cardinality(leaked) + 1
        BY <1>1, <2>2, PoolCount, FS_AddElement
      <3> QED
        BY <1>1, <3>1
    <2> QED
      BY <1>1, <2>1, <2>2, <2>3, SizesAssumption DEF LeakBounded
  <1>3. CASE Drop
    <2>1. UNCHANGED leaked
      BY <1>3 DEF Drop
    <2> QED
      BY <1>3, <2>1, DropInStep DEF LeakBounded
  <1>4. CASE Claim \/ QueueSend \/ QueueReceive \/ PushToUart \/ UNCHANGED vars
    BY <1>4 DEF Claim, QueueSend, QueueReceive, PushToUart, vars, LeakBounded
  <1> QED
    BY <1>2, <1>3, <1>4 DEF Next

(***************************************************************************)
(* Slots leak until the queue can no longer be full, and no further, and   *)
(* with slots to spare no packet is dropped before.                        *)
(***************************************************************************)
THEOREM PoolLeakBounded == Spec => []LeakBounded
  <1> QED
    BY LeakInit, LeakStep, Invariance, PTL DEF Spec

-----------------------------------------------------------------------------
(* The pool implements LossyFifo.                                          *)

Packets == 1 .. MaxPackets

InMain == IF main_index = None THEN 0 ELSE 1
InQueue == Len(receive_queue)
InSending == IF sending = None THEN 0 ELSE 1

\* The k-th packet on its way, in the slot that holds it.
Place(k) == IF k <= InMain THEN data[main_index]
            ELSE IF k - InMain <= InQueue THEN data[receive_queue[k - InMain]]
            ELSE data[sending]

LEMMA TransitFacts ==
  ASSUME IInv
  PROVE  /\ InMain \in {0, 1} /\ InQueue \in Nat /\ InSending \in {0, 1}
         /\ Transit \in Seq(Packets)
         /\ Len(Transit) = InQueue + InMain + InSending
         /\ \A k \in 1 .. InQueue + InMain + InSending : Transit[k] = Place(k)
  <1> DEFINE n == InQueue + InMain + InSending
  <1>1. InMain \in {0, 1} /\ InQueue \in Nat /\ InSending \in {0, 1}
    BY DEF IInv, TypeOK, InMain, InQueue, InSending
  <1>2. Transit = [k \in 1 .. n |-> Place(k)]
    BY DEF Transit, Place, InMain, InQueue, InSending
  <1>3. \A k \in 1 .. n : Place(k) \in Packets
    <2> SUFFICES ASSUME NEW k \in 1 .. n PROVE Place(k) \in Packets
      OBVIOUS
    <2>1. \A i \in Pool : i \in Held => data[i] \in Packets
      BY DEF IInv, OneOwner, Stored, Packets
    <2>2. CASE k <= InMain
      <3>1. main_index # None
        BY <1>1, <2>2 DEF InMain
      <3>2. main_index \in Pool /\ main_index \in Held
        BY <3>1 DEF IInv, TypeOK, Held
      <3> QED
        BY <2>1, <2>2, <3>2 DEF Place
    <2>3. CASE ~(k <= InMain) /\ k - InMain <= InQueue
      <3>1. k - InMain \in 1 .. Len(receive_queue)
        BY <1>1, <2>3 DEF InQueue
      <3>2. receive_queue[k - InMain] \in Pool \cap Held
        BY <3>1 DEF IInv, TypeOK, Held, Queued
      <3> QED
        BY <2>1, <2>3, <3>2 DEF Place
    <2>4. CASE ~(k <= InMain) /\ ~(k - InMain <= InQueue)
      <3>1. sending # None
        BY <1>1, <2>4 DEF InSending
      <3>2. sending \in Pool /\ sending \in Held
        BY <3>1 DEF IInv, TypeOK, Held
      <3> QED
        BY <2>1, <2>4, <3>2 DEF Place
    <2> QED
      BY <2>2, <2>3, <2>4
  <1>4. n \in Nat
    BY <1>1
  <1> HIDE DEF n
  <1>5. Transit \in Seq(Packets) /\ Len(Transit) = n
    BY <1>2, <1>3, <1>4
  <1>6. \A k \in 1 .. n : Transit[k] = Place(k)
    BY <1>2
  <1> QED
    BY <1>1, <1>5, <1>6 DEF n

\* The same of the next state.
LEMMA NextTransitFacts ==
  ASSUME IInv'
  PROVE  /\ InMain' \in {0, 1} /\ InQueue' \in Nat /\ InSending' \in {0, 1}
         /\ Transit' \in Seq(Packets)
         /\ Len(Transit') = InQueue' + InMain' + InSending'
         /\ \A k \in 1 .. InQueue' + InMain' + InSending' :
              Transit'[k] = Place(k)'
  <1>1. (IInv =>
          /\ InMain \in {0, 1} /\ InQueue \in Nat /\ InSending \in {0, 1}
          /\ Transit \in Seq(Packets)
          /\ Len(Transit) = InQueue + InMain + InSending
          /\ \A k \in 1 .. InQueue + InMain + InSending :
               Transit[k] = Place(k))'
    BY TransitFacts, PTL
  <1> QED
    BY <1>1

LEMMA ClaimAccepts ==
  ASSUME IInv, IInv', Claim
  PROVE  Fifo!Accept
  <1> USE TransitFacts, NextTransitFacts
  <1>1. PICK i \in Pool :
          /\ is_free[i] /\ sending' = i
          /\ data' = [data EXCEPT ![i] = arrived + 1]
    BY DEF Claim, FirstFree
  <1>2. /\ sending = None /\ arrived' = arrived + 1
        /\ UNCHANGED <<receive_queue, main_index, uart>>
    BY DEF Claim
  <1>3. /\ InMain' = InMain /\ InQueue' = InQueue
        /\ InSending = 0 /\ InSending' = 1
    BY <1>1, <1>2, SizesAssumption
       DEF InMain, InQueue, InSending, Pool, None
  <1>4. i \notin Held
    BY <1>1 DEF IInv, OneOwner
  <1>5. data'[i] = arrived + 1 /\ \A j : j # i => data'[j] = data[j]
    BY <1>1 DEF IInv, TypeOK
  <1>6. arrived + 1 \in Packets
    BY <1>2, SizesAssumption DEF Claim, IInv, TypeOK, Packets
  <1> DEFINE n == InQueue + InMain
             new == Append(Transit, arrived + 1)
  <1>7. /\ new \in Seq(Packets) /\ Len(new) = n + 1 /\ n \in Nat
        /\ \A k \in 1 .. n : new[k] = Transit[k]
        /\ new[n + 1] = arrived + 1
        /\ Len(Transit) = n /\ Len(Transit') = n + 1
    BY <1>3, <1>6, AppendProperties
  <1>8. ASSUME NEW k \in 1 .. n + 1 PROVE Transit'[k] = new[k]
    <2>1. Transit'[k] = Place(k)'
      BY <1>3
    <2>2. CASE k <= InMain
      <3>1. main_index # None
        BY <2>2 DEF InMain
      <3>2. main_index # i
        BY <1>4, <3>1 DEF Held
      <3>3. Place(k)' = Place(k)
        BY <1>2, <1>3, <1>5, <2>2, <3>2 DEF Place
      <3> QED
        BY <1>3, <1>7, <2>1, <2>2, <3>3
    <2>3. CASE ~(k <= InMain) /\ k - InMain <= InQueue
      <3>1. k - InMain \in 1 .. Len(receive_queue)
        BY <2>3 DEF InQueue
      <3>2. receive_queue[k - InMain] # i
        BY <1>4, <3>1 DEF Held, Queued
      <3>3. Place(k)' = Place(k)
        BY <1>2, <1>3, <1>5, <2>3, <3>2 DEF Place
      <3> QED
        BY <1>3, <1>7, <2>1, <2>3, <3>3
    <2>4. CASE ~(k <= InMain) /\ ~(k - InMain <= InQueue)
      <3>1. k = n + 1
        BY <2>4
      <3>2. Place(k)' = arrived + 1
        BY <1>1, <1>3, <1>5, <2>4 DEF Place
      <3> QED
        BY <1>7, <2>1, <3>1, <3>2
    <2> QED
      BY <2>2, <2>3, <2>4
  <1> HIDE DEF n, new
  <1>9. Transit' = new
    BY <1>7, <1>8, SeqEqual
  <1> QED
    BY <1>2, <1>9 DEF Fifo!Accept, new

\* To hand an index on, to the queue or from it, moves no packet.
LEMMA QueueStutters ==
  ASSUME IInv, IInv', QueueSend \/ QueueReceive
  PROVE  Transit' = Transit
  <1> USE TransitFacts, NextTransitFacts
  <1> DEFINE n == InQueue + InMain + InSending
  <1>1. /\ UNCHANGED data /\ receive_queue \in Seq(Pool)
        /\ InQueue = Len(receive_queue)
    BY DEF QueueSend, QueueReceive, IInv, TypeOK, InQueue
  <1>2. CASE QueueSend
    <2>1. /\ sending \in Pool /\ main_index' = main_index
          /\ receive_queue' = Append(receive_queue, sending)
          /\ InMain' = InMain /\ InSending = 1 /\ InSending' = 0
      BY <1>2 DEF QueueSend, IInv, TypeOK, InMain, InSending
    <2>2. /\ InQueue' = InQueue + 1
          /\ \A k \in 1 .. InQueue : receive_queue'[k] = receive_queue[k]
          /\ receive_queue'[InQueue + 1] = sending
      BY <1>1, <2>1, AppendProperties DEF InQueue
    <2>3. ASSUME NEW k \in 1 .. n PROVE Place(k)' = Place(k)
      <3>1. CASE k <= InMain
        BY <1>1, <2>1, <3>1 DEF Place
      <3>2. CASE ~(k <= InMain) /\ k - InMain <= InQueue
        <4>1. k - InMain \in 1 .. InQueue /\ k - InMain <= InQueue'
          BY <2>2, <3>2
        <4> QED
          BY <1>1, <2>1, <2>2, <3>2, <4>1 DEF Place
      <3>3. CASE ~(k <= InMain) /\ ~(k - InMain <= InQueue)
        <4>1. k - InMain = InQueue + 1 /\ k - InMain <= InQueue'
          BY <2>1, <2>2, <3>3
        <4> QED
          BY <1>1, <2>1, <2>2, <3>3, <4>1 DEF Place
      <3> QED
        BY <3>1, <3>2, <3>3
    <2>4. n = InQueue' + InMain' + InSending'
      BY <2>1, <2>2
    <2> QED
      BY <2>3, <2>4, SeqEqual
  <1>3. CASE QueueReceive
    <2>1. /\ main_index = None /\ receive_queue # <<>> /\ sending' = sending
          /\ main_index' = Head(receive_queue)
          /\ receive_queue' = Tail(receive_queue)
      BY <1>3 DEF QueueReceive
    <2>2. /\ InQueue' = InQueue - 1 /\ InQueue > 0
          /\ main_index' = receive_queue[1] /\ main_index' \in Pool
          /\ \A k \in 1 .. InQueue - 1 : receive_queue'[k] = receive_queue[k + 1]
      BY <1>1, <2>1, HeadTailProperties, EmptySeq DEF InQueue
    <2>3. InMain = 0 /\ InMain' = 1 /\ InSending' = InSending
      BY <2>1, <2>2, SizesAssumption DEF InMain, InSending, Pool, None
    <2>4. ASSUME NEW k \in 1 .. n PROVE Place(k)' = Place(k)
      <3>1. CASE k = 1
        BY <1>1, <2>2, <2>3, <3>1 DEF Place
      <3>2. CASE k # 1 /\ k <= InQueue
        <4>1. k - 1 \in 1 .. InQueue - 1 /\ k - 1 <= InQueue' /\ k - 1 + 1 = k
          BY <2>2, <3>2
        <4>2. receive_queue'[k - 1] = receive_queue[k]
          BY <2>2, <4>1
        <4> QED
          BY <1>1, <2>2, <2>3, <3>2, <4>1, <4>2 DEF Place
      <3>3. CASE k # 1 /\ ~(k <= InQueue)
        BY <1>1, <2>1, <2>2, <2>3, <3>3 DEF Place
      <3> QED
        BY <3>1, <3>2, <3>3
    <2>5. n = InQueue' + InMain' + InSending'
      BY <2>2, <2>3
    <2> QED
      BY <2>4, <2>5, SeqEqual
  <1> QED
    BY <1>2, <1>3

\* The callback gives up the newest packet.
LEMMA FailedSendEvicts ==
  ASSUME IInv, IInv', QueueSendFails
  PROVE  Fifo!Evict
  <1> USE TransitFacts, NextTransitFacts
  <1>1. /\ UNCHANGED <<arrived, uart, data, receive_queue, main_index>>
        /\ InSending = 1 /\ InSending' = 0
    BY DEF QueueSendFails, InSending
  <1>2. InMain' = InMain /\ InQueue' = InQueue
    BY <1>1 DEF InMain, InQueue
  <1> DEFINE n == InQueue + InMain
             rest == SubSeq(Transit, 1, Len(Transit) - 1)
  <1>3. n \in Nat /\ Len(Transit) = n + 1 /\ Len(Transit') = n
    BY <1>1, <1>2
  <1>4. /\ rest \in Seq(Packets) /\ Len(rest) = n
        /\ \A k \in 1 .. n : rest[k] = Transit[k]
    BY <1>3
  <1>5. ASSUME NEW k \in 1 .. n PROVE Transit'[k] = rest[k]
    <2>1. Transit'[k] = Place(k)' /\ Transit[k] = Place(k)
      BY <1>1, <1>2
    <2>2. k <= InMain \/ k - InMain <= InQueue
      OBVIOUS
    <2>3. Place(k)' = Place(k)
      BY <1>1, <1>2, <2>2 DEF Place
    <2> QED
      BY <1>4, <2>1, <2>3
  <1> HIDE DEF n, rest
  <1>6. Transit' = rest
    BY <1>3, <1>4, <1>5, SeqEqual
  <1>7. Transit # <<>>
    BY <1>3
  <1> QED
    BY <1>1, <1>6, <1>7 DEF Fifo!Evict, rest

\* The main loop writes the oldest packet or loses it.
LEMMA PushPasses ==
  ASSUME IInv, IInv', PushToUart
  PROVE  Fifo!Pass \/ Fifo!Evict
  <1> USE TransitFacts, NextTransitFacts
  <1>1. /\ UNCHANGED <<arrived, data, receive_queue, sending>>
        /\ main_index # None /\ main_index' = None
        /\ uart' \in {uart, Append(uart, data[main_index])}
    BY DEF PushToUart
  <1>2. /\ InMain = 1 /\ InMain' = 0
        /\ InQueue' = InQueue /\ InSending' = InSending
    BY <1>1 DEF InMain, InQueue, InSending
  <1> DEFINE n == InQueue + InSending
  <1>3. n \in Nat /\ Len(Transit) = n + 1 /\ Len(Transit') = n
    BY <1>2
  <1>4. Transit # <<>> /\ Head(Transit) = data[main_index]
    <2>1. Transit[1] = Place(1) /\ Place(1) = data[main_index]
      BY <1>2 DEF Place
    <2> QED
      BY <1>3, <2>1
  <1>5. /\ Tail(Transit) \in Seq(Packets) /\ Len(Tail(Transit)) = n
        /\ \A k \in 1 .. n : Tail(Transit)[k] = Transit[k + 1]
    BY <1>3, <1>4, HeadTailProperties
  <1>6. ASSUME NEW k \in 1 .. n PROVE Transit'[k] = Tail(Transit)[k]
    <2>1. Transit'[k] = Place(k)' /\ Transit[k + 1] = Place(k + 1)
      BY <1>2
    <2>2. ~(k <= 0) /\ k - 0 = k /\ ~(k + 1 <= 1) /\ k + 1 - 1 = k
      OBVIOUS
    <2>3. Place(k)' = Place(k + 1)
      BY <1>1, <1>2, <2>2 DEF Place
    <2> QED
      BY <1>5, <2>1, <2>3
  <1> HIDE DEF n
  <1>7. Transit' = Tail(Transit)
    BY <1>3, <1>5, <1>6, SeqEqual
  <1> QED
    BY <1>1, <1>4, <1>7 DEF Fifo!Pass, Fifo!Evict

LEMMA FifoInit == Init => Fifo!Init
  <1> SUFFICES ASSUME Init PROVE Fifo!Init
    OBVIOUS
  <1>1. IInv /\ arrived = 0 /\ uart = <<>>
    BY InitInv DEF Init
  <1>2. InMain = 0 /\ InQueue = 0 /\ InSending = 0
    BY DEF Init, InMain, InQueue, InSending
  <1>3. Transit = <<>>
    BY <1>1, <1>2, TransitFacts, EmptySeq
  <1> QED
    BY <1>1, <1>3 DEF Fifo!Init

LEMMA FifoStep == IInv /\ IInv' /\ [Next]_vars => [Fifo!Next]_(Fifo!vars)
  <1> SUFFICES ASSUME IInv, IInv', [Next]_vars
               PROVE  Fifo!Next \/ UNCHANGED Fifo!vars
    OBVIOUS
  <1>1. CASE Claim
    BY <1>1, ClaimAccepts DEF Fifo!Next
  <1>2. CASE Drop
    <2>1. arrived' = arrived + 1 /\ UNCHANGED uart /\ UNCHANGED Transit
      BY <1>2 DEF Drop, Transit
    <2> QED
      BY <2>1 DEF Fifo!Next, Fifo!Lose
  <1>3. CASE QueueSend \/ QueueReceive
    <2>1. UNCHANGED <<arrived, uart>> /\ Transit' = Transit
      BY <1>3, QueueStutters DEF QueueSend, QueueReceive
    <2> QED
      BY <2>1 DEF Fifo!vars
  <1>4. CASE QueueSendFails
    BY <1>4, FailedSendEvicts DEF Fifo!Next
  <1>5. CASE PushToUart
    BY <1>5, PushPasses DEF Fifo!Next
  <1>6. CASE UNCHANGED vars
    <2>1. UNCHANGED <<arrived, uart>> /\ UNCHANGED Transit
      BY <1>6 DEF vars, Transit
    <2> QED
      BY <2>1 DEF Fifo!vars
  <1> QED
    BY <1>1, <1>2, <1>3, <1>4, <1>5, <1>6 DEF Next

(***************************************************************************)
(* The pool, its queue and the main loop are a lossy queue of packets, for *)
(* every number of slots and every length of the queue.                    *)
(***************************************************************************)
THEOREM PoolImplementsFifo == Spec => FifoSpec
  <1>1. IInv /\ IInv' /\ [Next]_vars => [Fifo!Next]_(Fifo!vars)
    BY FifoStep
  <1> QED
    BY <1>1, FifoInit, Invariance, PTL DEF Spec, FifoSpec, Fifo!Spec

-----------------------------------------------------------------------------
(* The order, of the abstract queue: packets are numbered as they come.    *)

Rising(s) == \A j, k \in 1 .. Len(s) : j < k => s[j] < s[k]

UpTo(s, n) == \A k \in 1 .. Len(s) : s[k] <= n

Before(s, t) == \A j \in 1 .. Len(s), k \in 1 .. Len(t) : s[j] < t[k]

InOrder(passed, transit, n) ==
  /\ Rising(passed) /\ Rising(transit) /\ Before(passed, transit)
  /\ UpTo(passed, n) /\ UpTo(transit, n)

LEMMA OrderAccept ==
  ASSUME NEW p \in Seq(Nat), NEW t \in Seq(Nat), NEW n \in Nat, InOrder(p, t, n)
  PROVE  InOrder(p, t, n + 1) /\ InOrder(p, Append(t, n + 1), n + 1)
  <1> DEFINE u == Append(t, n + 1)
  <1>1. /\ Len(u) = Len(t) + 1 /\ Len(t) \in Nat /\ Len(p) \in Nat
        /\ u[Len(t) + 1] = n + 1
        /\ \A k \in 1 .. Len(t) : u[k] = t[k] /\ t[k] \in Nat
        /\ \A k \in 1 .. Len(p) : p[k] \in Nat
    BY AppendProperties
  <1> HIDE DEF u
  <1>2. \A k \in 1 .. Len(u) : k \in 1 .. Len(t) \/ k = Len(t) + 1
    BY <1>1
  <1>3. /\ \A k \in 1 .. Len(p) : p[k] <= n /\ p[k] < n + 1
        /\ \A k \in 1 .. Len(t) : t[k] <= n /\ t[k] < n + 1
    <2>1. /\ \A k \in 1 .. Len(p) : p[k] <= n
          /\ \A k \in 1 .. Len(t) : t[k] <= n
      BY DEF InOrder, UpTo
    <2>2. \A x \in Nat : x <= n => x < n + 1
      OBVIOUS
    <2> QED
      BY <1>1, <2>1, <2>2
  <1>4. UpTo(p, n + 1) /\ UpTo(t, n + 1) /\ UpTo(u, n + 1)
    <2>1. \A x \in Nat : x < n + 1 => x <= n + 1
      OBVIOUS
    <2>2. UpTo(p, n + 1)
      BY <1>1, <1>3, <2>1 DEF UpTo
    <2>3. UpTo(t, n + 1)
      BY <1>1, <1>3, <2>1 DEF UpTo
    <2>4. \A k \in 1 .. Len(u) : u[k] \in Nat /\ u[k] <= n + 1
      BY <1>1, <1>2, <1>3, <2>1, SMTT(40)
    <2> QED
      BY <2>2, <2>3, <2>4 DEF UpTo
  <1>5. Rising(u)
    <2> SUFFICES ASSUME NEW j \in 1 .. Len(u), NEW k \in 1 .. Len(u), j < k
                 PROVE  u[j] < u[k]
      BY DEF Rising
    <2>1. j \in 1 .. Len(t)
      BY <1>1, <1>2
    <2>2. CASE k \in 1 .. Len(t)
      BY <1>1, <2>1, <2>2 DEF InOrder, Rising
    <2>3. CASE k = Len(t) + 1
      BY <1>1, <1>3, <2>1, <2>3
    <2> QED
      BY <1>2, <2>2, <2>3
  <1>6. Before(p, u)
    <2> SUFFICES ASSUME NEW j \in 1 .. Len(p), NEW k \in 1 .. Len(u)
                 PROVE  p[j] < u[k]
      BY DEF Before
    <2>1. CASE k \in 1 .. Len(t)
      BY <1>1, <2>1 DEF InOrder, Before
    <2>2. CASE k = Len(t) + 1
      BY <1>1, <1>3, <2>2
    <2> QED
      BY <1>2, <2>1, <2>2
  <1> QED
    BY <1>4, <1>5, <1>6 DEF InOrder, u

LEMMA OrderTail ==
  ASSUME NEW p \in Seq(Nat), NEW t \in Seq(Nat), NEW n \in Nat,
         InOrder(p, t, n), t # <<>>
  PROVE  /\ InOrder(p, Tail(t), n)
         /\ InOrder(Append(p, Head(t)), Tail(t), n)
  <1> DEFINE h == Head(t)
             u == Tail(t)
             q == Append(p, h)
  <1>1. /\ Len(t) \in Nat \ {0} /\ Len(u) = Len(t) - 1
        /\ \A k \in 1 .. Len(u) : u[k] = t[k + 1]
        /\ h = t[1] /\ h \in Nat
        /\ \A k \in 1 .. Len(t) : t[k] \in Nat
    BY EmptySeq, HeadTailProperties
  <1>2. /\ Len(q) = Len(p) + 1 /\ Len(p) \in Nat /\ q[Len(p) + 1] = h
        /\ \A k \in 1 .. Len(p) : q[k] = p[k] /\ p[k] \in Nat
    BY <1>1, AppendProperties
  <1> HIDE DEF h, u, q
  <1>3. \A k \in 1 .. Len(q) : k \in 1 .. Len(p) \/ k = Len(p) + 1
    BY <1>2
  <1>4. \A k \in 1 .. Len(u) : k + 1 \in 1 .. Len(t) /\ 1 < k + 1
    BY <1>1
  <1>5. Rising(u) /\ UpTo(u, n) /\ Before(p, u)
    <2>1. Rising(u)
      <3> SUFFICES ASSUME NEW j \in 1 .. Len(u), NEW k \in 1 .. Len(u), j < k
                   PROVE  u[j] < u[k]
        BY DEF Rising
      <3>1. j + 1 \in 1 .. Len(t) /\ k + 1 \in 1 .. Len(t) /\ j + 1 < k + 1
        BY <1>4
      <3>2. t[j + 1] < t[k + 1]
        BY <3>1 DEF InOrder, Rising
      <3> QED
        BY <1>1, <3>2
    <2>2. UpTo(u, n)
      BY <1>1, <1>4 DEF InOrder, UpTo
    <2>3. Before(p, u)
      BY <1>1, <1>4 DEF InOrder, Before
    <2> QED
      BY <2>1, <2>2, <2>3
  <1>6. Rising(q) /\ UpTo(q, n)
    <2>1. \A j \in 1 .. Len(p) : p[j] < h
      BY <1>1 DEF InOrder, Before
    <2>2. h <= n
      BY <1>1 DEF InOrder, UpTo
    <2>3. Rising(q)
      <3> SUFFICES ASSUME NEW j \in 1 .. Len(q), NEW k \in 1 .. Len(q), j < k
                   PROVE  q[j] < q[k]
        BY DEF Rising
      <3>1. j \in 1 .. Len(p)
        BY <1>2, <1>3
      <3>2. CASE k \in 1 .. Len(p)
        BY <1>2, <3>1, <3>2 DEF InOrder, Rising
      <3>3. CASE k = Len(p) + 1
        BY <1>2, <2>1, <3>1, <3>3
      <3> QED
        BY <1>3, <3>2, <3>3
    <2>4. UpTo(q, n)
      BY <1>2, <1>3, <2>2 DEF InOrder, UpTo
    <2> QED
      BY <2>3, <2>4
  <1>7. Before(q, u)
    <2>1. \A k \in 1 .. Len(u) : h < u[k]
      BY <1>1, <1>4, SMTT(40) DEF InOrder, Rising
    <2> QED
      BY <1>2, <1>3, <1>5, <2>1 DEF Before
  <1> QED
    BY <1>5, <1>6, <1>7 DEF InOrder, h, u, q

LEMMA OrderFront ==
  ASSUME NEW p \in Seq(Nat), NEW t \in Seq(Nat), NEW n \in Nat,
         InOrder(p, t, n), t # <<>>
  PROVE  InOrder(p, SubSeq(t, 1, Len(t) - 1), n)
  <1> DEFINE u == SubSeq(t, 1, Len(t) - 1)
  <1>1. /\ Len(t) \in Nat \ {0} /\ Len(u) = Len(t) - 1
        /\ \A k \in 1 .. Len(u) : u[k] = t[k] /\ k \in 1 .. Len(t)
    <2>1. Len(t) \in Nat \ {0} /\ \A k \in 1 .. Len(t) : t[k] \in Nat
      BY EmptySeq
    <2> DEFINE m == Len(t) - 1
    <2>2. m \in Nat /\ \A k \in 1 .. m : k \in 1 .. Len(t)
      BY <2>1
    <2> HIDE DEF m
    <2>3. /\ Len(SubSeq(t, 1, m)) = IF 1 <= m THEN m - 1 + 1 ELSE 0
          /\ \A k \in 1 .. m - 1 + 1 : SubSeq(t, 1, m)[k] = t[1 + k - 1]
      BY <2>1, <2>2, SubSeqProperties
    <2>4. /\ Len(SubSeq(t, 1, m)) = m
          /\ \A k \in 1 .. m : SubSeq(t, 1, m)[k] = t[k]
      <3>1. (IF 1 <= m THEN m - 1 + 1 ELSE 0) = m /\ m - 1 + 1 = m
        BY <2>2
      <3>2. \A k \in 1 .. m : 1 + k - 1 = k
        BY <2>2
      <3> QED
        BY <2>3, <3>1, <3>2
    <2> QED
      BY <2>1, <2>2, <2>4 DEF m
  <1> HIDE DEF u
  <1>2. Rising(u)
    BY <1>1 DEF InOrder, Rising
  <1>3. UpTo(u, n) /\ Before(p, u)
    BY <1>1 DEF InOrder, UpTo, Before
  <1> QED
    BY <1>2, <1>3 DEF InOrder, u

FifoOrder == InOrder(uart, Transit, arrived)

LEMMA OrderFacts ==
  ASSUME IInv
  PROVE  uart \in Seq(Nat) /\ Transit \in Seq(Nat) /\ arrived \in Nat
  <1>1. uart \in Seq(Packets) /\ Transit \in Seq(Packets)
    BY TransitFacts DEF IInv, TypeOK, Packets
  <1>2. Packets \subseteq Nat
    BY SizesAssumption DEF Packets
  <1>3. \A s : s \in Seq(Packets) => s \in Seq(Nat)
    <2> SUFFICES ASSUME NEW s \in Seq(Packets) PROVE s \in Seq(Nat)
      OBVIOUS
    <2>1. Len(s) \in Nat /\ s \in [1 .. Len(s) -> Packets]
      BY LenProperties
    <2>2. s \in [1 .. Len(s) -> Nat]
      BY <1>2, <2>1
    <2> QED
      BY <2>1, <2>2
  <1> QED
    BY <1>1, <1>3, SizesAssumption DEF IInv, TypeOK

LEMMA OrderInit == Init => FifoOrder
  <1> SUFFICES ASSUME Init PROVE FifoOrder
    OBVIOUS
  <1>1. uart = <<>> /\ Transit = <<>>
    BY FifoInit DEF Fifo!Init
  <1>2. \A k \in 1 .. Len(<<>>) : FALSE
    BY EmptySeq
  <1> QED
    BY <1>1, <1>2 DEF FifoOrder, InOrder, Rising, Before, UpTo

LEMMA OrderStep ==
  IInv /\ IInv' /\ FifoOrder /\ [Next]_vars => FifoOrder'
  <1> SUFFICES ASSUME IInv, IInv', FifoOrder, [Next]_vars
               PROVE  InOrder(uart', Transit', arrived')
    BY DEF FifoOrder
  <1>1. /\ uart \in Seq(Nat) /\ Transit \in Seq(Nat) /\ arrived \in Nat
        /\ InOrder(uart, Transit, arrived)
    BY OrderFacts DEF FifoOrder
  <1>2. CASE UNCHANGED Fifo!vars
    BY <1>1, <1>2 DEF Fifo!vars
  <1>3. CASE Fifo!Lose \/ Fifo!Accept
    BY <1>1, <1>3, OrderAccept DEF Fifo!Lose, Fifo!Accept
  <1>4. CASE Fifo!Evict \/ Fifo!Pass
    BY <1>1, <1>4, OrderTail, OrderFront DEF Fifo!Evict, Fifo!Pass
  <1> QED
    BY <1>2, <1>3, <1>4, FifoStep DEF Fifo!Next

(***************************************************************************)
(* Packets reach the UART in the order they came over the air, none twice. *)
(***************************************************************************)
THEOREM PoolPassedInOrder == Spec => []PassedInOrder
  <1>1. IInv /\ FifoOrder => PassedInOrder
    <2> SUFFICES ASSUME IInv, FifoOrder,
                        NEW j \in 1 .. Len(uart \o Transit),
                        NEW k \in 1 .. Len(uart \o Transit), j < k
                 PROVE  (uart \o Transit)[j] < (uart \o Transit)[k]
      BY DEF PassedInOrder, Fifo!PassedInOrder
    <2> DEFINE p == uart
               t == Transit
               all == p \o t
    <2>1. /\ p \in Seq(Nat) /\ t \in Seq(Nat) /\ InOrder(p, t, arrived)
      BY OrderFacts DEF FifoOrder
    <2>2. /\ Len(all) = Len(p) + Len(t) /\ Len(p) \in Nat /\ Len(t) \in Nat
          /\ \A i \in 1 .. Len(p) + Len(t) :
               all[i] = IF i <= Len(p) THEN p[i] ELSE t[i - Len(p)]
      BY <2>1, ConcatProperties, LenProperties
    <2>3. j \in 1 .. Len(all) /\ k \in 1 .. Len(all)
      OBVIOUS
    <2> HIDE DEF all, p, t
    <2>4. CASE k <= Len(p)
      BY <2>1, <2>2, <2>3, <2>4 DEF InOrder, Rising, all, p, t
    <2>5. CASE ~(k <= Len(p)) /\ j <= Len(p)
      <3>1. j \in 1 .. Len(p) /\ k - Len(p) \in 1 .. Len(t)
        BY <2>2, <2>3, <2>5
      <3>2. p[j] < t[k - Len(p)]
        BY <2>1, <3>1 DEF InOrder, Before
      <3>3. all[j] < all[k]
        BY <2>2, <2>3, <2>5, <3>2
      <3> QED
        BY <3>3 DEF all, p, t
    <2>6. CASE ~(k <= Len(p)) /\ ~(j <= Len(p))
      <3>1. /\ j - Len(p) \in 1 .. Len(t) /\ k - Len(p) \in 1 .. Len(t)
            /\ j - Len(p) < k - Len(p)
        BY <2>2, <2>3, <2>6
      <3>2. t[j - Len(p)] < t[k - Len(p)]
        BY <2>1, <3>1 DEF InOrder, Rising
      <3>3. all[j] < all[k]
        BY <2>2, <2>3, <2>6, <3>2
      <3> QED
        BY <3>3 DEF all, p, t
    <2> QED
      BY <2>4, <2>5, <2>6
  <1>2. IInv /\ IInv' /\ FifoOrder /\ [Next]_vars => FifoOrder'
    BY OrderStep
  <1> QED
    BY <1>1, <1>2, OrderInit, Invariance, PTL DEF Spec
=============================================================================
