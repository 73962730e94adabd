-------------------------- MODULE HandshakeProofs --------------------------
(***************************************************************************)
(* The safety of the handshake, for lines of every length and any number   *)
(* of packets and restarts.                                                *)
(***************************************************************************)
EXTENDS Handshake, SequenceTheorems, TLAPS

Messages == {"START_HOST", "PACKET", "REST"}

NoAnswer(s) == \A i \in 1 .. Len(s) : s[i] # "START_HOST"

AtMostOne(s) ==
  \A i, j \in 1 .. Len(s) :
    s[i] = "START_HOST" /\ s[j] = "START_HOST" => i = j

(***************************************************************************)
(* The parts of the invariant, as relations between values, so that the    *)
(* halves of a step can be taken one after the other: l is the line to the *)
(* device, q the queue, n the writes under way on its front, a what became *)
(* of the answer.                                                          *)
(***************************************************************************)

\* An answer that is not behind a packet is the first message on the line
\* until the device takes it: StuckNeedsCause, in the form the steps keep.
First(waits, requested, a, l) ==
  waits /\ requested /\ a = "ahead" => l # <<>> /\ l[1] = "START_HOST"

\* An answer is queued with the request and not before, and stays there
\* until something became of it.
ToCome(requested, q, a) ==
  /\ ~requested => a = "none" /\ NoAnswer(q)
  /\ requested /\ a = "none" => ~NoAnswer(q)

\* NoStrayAnswer needs to know that there is at most one answer, none before
\* the request, and that none is under way once one was written.
One(requested, q, n, a, l, runs) ==
  /\ ~requested => NoAnswer(l)
  /\ AtMostOne(l) /\ AtMostOne(q)
  /\ a \in {"none", "lost"} => NoAnswer(l) /\ ~runs
  /\ a \in {"ahead", "behind"}
       => \A i \in 1 .. Len(q) : q[i] = "START_HOST" => i = 1 /\ n = 0
  /\ a = "lost" => NoAnswer(q)
  /\ a # "missed"
  /\ q # <<>> /\ q[1] = "START_HOST" => n <= 1
  /\ runs => NoAnswer(l)

Runs == device = "running" /\ ~misread

AnswerFirst == First(Waiting, requested_start, answer, to_device)

AnswerToCome == ToCome(requested_start, queue, answer)

OneAnswer ==
  restarts = 0 /\ ~crossed
    => One(requested_start, queue, writes.front, answer, to_device, Runs)

IInv == TypeOK /\ AnswerFirst /\ AnswerToCome /\ OneAnswer

Queueable == {"START_HOST", "PACKET"}

Counts == [completed : Nat, freed : Nat, front : Nat]

-----------------------------------------------------------------------------
(***************************************************************************)
(* Lemmas about the line.                                                  *)
(***************************************************************************)

\* A part of a line, by its indices: what a reader leaves and what is lost.
LEMMA PartOfLine ==
  ASSUME NEW S, NEW s \in Seq(S), NEW k \in 0 .. Len(s), NEW n \in 0 .. Len(s)
  PROVE  /\ SubSeq(s, k + 1, n) \in Seq(S)
         /\ Len(SubSeq(s, k + 1, n)) = IF k < n THEN n - k ELSE 0
         /\ Len(SubSeq(s, k + 1, n)) <= Len(s)
         /\ \A i \in 1 .. Len(SubSeq(s, k + 1, n)) :
              SubSeq(s, k + 1, n)[i] = s[k + i]
  <1>1. CASE k < n
    BY <1>1, SubSeqProperties
  <1>2. CASE ~(k < n)
    BY <1>2, SubSeqProperties
  <1> QED
    BY <1>1, <1>2

\* What a read of n messages leaves are messages, and the answers among
\* them are those behind the n-th.
LEMMA RestOfLine ==
  ASSUME to_device \in Seq(Messages), NEW n \in 1 .. Len(to_device),
         NEW line \in Rest(n)
  PROVE  /\ line \in Seq(Messages)
         /\ \E d \in {n, n - 1} :
              \A i \in 1 .. Len(line) : line[i] = "START_HOST" =>
                /\ i + d \in n + 1 .. Len(to_device)
                /\ to_device[i + d] = "START_HOST"
  <1> DEFINE left == SubSeq(to_device, n + 1, Len(to_device))
  <1>1. /\ left \in Seq(Messages) /\ Len(left) = Len(to_device) - n
        /\ \A i \in 1 .. Len(left) : left[i] = to_device[n + i]
    BY PartOfLine, n \in 0 .. Len(to_device),
       Len(to_device) \in 0 .. Len(to_device)
  <1> HIDE DEF left
  <1>2. CASE line = left
    <2>1. \A i \in 1 .. Len(line) : line[i] = "START_HOST" =>
            /\ i + n \in n + 1 .. Len(to_device)
            /\ to_device[i + n] = "START_HOST"
      BY <1>1, <1>2
    <2> QED
      BY <1>1, <1>2, <2>1
  <1>3. CASE line = <<"REST">> \o left
    <2>1. /\ line \in Seq(Messages) /\ Len(line) = Len(left) + 1
          /\ line[1] = "REST"
          /\ \A i \in 2 .. Len(line) : line[i] = left[i - 1]
      <3> DEFINE one == <<"REST">>
      <3>1. one \in Seq(Messages) /\ Len(one) = 1 /\ one[1] = "REST"
        BY DEF Messages
      <3>2. left \in Seq(Messages) /\ Len(left) \in Nat
        BY <1>1
      <3> HIDE DEF one
      <3>3. line = one \o left
        BY <1>3 DEF one
      <3>4. line \in Seq(Messages) /\ Len(line) = 1 + Len(left)
        BY <3>1, <3>2, <3>3, ConcatProperties, ZenonT(60)
      <3>5. \A i \in 1 .. 1 + Len(left) :
              line[i] = IF i <= 1 THEN one[i] ELSE left[i - 1]
        <4>1. \A i \in 1 .. Len(one) + Len(left) :
                (one \o left)[i] = IF i <= Len(one) THEN one[i]
                                   ELSE left[i - Len(one)]
          BY <3>1, <3>2, ConcatProperties
        <4> QED
          BY <3>1, <3>2, <3>3, <4>1
      <3>6. Len(line) = Len(left) + 1
        BY <3>2, <3>4
      <3>7. line[1] = "REST"
        <4>1. 1 \in 1 .. 1 + Len(left)
          BY <3>2
        <4>2. line[1] = one[1]
          BY <3>5, <4>1
        <4> QED
          BY <3>1, <4>2
      <3>8. \A i \in 2 .. Len(line) : line[i] = left[i - 1]
        BY <3>2, <3>5, <3>6
      <3> QED
        BY <3>4, <3>6, <3>7, <3>8
    <2>2. \A i \in 1 .. Len(line) : line[i] = "START_HOST" =>
            /\ i + (n - 1) \in n + 1 .. Len(to_device)
            /\ to_device[i + (n - 1)] = "START_HOST"
      <3> SUFFICES ASSUME NEW i \in 1 .. Len(line), line[i] = "START_HOST"
                   PROVE  /\ i + (n - 1) \in n + 1 .. Len(to_device)
                          /\ to_device[i + (n - 1)] = "START_HOST"
        OBVIOUS
      <3>1. i \in 2 .. Len(line) /\ i - 1 \in 1 .. Len(left)
        BY <2>1
      <3>2. left[i - 1] = to_device[n + (i - 1)]
        BY <1>1, <3>1
      <3> QED
        BY <1>1, <2>1, <3>1, <3>2
    <2> QED
      BY <2>1, <2>2
  <1> QED
    BY <1>2, <1>3 DEF Rest, left

-----------------------------------------------------------------------------
(***************************************************************************)
(* The halves of the steps that write.                                     *)
(***************************************************************************)

\* One more message at the end of a line or a queue.
LEMMA AppendFacts ==
  ASSUME NEW S, NEW s \in Seq(S), NEW m \in S
  PROVE  /\ Append(s, m) \in Seq(S)
         /\ Append(s, m) # <<>>
         /\ Len(Append(s, m)) = Len(s) + 1
         /\ Append(s, m)[Len(s) + 1] = m
         /\ \A i \in 1 .. Len(s) : Append(s, m)[i] = s[i]
  BY AppendProperties

\* The numbers of operations.
LEMMA CountsFacts ==
  ASSUME NEW w \in Counts
  PROVE  /\ w.completed \in Nat /\ w.freed \in Nat /\ w.front \in Nat
         /\ \A v : v = [w EXCEPT !.freed = @ - 1, !.completed = @ + 1]
                  /\ w.freed > 0 => v \in Counts /\ v.front = w.front
         /\ \A v : v = [w EXCEPT !.front = @ - 1, !.completed = @ + 1]
                  /\ w.front > 0 => v \in Counts /\ v.front = w.front - 1
         /\ \A v : v = [w EXCEPT !.completed = @ - 1]
                  /\ w.completed > 0 => v \in Counts /\ v.front = w.front
         /\ \A v : v = [w EXCEPT !.freed = @ + w.front, !.front = 0]
                  => v \in Counts /\ v.front = 0
  <1>1. w.completed \in Nat /\ w.freed \in Nat /\ w.front \in Nat
    BY DEF Counts
  <1>2. PICK c, f, n \in Nat : w = [completed |-> c, freed |-> f, front |-> n]
    BY DEF Counts
  <1>3. ASSUME NEW c2 \in Nat, NEW f2 \in Nat, NEW n2 \in Nat
        PROVE  [completed |-> c2, freed |-> f2, front |-> n2] \in Counts
    BY DEF Counts
  <1>4. ASSUME NEW v, v = [w EXCEPT !.freed = @ - 1, !.completed = @ + 1],
               w.freed > 0
        PROVE  v \in Counts /\ v.front = w.front
    <2>1. v = [completed |-> c + 1, freed |-> f - 1, front |-> n]
      BY <1>2, <1>4
    <2>2. f - 1 \in Nat /\ c + 1 \in Nat
      BY <1>2, <1>4
    <2> QED
      BY <1>2, <1>3, <2>1, <2>2
  <1>5. ASSUME NEW v, v = [w EXCEPT !.front = @ - 1, !.completed = @ + 1],
               w.front > 0
        PROVE  v \in Counts /\ v.front = w.front - 1
    <2>1. v = [completed |-> c + 1, freed |-> f, front |-> n - 1]
      BY <1>2, <1>5
    <2>2. n - 1 \in Nat /\ c + 1 \in Nat
      BY <1>2, <1>5
    <2> QED
      BY <1>2, <1>3, <2>1, <2>2
  <1>6. ASSUME NEW v, v = [w EXCEPT !.completed = @ - 1], w.completed > 0
        PROVE  v \in Counts /\ v.front = w.front
    <2>1. v = [completed |-> c - 1, freed |-> f, front |-> n]
      BY <1>2, <1>6
    <2>2. c - 1 \in Nat
      BY <1>2, <1>6
    <2> QED
      BY <1>2, <1>3, <2>1, <2>2
  <1>7. ASSUME NEW v, v = [w EXCEPT !.freed = @ + w.front, !.front = 0]
        PROVE  v \in Counts /\ v.front = 0
    <2>1. v = [completed |-> c, freed |-> f + n, front |-> 0]
      BY <1>2, <1>7
    <2> QED
      BY <1>3, <2>1
  <1> QED
    BY <1>1, <1>4, <1>5, <1>6, <1>7

\* Perform, as a relation between values.
Performed(m, a, l, a2, l2) ==
  \/ l2 = l /\ a2 = a
  \/ /\ l2 = Append(l, m)
     /\ a2 = IF m # "START_HOST" THEN a
             ELSE IF a = "ahead" \/ OnlyAnswers(l) THEN "ahead"
             ELSE "behind"

\* A write that reaches the line keeps the relations, with one write fewer
\* under way on the front.
LEMMA PerformKeeps ==
  ASSUME NEW l \in Seq(Messages), NEW q \in Seq(Queueable), NEW n \in Nat,
         NEW a \in Answers, NEW waits, NEW requested, NEW runs,
         NEW a2, NEW l2,
         n > 0, q # <<>>,
         First(waits, requested, a, l), ToCome(requested, q, a),
         Performed(q[1], a, l, a2, l2)
  PROVE  /\ l2 \in Seq(Messages) /\ a2 \in Answers
         /\ First(waits, requested, a2, l2)
         /\ ToCome(requested, q, a2)
         /\ One(requested, q, n, a, l, runs)
              => One(requested, q, n - 1, a2, l2, runs)
  <1>1. CASE l2 = l /\ a2 = a
    <2>1. One(requested, q, n, a, l, runs)
            => One(requested, q, n - 1, a, l, runs)
      BY DEF One
    <2> QED
      BY <1>1, <2>1
  <1>2. CASE /\ l2 = Append(l, q[1])
             /\ q[1] # "START_HOST" /\ a2 = a
    <2>1. q[1] \in Messages
      BY DEF Queueable, Messages
    <2>2. /\ l2 \in Seq(Messages) /\ l2 # <<>> /\ Len(l2) = Len(l) + 1
          /\ l2[Len(l) + 1] = q[1]
          /\ \A i \in 1 .. Len(l) : l2[i] = l[i]
      BY <1>2, <2>1, AppendFacts
    <2>3. First(waits, requested, a2, l2)
      BY <1>2, <2>2 DEF First
    <2>4. NoAnswer(l) => NoAnswer(l2)
      BY <1>2, <2>2 DEF NoAnswer
    <2>5. AtMostOne(l) => AtMostOne(l2)
      BY <1>2, <2>2 DEF AtMostOne
    <2>6. One(requested, q, n, a, l, runs)
            => One(requested, q, n - 1, a2, l2, runs)
      BY <1>2, <2>4, <2>5 DEF One
    <2> QED
      BY <1>2, <2>2, <2>3, <2>6
  <1>3. CASE /\ l2 = Append(l, q[1])
             /\ q[1] = "START_HOST"
             /\ a2 = IF a = "ahead" \/ OnlyAnswers(l) THEN "ahead"
                     ELSE "behind"
    <2>1. q[1] \in Messages /\ 1 \in 1 .. Len(q)
      BY DEF Queueable, Messages
    <2>2. /\ l2 \in Seq(Messages) /\ l2 # <<>> /\ Len(l2) = Len(l) + 1
          /\ l2[Len(l) + 1] = "START_HOST"
          /\ \A i \in 1 .. Len(l) : l2[i] = l[i]
      BY <1>3, <2>1, AppendFacts
    <2>3. requested /\ a2 \in {"ahead", "behind"}
      BY <1>3, <2>1 DEF ToCome, NoAnswer
    <2>4. First(waits, requested, a2, l2)
      <3> SUFFICES ASSUME waits, a2 = "ahead" PROVE l2[1] = "START_HOST"
        BY <2>2 DEF First
      <3>1. CASE a = "ahead"
        BY <2>2, <2>3, <3>1 DEF First
      <3>2. CASE OnlyAnswers(l)
        <4>1. CASE l = <<>>
          BY <2>2, <4>1
        <4>2. CASE l # <<>>
          BY <2>2, <3>2, <4>2 DEF OnlyAnswers
        <4> QED
          BY <4>1, <4>2
      <3> QED
        BY <1>3, <3>1, <3>2
    <2>5. ToCome(requested, q, a2)
      BY <2>3 DEF ToCome
    <2>6. ASSUME One(requested, q, n, a, l, runs)
          PROVE  One(requested, q, n - 1, a2, l2, runs)
      <3>1. a \notin {"ahead", "behind"}
        BY <1>3, <2>1, <2>6 DEF One
      <3>2. NoAnswer(l) /\ ~runs
        BY <2>6, <3>1 DEF One, Answers
      <3>3. n - 1 = 0
        BY <1>3, <2>6 DEF One
      <3>4. AtMostOne(l2)
        BY <2>2, <3>2 DEF AtMostOne, NoAnswer
      <3>5. \A i \in 1 .. Len(q) : q[i] = "START_HOST" => i = 1 /\ n - 1 = 0
        BY <1>3, <2>1, <2>6, <3>3 DEF One, AtMostOne
      <3>6. AtMostOne(q)
        BY <2>6 DEF One
      <3> QED
        BY <2>3, <3>2, <3>3, <3>4, <3>5, <3>6 DEF One
    <2>7. a2 \in Answers
      BY <2>3 DEF Answers
    <2> QED
      BY <2>2, <2>4, <2>5, <2>6, <2>7
  <1> QED
    BY <1>1, <1>2, <1>3 DEF Performed

\* start_writing, after a push or a pop has made the queue q, the operations
\* w and the answer a; once tells whether the parts of One are to be kept.
LEMMA StartWritingKeeps ==
  ASSUME to_device \in Seq(Messages),
         NEW q \in Seq(Queueable), NEW w \in Counts, NEW a \in Answers,
         NEW waits, NEW requested, NEW runs, NEW once,
         w.front > 0 => q # <<>>,
         First(waits, requested, a, to_device), ToCome(requested, q, a),
         once => One(requested, q, w.front, a, to_device, runs),
         once /\ q # <<>> /\ q[1] = "START_HOST"
           => w.front = 0 /\ a \notin {"ahead", "behind"},
         StartWriting(q, w, a)
  PROVE  /\ to_device' \in Seq(Messages) /\ answer' \in Answers
         /\ writes' \in Counts /\ (writes'.front > 0 => q # <<>>)
         /\ First(waits, requested, answer', to_device')
         /\ ToCome(requested, q, answer')
         /\ once => One(requested, q, writes'.front, answer', to_device', runs)
  <1>1. CASE q = <<>>
    BY <1>1 DEF StartWriting
  <1>2. CASE q # <<>>
    <2>1. w.front \in Nat /\ w.freed \in Nat /\ w.completed \in Nat
      BY DEF Counts
    <2>2. once => One(requested, q, w.front + 1, a, to_device, runs)
      <3> SUFFICES ASSUME once
                   PROVE  One(requested, q, w.front + 1, a, to_device, runs)
        OBVIOUS
      <3>1. One(requested, q, w.front, a, to_device, runs)
        OBVIOUS
      <3>2. q[1] = "START_HOST"
              => w.front + 1 <= 1 /\ a \notin {"ahead", "behind"}
        BY <1>2, <2>1
      <3>3. a \in {"ahead", "behind"} =>
              \A i \in 1 .. Len(q) :
                q[i] = "START_HOST" => i = 1 /\ w.front + 1 = 0
        BY <3>1, <3>2 DEF One
      <3> QED
        BY <3>1, <3>2, <3>3 DEF One
    <2>3. CASE /\ writes' = [w EXCEPT !.front = @ + 1]
               /\ answer' = a /\ to_device' = to_device
      <3>1. writes' \in Counts /\ writes'.front = w.front + 1
        BY <2>1, <2>3 DEF Counts
      <3> QED
        BY <1>2, <2>2, <2>3, <3>1
    <2>4. CASE /\ w.front = 0
               /\ writes' = [w EXCEPT !.completed = @ + 1]
               /\ Perform(Head(q), a)
      <3>1. writes' \in Counts /\ writes'.front = 0
        BY <2>1, <2>4 DEF Counts
      <3>2. Performed(q[1], a, to_device, answer', to_device')
        <4>1. Head(q) = q[1]
          BY <1>2
        <4> QED
          BY <2>4, <4>1 DEF Perform, Performed
      <3>3. w.front + 1 \in Nat /\ w.front + 1 > 0 /\ (w.front + 1) - 1 = 0
        BY <2>4
      <3> DEFINE n == w.front + 1
      <3>4. n \in Nat /\ n > 0 /\ n - 1 = 0
        BY <3>3
      <3>5. once => One(requested, q, n, a, to_device, runs)
        BY <2>2
      <3> HIDE DEF n
      <3>6. /\ to_device' \in Seq(Messages) /\ answer' \in Answers
            /\ First(waits, requested, answer', to_device')
            /\ ToCome(requested, q, answer')
            /\ One(requested, q, n, a, to_device, runs)
                 => One(requested, q, n - 1, answer', to_device', runs)
        BY <1>2, <3>2, <3>4, PerformKeeps
      <3> QED
        BY <3>1, <3>4, <3>5, <3>6
    <2> QED
      BY <1>2, <2>3, <2>4 DEF StartWriting
  <1> QED
    BY <1>1, <1>2

-----------------------------------------------------------------------------
(***************************************************************************)
(* The steps, those that read or write the line to the device each alone.  *)
(***************************************************************************)

LEMMA InitIInv == HandshakeAssumption /\ Init => IInv
  <1> SUFFICES ASSUME HandshakeAssumption, Init PROVE IInv
    OBVIOUS
  <1> USE DEF Init
  <1>1. to_host \in Seq({"START_DEVICE"}) /\ to_device \in Seq(Messages)
        /\ queue \in Seq(Queueable)
        /\ Len(to_host) = 0 /\ Len(to_device) = 0 /\ Len(queue) = 0
    OBVIOUS
  <1>2. TypeOK
    <2>1. /\ Len(to_host) <= RingSize
          /\ sent \in 0 .. MaxPackets /\ restarts \in 0 .. MaxRestarts
      BY <1>1 DEF HandshakeAssumption
    <2>2. writes \in Counts /\ ~(writes.front > 0)
      BY DEF Counts, NoWrites
    <2> QED
      BY <1>1, <2>1, <2>2 DEF TypeOK, Messages, Queueable, Counts, Answers
  <1>3. AnswerFirst
    BY DEF AnswerFirst, First
  <1>4. AnswerToCome
    BY <1>1 DEF AnswerToCome, ToCome, NoAnswer
  <1>5. OneAnswer
    BY <1>1 DEF OneAnswer, One, NoAnswer, AtMostOne, Runs
  <1> QED
    BY <1>2, <1>3, <1>4, <1>5 DEF IInv

\* The invariant in the terms of the lemmas.
LEMMA InvParts ==
  ASSUME IInv
  PROVE  /\ to_device \in Seq(Messages) /\ queue \in Seq(Queueable)
         /\ writes \in Counts /\ (writes.front > 0 => queue # <<>>)
         /\ answer \in Answers /\ requested_start \in BOOLEAN
         /\ First(Waiting, requested_start, answer, to_device)
         /\ ToCome(requested_start, queue, answer)
         /\ restarts = 0 /\ ~crossed
              => One(requested_start, queue, writes.front, answer, to_device,
                     Runs)
  BY DEF IInv, TypeOK, Messages, Queueable, Counts, AnswerFirst, AnswerToCome,
         OneAnswer

\* A step of the daemon that writes: what is left to show once the parts of
\* the invariant are known of the new values.
LEMMA WriteStep ==
  ASSUME IInv,
         to_device' \in Seq(Messages), queue' \in Seq(Queueable),
         writes' \in Counts, writes'.front > 0 => queue' # <<>>,
         answer' \in Answers,
         First(Waiting, requested_start', answer', to_device'),
         ToCome(requested_start', queue', answer'),
         restarts = 0 /\ ~crossed'
           => One(requested_start', queue', writes'.front, answer',
                  to_device', Runs),
         requested_start' \in BOOLEAN, requested_start' => open,
         to_host' \in Seq({"START_DEVICE"}), Len(to_host') <= RingSize,
         crossed' \in BOOLEAN, sent' \in 0 .. MaxPackets,
         UNCHANGED <<device, open, reading, restarts, misread>>
  PROVE  IInv'
  <1>1. TypeOK'
    BY DEF IInv, TypeOK, Messages, Queueable, Counts
  <1>2. Waiting' = Waiting /\ Runs' = Runs
    BY DEF Waiting, Runs
  <1>3. AnswerFirst'
    BY <1>2 DEF AnswerFirst
  <1>4. AnswerToCome'
    BY DEF AnswerToCome
  <1>5. OneAnswer'
    BY <1>2 DEF OneAnswer
  <1> QED
    BY <1>1, <1>3, <1>4, <1>5 DEF IInv

LEMMA HandleStartDeviceInv ==
  ASSUME HandshakeAssumption, IInv, HandleStartDevice
  PROVE  IInv'
  <1> USE InvParts
  <1>1. /\ to_host' \in Seq({"START_DEVICE"})
        /\ Len(to_host') <= RingSize
        /\ requested_start' = TRUE /\ open
        /\ sent \in 0 .. MaxPackets /\ crossed \in BOOLEAN
        /\ UNCHANGED <<device, open, reading, sent, restarts, crossed, misread>>
    <2>1. /\ to_host' \in Seq({"START_DEVICE"})
          /\ Len(to_host') = Len(to_host) - 1
          /\ Len(to_host) \in Nat /\ Len(to_host) <= RingSize
      BY DEF HandleStartDevice, IInv, TypeOK
    <2>2. Len(to_host') <= RingSize
      BY <2>1 DEF HandshakeAssumption
    <2> QED
      BY <2>1, <2>2 DEF HandleStartDevice, IInv, TypeOK
  <1>2. CASE requested_start
    <2>1. UNCHANGED <<to_device, queue, writes, answer, requested_start>>
      BY <1>1, <1>2 DEF HandleStartDevice, queueVars
    <2> QED
      BY <1>1, <2>1, WriteStep
  <1>3. CASE ~requested_start
    <2>1. /\ queue' = Append(queue, "START_HOST")
          /\ StartWriting(queue', writes, answer)
      BY <1>3 DEF HandleStartDevice, Push
    <2>2. answer = "none" /\ NoAnswer(queue)
      BY <1>3 DEF ToCome
    <2>3. /\ queue' \in Seq(Queueable) /\ queue' # <<>>
          /\ Len(queue') = Len(queue) + 1
          /\ queue'[Len(queue) + 1] = "START_HOST"
          /\ \A i \in 1 .. Len(queue) : queue'[i] = queue[i]
      BY <2>1, AppendFacts, "START_HOST" \in Queueable DEF Queueable
    <2>4. AtMostOne(queue') /\ ~NoAnswer(queue')
      BY <2>2, <2>3 DEF AtMostOne, NoAnswer
    <2>5. queue'[1] = "START_HOST" => writes.front = 0
      <3>1. CASE queue = <<>>
        BY <3>1 DEF Counts
      <3>2. CASE queue # <<>>
        BY <2>2, <2>3, <3>2 DEF NoAnswer
      <3> QED
        BY <3>1, <3>2
    <2>6. First(Waiting, TRUE, answer, to_device) /\ ToCome(TRUE, queue', answer)
      BY <2>2, <2>4 DEF First, ToCome
    <2>7. restarts = 0 /\ ~crossed
            => One(TRUE, queue', writes.front, answer, to_device, Runs)
      BY <1>3, <2>2, <2>4, <2>5 DEF One
    <2>8. /\ to_device' \in Seq(Messages) /\ answer' \in Answers
          /\ writes' \in Counts /\ (writes'.front > 0 => queue' # <<>>)
          /\ First(Waiting, TRUE, answer', to_device')
          /\ ToCome(TRUE, queue', answer')
          /\ restarts = 0 /\ ~crossed
               => One(TRUE, queue', writes'.front, answer', to_device', Runs)
      <3>1. restarts = 0 /\ ~crossed /\ queue' # <<>>
              /\ queue'[1] = "START_HOST"
              => writes.front = 0 /\ answer \notin {"ahead", "behind"}
        BY <2>2, <2>5
      <3> QED
        BY <2>1, <2>3, <2>6, <2>7, <3>1, StartWritingKeeps
    <2> QED
      BY <1>1, <2>3, <2>8, WriteStep
  <1> QED
    BY <1>2, <1>3

LEMMA TunReadInv ==
  ASSUME HandshakeAssumption, IInv, TunRead
  PROVE  IInv'
  <1> USE InvParts
  <1>1. /\ queue' = Append(queue, "PACKET")
        /\ StartWriting(queue', writes, answer)
        /\ crossed' = (crossed \/ (queue # <<>> /\ Head(queue) = "START_HOST"))
        /\ UNCHANGED <<device, to_host, open, reading, requested_start,
                       restarts, misread>>
    BY DEF TunRead, Push
  <1>2. /\ sent' \in 0 .. MaxPackets /\ crossed' \in BOOLEAN
        /\ to_host' \in Seq({"START_DEVICE"}) /\ Len(to_host') <= RingSize
        /\ requested_start' \in BOOLEAN /\ (requested_start' => open)
    <2>1. sent' = sent + 1 /\ sent < MaxPackets
      BY DEF TunRead
    <2>2. sent \in 0 .. MaxPackets /\ MaxPackets \in Nat
      BY DEF IInv, TypeOK, HandshakeAssumption
    <2>3. sent' \in 0 .. MaxPackets
      BY <2>1, <2>2
    <2> QED
      BY <1>1, <2>3 DEF IInv, TypeOK
  <1>3. /\ queue' \in Seq(Queueable) /\ queue' # <<>>
        /\ Len(queue') = Len(queue) + 1
        /\ queue'[Len(queue) + 1] = "PACKET"
        /\ \A i \in 1 .. Len(queue) : queue'[i] = queue[i]
    BY <1>1, AppendFacts, "PACKET" \in Queueable DEF Queueable
  <1>4. /\ NoAnswer(queue') <=> NoAnswer(queue)
        /\ AtMostOne(queue) => AtMostOne(queue')
    BY <1>3 DEF NoAnswer, AtMostOne
  <1>5. ToCome(requested_start, queue', answer)
    BY <1>4 DEF ToCome
  <1>6. ~crossed' => ~crossed /\ queue'[1] # "START_HOST"
    <2> SUFFICES ASSUME ~crossed' PROVE ~crossed /\ queue'[1] # "START_HOST"
      OBVIOUS
    <2>0. ~crossed /\ ~(queue # <<>> /\ Head(queue) = "START_HOST")
      BY <1>1
    <2>1. CASE queue = <<>>
      <3>1. queue'[1] = "PACKET"
        BY <1>3, <2>1
      <3> QED
        BY <2>0, <3>1
    <2>2. CASE queue # <<>>
      <3>1. Head(queue) = queue[1] /\ queue'[1] = queue[1]
        BY <1>3, <2>2
      <3> QED
        BY <2>0, <2>2, <3>1
    <2> QED
      BY <2>1, <2>2
  <1>7. restarts = 0 /\ ~crossed'
          => One(requested_start, queue', writes.front, answer, to_device, Runs)
    BY <1>3, <1>4, <1>6 DEF One
  <1>8. /\ to_device' \in Seq(Messages) /\ answer' \in Answers
        /\ writes' \in Counts /\ (writes'.front > 0 => queue' # <<>>)
        /\ First(Waiting, requested_start, answer', to_device')
        /\ ToCome(requested_start, queue', answer')
        /\ restarts = 0 /\ ~crossed'
             => One(requested_start, queue', writes'.front, answer',
                    to_device', Runs)
    <2>1. restarts = 0 /\ ~crossed' /\ queue' # <<>>
            /\ queue'[1] = "START_HOST"
            => writes.front = 0 /\ answer \notin {"ahead", "behind"}
      BY <1>6
    <2> QED
      BY <1>1, <1>3, <1>5, <1>7, <2>1, StartWritingKeeps
  <1> QED
    BY <1>1, <1>2, <1>3, <1>8, WriteStep

LEMMA ReadyInv ==
  ASSUME HandshakeAssumption, IInv, Ready
  PROVE  IInv'
  <1> USE InvParts
  <1>1. /\ UNCHANGED <<device, to_host, open, reading, requested_start, queue,
                       sent, restarts, crossed, misread>>
        /\ to_host' \in Seq({"START_DEVICE"}) /\ Len(to_host') <= RingSize
        /\ requested_start' \in BOOLEAN /\ (requested_start' => open)
        /\ sent' \in 0 .. MaxPackets /\ crossed' \in BOOLEAN
    BY DEF Ready, IInv, TypeOK
  <1>2. /\ writes.completed \in Nat /\ writes.freed \in Nat
        /\ writes.front \in Nat
    BY DEF Counts
  <1>3. CASE /\ writes.freed > 0
             /\ writes' = [writes EXCEPT !.freed = @ - 1, !.completed = @ + 1]
             /\ Perform("REST", answer)
    <2>1. writes' \in Counts /\ writes'.front = writes.front
      BY <1>3, CountsFacts
    <2>2. answer' = answer
          /\ (to_device' = to_device \/ to_device' = Append(to_device, "REST"))
      BY <1>3 DEF Perform
    <2>3. CASE to_device' = to_device
      BY <1>1, <2>1, <2>2, <2>3, WriteStep
    <2>4. CASE to_device' = Append(to_device, "REST")
      <3>1. /\ to_device' \in Seq(Messages) /\ to_device' # <<>>
            /\ Len(to_device') = Len(to_device) + 1
            /\ to_device'[Len(to_device) + 1] = "REST"
            /\ \A i \in 1 .. Len(to_device) : to_device'[i] = to_device[i]
        BY <2>4, AppendFacts, "REST" \in Messages DEF Messages
      <3>2. First(Waiting, requested_start, answer', to_device')
        BY <2>2, <3>1 DEF First
      <3>3. NoAnswer(to_device) => NoAnswer(to_device')
        BY <3>1 DEF NoAnswer
      <3>4. AtMostOne(to_device) => AtMostOne(to_device')
        BY <3>1 DEF AtMostOne
      <3>5. restarts = 0 /\ ~crossed
              => One(requested_start, queue, writes.front, answer,
                     to_device', Runs)
        BY <3>3, <3>4 DEF One
      <3> QED
        BY <1>1, <2>1, <2>2, <3>1, <3>2, <3>5, WriteStep
    <2> QED
      BY <2>2, <2>3, <2>4
  <1>4. CASE /\ writes.front > 0
             /\ writes' = [writes EXCEPT !.front = @ - 1, !.completed = @ + 1]
             /\ Perform(Head(queue), answer)
    <2>1. writes' \in Counts /\ writes'.front = writes.front - 1
      BY <1>4, CountsFacts
    <2>2. queue # <<>> /\ Head(queue) = queue[1]
      BY <1>4
    <2>3. Performed(queue[1], answer, to_device, answer', to_device')
      BY <1>4, <2>2 DEF Perform, Performed
    <2>4. /\ to_device' \in Seq(Messages) /\ answer' \in Answers
          /\ First(Waiting, requested_start, answer', to_device')
          /\ ToCome(requested_start, queue, answer')
          /\ One(requested_start, queue, writes.front, answer, to_device, Runs)
               => One(requested_start, queue, writes.front - 1, answer',
                      to_device', Runs)
      BY <1>2, <1>4, <2>2, <2>3, PerformKeeps
    <2> QED
      BY <1>1, <2>1, <2>2, <2>4, WriteStep
  <1> QED
    BY <1>3, <1>4 DEF Ready

LEMMA WriteHandleInv ==
  ASSUME HandshakeAssumption, IInv, WriteHandle
  PROVE  IInv'
  <1> USE InvParts
  <1>1. /\ UNCHANGED <<device, to_host, open, reading, requested_start, sent,
                       restarts, crossed, misread>>
        /\ to_host' \in Seq({"START_DEVICE"}) /\ Len(to_host') <= RingSize
        /\ requested_start' \in BOOLEAN /\ (requested_start' => open)
        /\ sent' \in 0 .. MaxPackets /\ crossed' \in BOOLEAN
    BY DEF WriteHandle, IInv, TypeOK
  <1>2. /\ writes.completed \in Nat /\ writes.freed \in Nat
        /\ writes.front \in Nat /\ writes.completed > 0
    BY DEF Counts, WriteHandle
  <1> DEFINE w == [writes EXCEPT !.completed = @ - 1]
  <1>3. CASE queue = <<>>
    <2>1. writes' = w /\ UNCHANGED <<to_device, queue, answer>>
      BY <1>3 DEF WriteHandle
    <2>2. writes' \in Counts /\ writes'.front = writes.front
      BY <1>2, <2>1 DEF Counts
    <2> QED
      BY <1>1, <2>1, <2>2, WriteStep
  <1>4. CASE queue # <<>>
    <2> DEFINE v == [w EXCEPT !.freed = @ + w.front, !.front = 0]
               a == IF Head(queue) = "START_HOST" /\ answer = "none"
                    THEN "lost" ELSE answer
    <2>1. queue' = Tail(queue) /\ StartWriting(queue', v, a)
      BY <1>4 DEF WriteHandle
    <2>2. v \in Counts /\ v.front = 0
      <3>1. w \in Counts
        BY <1>2, CountsFacts
      <3> HIDE DEF w
      <3> QED
        BY <3>1, CountsFacts
    <2>3. /\ queue' \in Seq(Queueable) /\ Len(queue') = Len(queue) - 1
          /\ \A i \in 1 .. Len(queue') : queue'[i] = queue[i + 1]
          /\ Head(queue) = queue[1] /\ Len(queue) \in Nat /\ Len(queue) > 0
      BY <1>4, <2>1
    <2>4. /\ a \in Answers
          /\ a = IF queue[1] = "START_HOST" /\ answer = "none"
                 THEN "lost" ELSE answer
      BY <2>3 DEF Answers
    <2> HIDE DEF v, a
    <2>5. First(Waiting, requested_start, a, to_device)
      BY <2>4 DEF First
    <2>6. ToCome(requested_start, queue', a)
      <3>1. CASE ~requested_start
        <4>1. answer = "none" /\ NoAnswer(queue)
          BY <3>1 DEF ToCome
        <4>2. NoAnswer(queue')
          BY <2>3, <4>1 DEF NoAnswer
        <4>3. a = "none"
          BY <2>3, <2>4, <4>1 DEF NoAnswer
        <4> QED
          BY <3>1, <4>2, <4>3 DEF ToCome
      <3>2. CASE requested_start /\ a = "none"
        <4>1. answer = "none" /\ queue[1] # "START_HOST"
          BY <2>4, <3>2
        <4>2. PICK i \in 1 .. Len(queue) : queue[i] = "START_HOST"
          BY <3>2, <4>1 DEF ToCome, NoAnswer
        <4>3. i - 1 \in 1 .. Len(queue') /\ queue'[i - 1] = "START_HOST"
          <5>1. i # 1
            BY <4>1, <4>2
          <5>2. i - 1 \in 1 .. Len(queue') /\ (i - 1) + 1 = i
            BY <2>3, <5>1
          <5> QED
            BY <2>3, <4>2, <5>2
        <4> QED
          BY <3>2, <4>3 DEF ToCome, NoAnswer
      <3> QED
        BY <3>1, <3>2 DEF ToCome
    <2>7. ASSUME restarts = 0, ~crossed
          PROVE  /\ One(requested_start, queue', 0, a, to_device, Runs)
                 /\ queue' # <<>> /\ queue'[1] = "START_HOST"
                      => a \notin {"ahead", "behind"}
      <3>1. One(requested_start, queue, writes.front, answer, to_device, Runs)
        BY <2>7
      <3>2. AtMostOne(queue')
        <4> SUFFICES ASSUME NEW i \in 1 .. Len(queue'),
                            NEW j \in 1 .. Len(queue'),
                            queue'[i] = "START_HOST", queue'[j] = "START_HOST"
                     PROVE  i = j
          BY DEF AtMostOne
        <4>1. /\ i + 1 \in 1 .. Len(queue) /\ j + 1 \in 1 .. Len(queue)
              /\ queue[i + 1] = "START_HOST" /\ queue[j + 1] = "START_HOST"
          BY <2>3
        <4>2. i + 1 = j + 1
          BY <3>1, <4>1 DEF One, AtMostOne
        <4> QED
          BY <2>3, <4>2
      <3>3. NoAnswer(queue) => NoAnswer(queue')
        BY <2>3 DEF NoAnswer
      <3>4. queue[1] = "START_HOST" \/ answer \in {"ahead", "behind"}
              => NoAnswer(queue')
        <4> SUFFICES ASSUME queue[1] = "START_HOST"
                              \/ answer \in {"ahead", "behind"},
                            NEW i \in 1 .. Len(queue'),
                            queue'[i] = "START_HOST"
                     PROVE  FALSE
          BY DEF NoAnswer
        <4>1. /\ i + 1 \in 1 .. Len(queue) /\ queue[i + 1] = "START_HOST"
              /\ 1 \in 1 .. Len(queue) /\ i + 1 # 1
          BY <2>3
        <4> QED
          BY <3>1, <4>1 DEF One, AtMostOne
      <3>5. a = "lost" => NoAnswer(queue')
        BY <2>4, <3>1, <3>3, <3>4 DEF One
      <3>6. a \in {"ahead", "behind"} => NoAnswer(queue')
        BY <2>4, <3>4
      <3>7. queue' # <<>> => 1 \in 1 .. Len(queue')
        BY <2>3
      <3>8. a \in {"none", "lost"} => NoAnswer(to_device) /\ ~Runs
        BY <2>4, <3>1 DEF One
      <3> QED
        BY <2>4, <3>1, <3>2, <3>5, <3>6, <3>7, <3>8 DEF One, NoAnswer
    <2>8. /\ to_device' \in Seq(Messages) /\ answer' \in Answers
          /\ writes' \in Counts /\ (writes'.front > 0 => queue' # <<>>)
          /\ First(Waiting, requested_start, answer', to_device')
          /\ ToCome(requested_start, queue', answer')
          /\ restarts = 0 /\ ~crossed
               => One(requested_start, queue', writes'.front, answer',
                      to_device', Runs)
      <3>1. v.front > 0 => queue' # <<>>
        BY <2>2
      <3>2. restarts = 0 /\ ~crossed
              => One(requested_start, queue', v.front, a, to_device, Runs)
        BY <2>2, <2>7
      <3>3. restarts = 0 /\ ~crossed /\ queue' # <<>>
              /\ queue'[1] = "START_HOST"
              => v.front = 0 /\ a \notin {"ahead", "behind"}
        BY <2>2, <2>7
      <3> QED
        BY <2>1, <2>2, <2>3, <2>4, <2>5, <2>6, <3>1, <3>2, <3>3,
           StartWritingKeeps
    <2> QED
      BY <1>1, <2>3, <2>8, WriteStep
  <1> QED
    BY <1>3, <1>4

LEMMA ReadSomeInv ==
  ASSUME HandshakeAssumption, IInv, ReadSome
  PROVE  IInv'
  <1> USE InvParts
  <1>1. PICK n \in 1 .. Len(to_device) : to_device' \in Rest(n)
    BY DEF ReadSome
  <1>2. to_device' \in Seq(Messages)
    BY <1>1, RestOfLine
  <1>3. UNCHANGED <<to_host, open, reading, requested_start, queue, writes,
                    sent, restarts, answer, crossed>>
    BY DEF ReadSome, daemonVars
  <1>4. /\ device' \in {"announcing", "running"}
        /\ misread' \in BOOLEAN
        /\ device' = "announcing" => to_device[1] # "START_HOST"
        /\ device' = "running" /\ ~misread' => to_device[1] = "START_HOST"
    BY DEF ReadSome, IInv, TypeOK
  <1>5. TypeOK'
    BY <1>2, <1>3, <1>4 DEF IInv, TypeOK, Messages, Queueable
  <1>6. AnswerFirst'
    <2>1. device = "listening"
      BY DEF ReadSome
    <2> QED
      BY <1>3, <1>4, <2>1 DEF AnswerFirst, First, Waiting
  <1>7. AnswerToCome'
    BY <1>3 DEF AnswerToCome
  <1>8. OneAnswer'
    <2> SUFFICES ASSUME restarts = 0, ~crossed
                 PROVE  One(requested_start, queue, writes.front, answer,
                            to_device', Runs')
      BY <1>3 DEF OneAnswer
    <2>1. One(requested_start, queue, writes.front, answer, to_device, Runs)
      OBVIOUS
    <2>2. PICK d \in {n, n - 1} :
            \A i \in 1 .. Len(to_device') : to_device'[i] = "START_HOST" =>
              /\ i + d \in n + 1 .. Len(to_device)
              /\ to_device[i + d] = "START_HOST"
      BY <1>1, RestOfLine
    <2>3. NoAnswer(to_device) => NoAnswer(to_device')
      BY <1>1, <2>2, SMTT(40) DEF NoAnswer
    <2>4. AtMostOne(to_device')
      <3> SUFFICES ASSUME NEW i \in 1 .. Len(to_device'),
                          NEW j \in 1 .. Len(to_device'),
                          to_device'[i] = "START_HOST",
                          to_device'[j] = "START_HOST"
                   PROVE  i = j
        BY DEF AtMostOne
      <3>1. i + d = j + d
        BY <1>1, <2>1, <2>2 DEF One, AtMostOne
      <3> QED
        BY <1>1, <1>2, <3>1
    <2>5. Runs' => to_device[1] = "START_HOST" /\ 1 \in 1 .. Len(to_device)
      BY <1>1, <1>4 DEF Runs
    <2>6. Runs' => NoAnswer(to_device')
      <3> SUFFICES ASSUME Runs', NEW i \in 1 .. Len(to_device'),
                          to_device'[i] = "START_HOST"
                   PROVE  FALSE
        BY DEF NoAnswer
      <3>1. i + d \in n + 1 .. Len(to_device)
            /\ to_device[i + d] = "START_HOST"
        BY <2>2
      <3>2. i + d = 1
        BY <1>1, <2>1, <2>5, <3>1 DEF One, AtMostOne
      <3> QED
        BY <1>1, <3>1, <3>2
    <2>7. answer \in {"none", "lost"} => NoAnswer(to_device') /\ ~Runs'
      BY <2>1, <2>3, <2>5 DEF One, NoAnswer
    <2>8. ~requested_start => NoAnswer(to_device')
      BY <2>1, <2>3 DEF One
    <2> QED
      BY <2>1, <2>4, <2>6, <2>7, <2>8 DEF One
  <1> QED
    BY <1>5, <1>6, <1>7, <1>8 DEF IInv

LEMMA ReceiveInv ==
  ASSUME HandshakeAssumption, IInv, Receive
  PROVE  IInv'
  <1> USE InvParts
  <1>1. /\ to_device' \in Seq(Messages)
        /\ Len(to_device') = Len(to_device) - 1
        /\ \A i \in 1 .. Len(to_device') : to_device'[i] = to_device[i + 1]
    BY DEF Receive
  <1>2. /\ device = "running"
        /\ UNCHANGED <<device, to_host, open, reading, requested_start, queue,
                       writes, sent, restarts, answer, crossed, misread>>
    BY DEF Receive, daemonVars, history
  <1>3. TypeOK'
    BY <1>1, <1>2 DEF IInv, TypeOK, Messages
  <1>4. AnswerFirst'
    BY <1>2 DEF AnswerFirst, First, Waiting
  <1>5. AnswerToCome'
    BY <1>2 DEF AnswerToCome
  <1>6. NoAnswer(to_device) => NoAnswer(to_device')
    BY <1>1 DEF NoAnswer
  <1>7. AtMostOne(to_device) => AtMostOne(to_device')
    <2> SUFFICES ASSUME AtMostOne(to_device),
                        NEW i \in 1 .. Len(to_device'),
                        NEW j \in 1 .. Len(to_device'),
                        to_device'[i] = "START_HOST",
                        to_device'[j] = "START_HOST"
                 PROVE  i = j
      BY DEF AtMostOne
    <2>1. i + 1 = j + 1
      BY <1>1 DEF AtMostOne
    <2> QED
      BY <1>1, <2>1
  <1>8. OneAnswer'
    <2>1. Runs' = Runs
      BY <1>2 DEF Runs
    <2> QED
      BY <1>2, <1>6, <1>7, <2>1 DEF OneAnswer, One
  <1> QED
    BY <1>3, <1>4, <1>5, <1>8 DEF IInv

\* After a restart of either end nothing is claimed of the line's contents.
LEMMA RestartInv ==
  ASSUME HandshakeAssumption, IInv, Reset \/ End
  PROVE  IInv'
  <1> USE DEF HandshakeAssumption
  <1>1. /\ to_device' \in Seq(Messages)
        /\ to_host' \in Seq({"START_DEVICE"})
        /\ Len(to_host') <= RingSize
    <2>1. to_device \in Seq(Messages) /\ to_host \in Seq({"START_DEVICE"})
          /\ Len(to_host) <= RingSize
      BY DEF IInv, TypeOK, Messages
    <2>2. CASE Reset
      <3>1. PICK k \in 0 .. Len(to_device) :
              to_device' = SubSeq(to_device, k + 1, Len(to_device))
        BY <2>2 DEF Reset
      <3>2. PICK m \in 0 .. Len(to_host) : to_host' = SubSeq(to_host, 0 + 1, m)
        BY <2>2 DEF Reset
      <3>3. to_device' \in Seq(Messages)
        BY <2>1, <3>1, PartOfLine, Len(to_device) \in 0 .. Len(to_device)
      <3>4. to_host' \in Seq({"START_DEVICE"}) /\ Len(to_host') <= Len(to_host)
        BY <2>1, <3>2, PartOfLine, 0 \in 0 .. Len(to_host)
      <3> QED
        BY <2>1, <3>3, <3>4
    <2>3. CASE End
      <3>1. PICK k \in 0 .. Len(to_device) :
              to_device' = SubSeq(to_device, 0 + 1, k)
        BY <2>3 DEF End
      <3>2. PICK m \in 0 .. Len(to_host) :
              to_host' = SubSeq(to_host, m + 1, Len(to_host))
        BY <2>3 DEF End
      <3>3. to_device' \in Seq(Messages)
        BY <2>1, <3>1, PartOfLine, 0 \in 0 .. Len(to_device)
      <3>4. to_host' \in Seq({"START_DEVICE"}) /\ Len(to_host') <= Len(to_host)
        BY <2>1, <3>2, PartOfLine, Len(to_host) \in 0 .. Len(to_host)
      <3> QED
        BY <2>1, <3>3, <3>4
    <2> QED
      BY <2>2, <2>3
  <1>2. restarts' # 0 /\ restarts' \in 0 .. MaxRestarts
    <2>1. restarts < MaxRestarts /\ restarts' = restarts + 1
      BY DEF Reset, End
    <2>2. restarts \in 0 .. MaxRestarts /\ MaxRestarts \in Nat
      BY DEF IInv, TypeOK
    <2> QED
      BY <2>1, <2>2
  <1>3. OneAnswer'
    BY <1>2 DEF OneAnswer
  <1>4. CASE Reset
    <2>1. /\ UNCHANGED <<open, requested_start, queue, writes, sent, crossed>>
          /\ device' = "announcing" /\ misread' = FALSE
          /\ reading' \in {reading, FALSE}
          /\ answer' = IF answer \in {"ahead", "behind"} THEN "missed"
                       ELSE answer
      BY <1>4 DEF Reset
    <2>2. reading' \in BOOLEAN /\ (reading' => open')
      <3>1. CASE reading' = reading
        BY <2>1, <3>1 DEF IInv, TypeOK
      <3>2. CASE reading' = FALSE
        BY <3>2
      <3> QED
        BY <2>1, <3>1, <3>2
    <2>3. answer' \in Answers
      BY <2>1 DEF IInv, TypeOK, Answers
    <2>4. TypeOK'
      BY <1>1, <1>2, <2>1, <2>2, <2>3 DEF IInv, TypeOK, Messages
    <2>5. AnswerFirst'
      BY <2>1 DEF AnswerFirst, First
    <2>6. AnswerToCome'
      BY <2>1 DEF IInv, AnswerToCome, ToCome
    <2> QED
      BY <1>3, <2>4, <2>5, <2>6 DEF IInv
  <1>5. CASE End
    <2>1. /\ UNCHANGED <<device, sent, crossed, misread>>
          /\ open' = FALSE /\ reading' = FALSE /\ requested_start' = FALSE
          /\ queue' = <<>> /\ writes' = NoWrites /\ answer' = "none"
      BY <1>5 DEF End
    <2>2. /\ writes' \in Counts /\ ~(writes'.front > 0)
          /\ queue' \in Seq(Queueable) /\ Len(queue') = 0
      BY <2>1 DEF Counts, NoWrites
    <2>3. TypeOK'
      BY <1>1, <1>2, <2>1, <2>2
         DEF IInv, TypeOK, Messages, Queueable, Counts, Answers
    <2>4. AnswerFirst'
      BY <2>1 DEF AnswerFirst, First
    <2>5. AnswerToCome'
      BY <2>1, <2>2 DEF AnswerToCome, ToCome, NoAnswer
    <2> QED
      BY <1>3, <2>3, <2>4, <2>5 DEF IInv
  <1> QED
    BY <1>4, <1>5

\* The steps that leave the line to the device and the queue alone.
LEMMA OtherInv ==
  ASSUME HandshakeAssumption, IInv,
         PushStartDevice \/ ReadNothing \/ Open \/ UNCHANGED vars
  PROVE  IInv'
  <1>1. /\ UNCHANGED <<to_device, requested_start, queue, writes, answer,
                       restarts, crossed, misread>>
        /\ device' = "running" <=> device = "running"
    BY DEF PushStartDevice, ReadNothing, Open, vars, queueVars, daemonVars,
           history, IInv, TypeOK, ToCome, AnswerToCome
  <1>2. Runs' <=> Runs
    BY <1>1 DEF Runs
  <1>3. Waiting' <=> Waiting
    <2>1. device' \in {"announcing", "listening", "running"}
      BY DEF PushStartDevice, ReadNothing, Open, vars, IInv, TypeOK
    <2> QED
      BY <1>1, <2>1 DEF Waiting, IInv, TypeOK
  <1>4. AnswerFirst'
    BY <1>1, <1>3 DEF IInv, AnswerFirst, First
  <1>5. AnswerToCome'
    BY <1>1 DEF IInv, AnswerToCome
  <1>6. OneAnswer'
    BY <1>1, <1>2 DEF IInv, OneAnswer, One
  <1>7. TypeOK'
    <2>1. CASE PushStartDevice
      <3>1. to_host' \in Seq({"START_DEVICE"}) /\ Len(to_host') <= RingSize
        BY <2>1 DEF PushStartDevice, HandshakeAssumption, IInv, TypeOK
      <3> QED
        BY <2>1, <3>1 DEF PushStartDevice, daemonVars, history, IInv, TypeOK
    <2>2. CASE ReadNothing
      BY <2>2 DEF ReadNothing, daemonVars, history, IInv, TypeOK
    <2>3. CASE Open
      BY <2>3 DEF Open, queueVars, IInv, TypeOK
    <2>4. CASE UNCHANGED vars
      BY <2>4 DEF vars, daemonVars, history, IInv, TypeOK
    <2> QED
      BY <2>1, <2>2, <2>3, <2>4
  <1> QED
    BY <1>4, <1>5, <1>6, <1>7 DEF IInv

LEMMA NextIInv ==
  ASSUME HandshakeAssumption, IInv, [Next]_vars
  PROVE  IInv'
  BY OtherInv, ReadSomeInv, ReceiveInv, RestartInv, HandleStartDeviceInv,
     TunReadInv, ReadyInv, WriteHandleInv DEF Next, Device, Daemon

THEOREM HandshakeIInv == Spec => []IInv
  <1>1. HandshakeAssumption
    BY HandshakeAssumption
  <1> QED
    BY <1>1, InitIInv, NextIInv, PTL DEF Spec

(***************************************************************************)
(* The types, with the ring never over its size, and a write under way on  *)
(* the front only while there is one.                                      *)
(***************************************************************************)
THEOREM HandshakeTypeOK == Spec => []TypeOK
  BY HandshakeIInv, PTL DEF IInv

(***************************************************************************)
(* A device waits in vain only after a reset of its own, or when the       *)
(* answer came behind a packet or was popped before it was written.        *)
(***************************************************************************)
THEOREM HandshakeStuckNeedsCause == Spec => []StuckNeedsCause
  <1>1. ASSUME IInv PROVE StuckNeedsCause
    <2> SUFFICES ASSUME Waiting, requested_start,
                        "START_HOST" \notin ToSet(to_device),
                        answer \notin {"behind", "lost", "missed"}
                 PROVE  answer = "none" /\ "START_HOST" \in ToSet(queue)
      BY DEF StuckNeedsCause
    <2>1. answer # "ahead"
      <3> SUFFICES ASSUME answer = "ahead" PROVE FALSE
        OBVIOUS
      <3>1. to_device # <<>> /\ to_device[1] = "START_HOST"
        BY <1>1, InvParts DEF First
      <3>2. 1 \in DOMAIN to_device
        BY <1>1, <3>1, InvParts
      <3> QED
        BY <3>1, <3>2 DEF ToSet
    <2>2. answer = "none"
      BY <1>1, <2>1, InvParts DEF Answers
    <2>3. \E i \in 1 .. Len(queue) : queue[i] = "START_HOST"
      BY <1>1, <2>2, InvParts DEF ToCome, NoAnswer
    <2> QED
      BY <1>1, <2>2, <2>3, InvParts DEF ToSet
  <1> QED
    BY <1>1, HandshakeIInv, PTL

(***************************************************************************)
(* Without restarts, and without a packet pushed while START_HOST is in    *)
(* front of the queue, no answer reaches a device that runs.               *)
(***************************************************************************)
THEOREM HandshakeNoStrayAnswer == Spec => []NoStrayAnswer
  <1>1. ASSUME IInv PROVE NoStrayAnswer
    <2> SUFFICES ASSUME restarts = 0, ~crossed, Runs
                 PROVE  "START_HOST" \notin ToSet(to_device)
      BY DEF NoStrayAnswer, Runs
    <2>1. NoAnswer(to_device)
      BY <1>1, InvParts DEF One
    <2> QED
      BY <1>1, <2>1, InvParts DEF NoAnswer, ToSet
  <1> QED
    BY <1>1, HandshakeIInv, PTL
=============================================================================
