---------------------------- MODULE CkRing_proofs ----------------------------
(***************************************************************************)
(* The ring implements the bounded FIFO queue, for any number of workers,  *)
(* any size of the ring and any width of the counters that the size        *)
(* divides.                                                                *)
(*                                                                         *)
(* The invariant behind it: an accepted enqueue is counted in next, so the *)
(* head can have moved past a consumer's snapshot by fewer than next       *)
(* entries.  Since fewer than CounterMod values are ever enqueued, a head  *)
(* that equals the snapshot has not moved at all; then the entry the       *)
(* consumer saw is still queued, its slot has not been reused, and the     *)
(* copy it took is the head of the queue.                                  *)
(***************************************************************************)
EXTENDS CkRing, Integers, SequenceTheorems, TLAPS

Ahead(a, b) == (b + CounterMod - a) % CounterMod

ProducerInv ==
  /\ Used <= next - 1
  /\ ppc # "idle" => Used < Size - 1 /\ next \in Events
  /\ ppc = "publish" => buffer[Slot(p_tail)] = next

ConsumerInv(c) ==
  /\ cpc[c] # "idle" => Ahead(consumer[c], c_head) + Used <= next - 1
  /\ cpc[c] \in {"copy", "cas"} /\ consumer[c] = c_head => Used > 0
  /\ cpc[c] = "cas" /\ consumer[c] = c_head => data[c] = buffer[Slot(c_head)]

RingInv == TypeOK /\ ProducerInv /\ \A c \in Consumers : ConsumerInv(c)

-----------------------------------------------------------------------------
(* The counters: adding one and the distance, without the remainder.       *)

Counters == 0..(CounterMod - 1)

(* What the remainder is, for the provers.                                 *)
LEMMA Division ==
  ASSUME NEW n \in Nat \ {0}, NEW x \in Nat
  PROVE  x = n * (x \div n) + (x % n) /\ x % n \in 0..(n - 1) /\ x \div n \in Nat
  OBVIOUS

LEMMA Remainder ==
  ASSUME NEW n \in Nat \ {0}, NEW q \in Int, NEW r \in 0..(n - 1)
  PROVE  (n * q + r) % n = r
  OBVIOUS

LEMMA Sizes == Size \in Nat /\ Size > 1 /\ CounterMod \in Nat /\ CounterMod > Size
  BY RingAssumption

LEMMA Wrap ==
  ASSUME NEW n \in Nat \ {0}, NEW x \in 0..(2 * n - 1)
  PROVE  x % n = IF x < n THEN x ELSE x - n
  OBVIOUS

LEMMA IncValue ==
  ASSUME NEW n \in Counters
  PROVE  /\ Inc(n) = IF n + 1 = CounterMod THEN 0 ELSE n + 1
         /\ Inc(n) \in Counters
<1> DEFINE x == n + 1
<1>1. CounterMod \in Nat \ {0} /\ x \in 0..(2 * CounterMod - 1)
  BY RingAssumption DEF Counters
<1> HIDE DEF x
<1>2. x % CounterMod = IF x < CounterMod THEN x ELSE x - CounterMod
  BY <1>1, Wrap
<1> QED
  BY <1>1, <1>2 DEF Inc, Counters, x

LEMMA AheadValue ==
  ASSUME NEW a \in Counters, NEW b \in Counters
  PROVE  /\ Ahead(a, b) = IF a <= b THEN b - a ELSE b - a + CounterMod
         /\ Ahead(a, b) \in Counters
<1> DEFINE x == b + CounterMod - a
<1>1. CounterMod \in Nat \ {0} /\ x \in 0..(2 * CounterMod - 1)
  BY RingAssumption DEF Counters
<1> HIDE DEF x
<1>2. x % CounterMod = IF x < CounterMod THEN x ELSE x - CounterMod
  BY <1>1, Wrap
<1> QED
  BY <1>1, <1>2 DEF Ahead, Counters, x

LEMMA UsedIsAhead == Used = Ahead(c_head, p_tail)
  BY DEF Used, Ahead

-----------------------------------------------------------------------------
(* The slots: the mask forgets multiples of the size, and entries fewer    *)
(* than Size apart have different slots.                                   *)

LEMMA SlotRange ==
  ASSUME NEW x \in Nat
  PROVE  Slot(x) \in 0..(Size - 1)
  BY RingAssumption, Division DEF Slot

LEMMA SlotPeriod ==
  ASSUME NEW x \in Nat, NEW q \in Nat
  PROVE  Slot(x + Size * q) = Slot(x)
<1> DEFINE d == x \div Size
           r == x % Size
<1>1. x = Size * d + r /\ r \in 0..(Size - 1) /\ d \in Nat
  BY RingAssumption, Division
<1> HIDE DEF d, r
<1>2. Size * (d + q) = Size * d + Size * q
  BY <1>1, RingAssumption
<1>3. x + Size * q = Size * (d + q) + r
  <2>1. Size * d \in Nat /\ Size * q \in Nat
    BY <1>1, RingAssumption
  <2> QED
    BY <2>1, <1>1, <1>2
<1>4. (Size * (d + q) + r) % Size = r
  BY <1>1, RingAssumption, Remainder
<1> QED
  BY <1>3, <1>4 DEF Slot, r

LEMMA SlotWrap ==
  ASSUME NEW x \in Nat
  PROVE  Slot(x + CounterMod) = Slot(x) /\ Slot(x + Size) = Slot(x)
<1> DEFINE q == CounterMod \div Size
<1>1. CounterMod = Size * q /\ q \in Nat
  BY RingAssumption, Division
<1>2. Size = Size * 1
  BY RingAssumption
<1> HIDE DEF q
<1> QED
  BY <1>1, <1>2, SlotPeriod

LEMMA SlotsDiffer ==
  ASSUME NEW x \in Nat, NEW e \in 1..(Size - 1)
  PROVE  Slot(x + e) # Slot(x)
<1> DEFINE d == x \div Size
           r == x % Size
<1>1. x = Size * d + r /\ r \in 0..(Size - 1) /\ d \in Nat
  BY RingAssumption, Division
<1> HIDE DEF d, r
<1>s. Size * d \in Nat /\ Size \in Nat \ {0}
  BY <1>1, RingAssumption
<1>2. CASE r + e < Size
  <2>1. x + e = Size * d + (r + e) /\ r + e \in 0..(Size - 1)
    BY <1>1, <1>2, <1>s
  <2>2. (x + e) % Size = r + e
    BY <2>1, <1>1, <1>s, Remainder
  <2> QED
    BY <2>2, <1>1 DEF Slot, r
<1>3. CASE r + e >= Size
  <2> DEFINE u == r + e - Size
             p == d + 1
  <2>1. Size * p = Size * d + Size
    BY <1>1, <1>s
  <2>2. x + e = Size * p + u /\ u \in 0..(Size - 1) /\ p \in Int /\ u # r
    BY <1>1, <1>3, <1>s, <2>1
  <2> HIDE DEF u, p
  <2>3. (Size * p + u) % Size = u
    BY <2>2, <1>s, Remainder
  <2> QED
    BY <2>2, <2>3 DEF Slot, r
<1> QED
  BY <1>1, <1>2, <1>3, <1>s

LEMMA SlotInc ==
  ASSUME NEW n \in Counters, NEW j \in Nat
  PROVE  Slot(Inc(n) + j) = Slot(n + 1 + j)
<1>1. CASE n + 1 = CounterMod
  BY <1>1, IncValue, SlotWrap, RingAssumption DEF Counters
<1>2. CASE n + 1 # CounterMod
  BY <1>2, IncValue, RingAssumption DEF Counters
<1> QED
  BY <1>1, <1>2

(* The slot of the tail is Used slots after the head's.                    *)
LEMMA SlotTail ==
  ASSUME c_head \in Counters, p_tail \in Counters
  PROVE  /\ Slot(p_tail) = Slot(c_head + Used)
         /\ Slot(Inc(p_tail)) = Slot(c_head + Used + 1)
         /\ Used \in Counters
<1>1. /\ Used = IF c_head <= p_tail THEN p_tail - c_head
                                   ELSE p_tail - c_head + CounterMod
      /\ Used \in Counters
  BY AheadValue, UsedIsAhead
<1>2. c_head + Used = p_tail \/ c_head + Used = p_tail + CounterMod
  BY <1>1, RingAssumption DEF Counters
<1>3. Slot(Inc(p_tail)) = Slot(p_tail + 1)
  <2>1. Inc(p_tail) \in Nat /\ Inc(p_tail) + 0 = Inc(p_tail) /\ p_tail + 1 + 0 = p_tail + 1
    BY IncValue DEF Counters
  <2> QED
    BY <2>1, SlotInc
<1>4. /\ Slot(p_tail) = Slot(p_tail + CounterMod)
      /\ Slot(p_tail + 1) = Slot(p_tail + 1 + CounterMod)
  BY SlotWrap DEF Counters
<1>5. CASE c_head + Used = p_tail
  BY <1>1, <1>3, <1>5
<1>6. CASE c_head + Used = p_tail + CounterMod
  <2>1. c_head + Used + 1 = p_tail + 1 + CounterMod
    BY <1>1, <1>6, RingAssumption DEF Counters
  <2> QED
    BY <1>1, <1>3, <1>4, <1>6, <2>1
<1> QED
  BY <1>2, <1>5, <1>6

-----------------------------------------------------------------------------
(* One more at the far end, one fewer at the near end.                     *)
LEMMA AheadGrows ==
  ASSUME NEW a \in Counters, NEW b \in Counters, Ahead(a, b) < CounterMod - 1
  PROVE  Ahead(a, Inc(b)) = Ahead(a, b) + 1
<1>1. Inc(b) \in Counters /\ Inc(b) = IF b + 1 = CounterMod THEN 0 ELSE b + 1
  BY IncValue
<1>2. Ahead(a, b) = IF a <= b THEN b - a ELSE b - a + CounterMod
  BY AheadValue
<1>3. Ahead(a, Inc(b)) = IF a <= Inc(b) THEN Inc(b) - a ELSE Inc(b) - a + CounterMod
  BY <1>1, AheadValue
<1> QED
  BY <1>1, <1>2, <1>3, Sizes DEF Counters

LEMMA AheadShrinks ==
  ASSUME NEW a \in Counters, NEW b \in Counters, Ahead(a, b) > 0
  PROVE  Ahead(Inc(a), b) = Ahead(a, b) - 1
<1>1. Inc(a) \in Counters /\ Inc(a) = IF a + 1 = CounterMod THEN 0 ELSE a + 1
  BY IncValue
<1>2. Ahead(a, b) = IF a <= b THEN b - a ELSE b - a + CounterMod
  BY AheadValue
<1>3. Ahead(Inc(a), b) = IF Inc(a) <= b THEN b - Inc(a) ELSE b - Inc(a) + CounterMod
  BY <1>1, AheadValue
<1> QED
  BY <1>1, <1>2, <1>3, Sizes DEF Counters

LEMMA AheadZero ==
  ASSUME NEW a \in Counters, NEW b \in Counters
  PROVE  Ahead(a, b) = 0 <=> a = b
<1>1. Ahead(a, b) = IF a <= b THEN b - a ELSE b - a + CounterMod
  BY AheadValue
<1> QED
  BY <1>1, Sizes DEF Counters

Ranges ==
  /\ c_head \in Counters /\ p_tail \in Counters
  /\ Used \in 0..(Size - 1) /\ Used \in Counters
  /\ next \in Nat /\ next <= CounterMod
  /\ \A c \in Consumers : consumer[c] \in Counters
  /\ Slot(c_head) \in 0..(Size - 1) /\ Slot(p_tail) \in 0..(Size - 1)

LEMMA TypeFacts == TypeOK => Ranges
<1> SUFFICES ASSUME TypeOK PROVE Ranges
  OBVIOUS
<1>1. c_head \in Counters /\ p_tail \in Counters
  BY DEF TypeOK, Counters
<1>2. Used \in Counters
  BY <1>1, SlotTail
<1>3. Slot(c_head) \in 0..(Size - 1) /\ Slot(p_tail) \in 0..(Size - 1)
  BY <1>1, SlotRange DEF Counters
<1> QED
  BY <1>1, <1>2, <1>3, RingAssumption DEF TypeOK, Counters, Ranges

(* A step that leaves the counters and the slots alone leaves the queue.   *)
LEMMA SameQueue ==
  ASSUME UNCHANGED <<c_head, p_tail, buffer>>
  PROVE  Used' = Used /\ Queue' = Queue
  BY DEF Used, Queue, Slot

(* The ring starts empty and nobody is in a call.                          *)
LEMMA RingStart == Init => RingInv
<1> SUFFICES ASSUME Init PROVE RingInv
  OBVIOUS
<1>1. c_head \in Counters /\ p_tail = c_head
  BY RingAssumption DEF Init, Counters
<1>2. Used = 0
  BY <1>1, AheadZero, UsedIsAhead
<1>3. TypeOK
  BY <1>1, <1>2, RingAssumption DEF TypeOK, Init, Counters, Events
<1> QED
  BY <1>2, <1>3 DEF RingInv, ProducerInv, ConsumerInv, Init

(* The producer: Used grows only when a value is published, and then there *)
(* was room; the slot it writes is none that a queued value occupies.      *)
LEMMA RingProducer ==
  ASSUME RingInv, Producer
  PROVE  RingInv'
<1>r. Ranges /\ Size \in Nat /\ Size > 1 /\ CounterMod \in Nat /\ CounterMod > Size
  BY TypeFacts, Sizes DEF RingInv
<1> USE <1>r DEF RingInv, Ranges
<1>1. CASE EnqueueCheck
  <2>1. Used' = Used /\ Queue' = Queue
    BY <1>1, SameQueue DEF EnqueueCheck
  <2>2. ppc' # "idle" => Used < Size - 1 /\ next \in Events
    <3> SUFFICES ASSUME Used = Size - 1, Slot(Inc(p_tail)) # Slot(c_head) PROVE FALSE
      BY <1>1, Sizes DEF EnqueueCheck
    <3>1. c_head \in Nat /\ c_head + Used + 1 = c_head + Size
      BY Sizes DEF Counters
    <3>2. Slot(Inc(p_tail)) = Slot(c_head + Size)
      BY <3>1, SlotTail
    <3> QED
      BY <3>1, <3>2, SlotWrap
  <2>3. TypeOK'
    BY <1>1, <2>1 DEF EnqueueCheck, consumerVars, TypeOK
  <2>4. ProducerInv'
    BY <1>1, <2>1, <2>2 DEF EnqueueCheck, ProducerInv, TypeOK
  <2>5. ASSUME NEW c \in Consumers PROVE ConsumerInv(c)'
    BY <1>1, <2>1 DEF EnqueueCheck, consumerVars, ConsumerInv, Ahead
  <2> QED
    BY <2>3, <2>4, <2>5
<1>2. CASE EnqueueWrite
  <2>1. Used' = Used
    BY <1>2 DEF EnqueueWrite, Used
  <2>2. Used < Size - 1 /\ next \in Events
    BY <1>2 DEF EnqueueWrite, ProducerInv
  <2>3. TypeOK'
    BY <1>2, <2>1, <2>2 DEF EnqueueWrite, consumerVars, TypeOK
  <2>4. ProducerInv'
    BY <1>2, <2>1, <2>2 DEF EnqueueWrite, ProducerInv, TypeOK, Slot
  <2>5. Used > 0 => Slot(p_tail) # Slot(c_head)
    BY <2>2, SlotTail, SlotsDiffer DEF Counters
  <2>6. Used > 0 => buffer'[Slot(c_head)] = buffer[Slot(c_head)]
    BY <1>2, <2>5 DEF EnqueueWrite, TypeOK
  <2>7. ASSUME NEW c \in Consumers PROVE ConsumerInv(c)'
    BY <1>2, <2>1, <2>6 DEF EnqueueWrite, consumerVars, ConsumerInv, Ahead, Slot
  <2> QED
    BY <2>3, <2>4, <2>7
<1>3. CASE EnqueuePublish
  <2>1. Used < Size - 1 /\ next \in Events
    BY <1>3 DEF EnqueuePublish, ProducerInv
  <2>2. Used' = Used + 1
    BY <1>3, <2>1, AheadGrows, RingAssumption DEF EnqueuePublish, Used, Ahead
  <2>3. TypeOK'
    <3>1. p_tail' \in Counters
      BY <1>3, IncValue DEF EnqueuePublish
    <3>2. next' \in 1..(MaxEvents + 1)
      BY <1>3, <2>1, RingAssumption DEF EnqueuePublish, Events
    <3> QED
      BY <1>3, <2>1, <2>2, <3>1, <3>2 DEF EnqueuePublish, consumerVars, TypeOK, Counters
  <2>4. ProducerInv'
    BY <1>3, <2>2 DEF EnqueuePublish, ProducerInv
  <2>5. ASSUME NEW c \in Consumers PROVE ConsumerInv(c)'
    <3>1. Ahead(consumer[c], c_head) \in Counters
      BY AheadValue
    <3>2. Ahead(consumer[c], c_head) \in Nat
      BY <3>1 DEF Counters
    <3> QED
      BY <1>3, <2>2, <3>2 DEF EnqueuePublish, consumerVars, ConsumerInv, Ahead, Slot
  <2> QED
    BY <2>3, <2>4, <2>5
<1> QED
  BY <1>1, <1>2, <1>3 DEF Producer

(* A consumer: only a compare-and-swap that succeeds moves the head, and   *)
(* then every snapshot is one entry older.                                 *)
LEMMA RingConsumer ==
  ASSUME RingInv, NEW c \in Consumers, Consumer(c)
  PROVE  RingInv'
<1>r. Ranges /\ Size \in Nat /\ Size > 1 /\ CounterMod \in Nat /\ CounterMod > Size
  BY TypeFacts, Sizes DEF RingInv
<1> USE <1>r DEF RingInv, Ranges
<1>1. CASE DequeueStart(c)
  <2>1. Used' = Used
    BY <1>1 DEF DequeueStart, producerVars, Used
  <2>2. TypeOK'
    BY <1>1, <2>1 DEF DequeueStart, producerVars, TypeOK, Counters
  <2>3. ProducerInv'
    BY <1>1, <2>1 DEF DequeueStart, producerVars, ProducerInv, Slot
  <2>4. ASSUME NEW d \in Consumers PROVE ConsumerInv(d)'
    <3>1. CASE d = c
      <4>1. Ahead(c_head, c_head) = 0
        BY AheadZero
      <4> QED
        BY <1>1, <2>1, <3>1, <4>1 DEF DequeueStart, producerVars, TypeOK, ConsumerInv, ProducerInv, Ahead
    <3>2. CASE d # c
      BY <1>1, <2>1, <3>2 DEF DequeueStart, producerVars, TypeOK, ConsumerInv, Ahead, Slot
    <3> QED
      BY <3>1, <3>2
  <2> QED
    BY <2>2, <2>3, <2>4
<1>2. CASE DequeueTail(c)
  <2>1. Used' = Used
    BY <1>2 DEF DequeueTail, producerVars, Used
  <2>2. TypeOK'
    BY <1>2, <2>1 DEF DequeueTail, producerVars, TypeOK, Counters
  <2>3. ProducerInv'
    BY <1>2, <2>1 DEF DequeueTail, producerVars, ProducerInv, Slot
  <2>4. ASSUME NEW d \in Consumers PROVE ConsumerInv(d)'
    <3>1. CASE d = c
      <4>1. p_tail # c_head => Used > 0
        BY AheadZero, UsedIsAhead
      <4> QED
        BY <1>2, <2>1, <3>1, <4>1 DEF DequeueTail, producerVars, TypeOK, ConsumerInv, Ahead
    <3>2. CASE d # c
      BY <1>2, <2>1, <3>2 DEF DequeueTail, producerVars, TypeOK, ConsumerInv, Ahead, Slot
    <3> QED
      BY <3>1, <3>2
  <2> QED
    BY <2>2, <2>3, <2>4
<1>3. CASE DequeueCopy(c)
  <2>1. Used' = Used
    BY <1>3 DEF DequeueCopy, producerVars, Used
  <2>2. Slot(consumer[c]) \in 0..(Size - 1)
    BY SlotRange DEF Counters
  <2>3. TypeOK'
    BY <1>3, <2>1, <2>2 DEF DequeueCopy, producerVars, TypeOK, Counters
  <2>4. ProducerInv'
    BY <1>3, <2>1 DEF DequeueCopy, producerVars, ProducerInv, Slot
  <2>5. ASSUME NEW d \in Consumers PROVE ConsumerInv(d)'
    BY <1>3, <2>1 DEF DequeueCopy, producerVars, TypeOK, ConsumerInv, Ahead, Slot
  <2> QED
    BY <2>3, <2>4, <2>5
<1>4. CASE DequeueWin(c)
  <2>1. Used > 0 /\ Used' = Used - 1
    BY <1>4, AheadShrinks DEF DequeueWin, producerVars, ConsumerInv, Used, Ahead
  <2>2. TypeOK'
    <3>1. c_head' \in Counters
      BY <1>4, IncValue DEF DequeueWin
    <3> QED
      BY <1>4, <2>1, <3>1 DEF DequeueWin, producerVars, TypeOK, Counters
  <2>3. ProducerInv'
    BY <1>4, <2>1 DEF DequeueWin, producerVars, ProducerInv, Slot
  <2>4. ASSUME NEW d \in Consumers PROVE ConsumerInv(d)'
    <3>1. CASE d = c
      BY <1>4, <3>1 DEF DequeueWin, TypeOK, ConsumerInv
    <3>2. CASE d # c /\ cpc[d] # "idle"
      <4>1. Ahead(consumer[d], c_head) + Used <= next - 1
        BY <3>2 DEF ConsumerInv
      <4>2. Ahead(consumer[d], c_head) \in Counters
        BY AheadValue
      <4>3. Ahead(consumer[d], c_head) < CounterMod - 1
        BY <2>1, <4>1, <4>2, RingAssumption DEF Counters
      <4>4. Ahead(consumer[d], Inc(c_head)) = Ahead(consumer[d], c_head) + 1
        BY <4>3, AheadGrows
      <4>5. consumer[d] # Inc(c_head)
        BY <4>2, <4>4, AheadZero, IncValue DEF Counters
      <4> QED
        BY <1>4, <2>1, <3>2, <4>1, <4>2, <4>4, <4>5
           DEF DequeueWin, producerVars, ConsumerInv, TypeOK, Ahead, Counters
    <3>3. CASE d # c /\ cpc[d] = "idle"
      BY <1>4, <3>3 DEF DequeueWin, TypeOK, ConsumerInv
    <3> QED
      BY <3>1, <3>2, <3>3
  <2> QED
    BY <2>2, <2>3, <2>4
<1>5. CASE DequeueLose(c)
  <2>1. Used' = Used
    BY <1>5 DEF DequeueLose, producerVars, Used
  <2>2. TypeOK'
    BY <1>5, <2>1 DEF DequeueLose, producerVars, TypeOK, Counters
  <2>3. ProducerInv'
    BY <1>5, <2>1 DEF DequeueLose, producerVars, ProducerInv, Slot
  <2>4. ASSUME NEW d \in Consumers PROVE ConsumerInv(d)'
    <3>1. CASE d = c
      <4>1. Ahead(c_head, c_head) = 0
        BY AheadZero
      <4> QED
        BY <1>5, <2>1, <3>1, <4>1 DEF DequeueLose, producerVars, TypeOK, ConsumerInv, ProducerInv, Ahead
    <3>2. CASE d # c
      BY <1>5, <2>1, <3>2 DEF DequeueLose, producerVars, TypeOK, ConsumerInv, Ahead, Slot
    <3> QED
      BY <3>1, <3>2
  <2> QED
    BY <2>2, <2>3, <2>4
<1> QED
  BY <1>1, <1>2, <1>3, <1>4, <1>5 DEF Consumer

LEMMA RingInvariant == Spec => []RingInv
<1>1. RingInv /\ UNCHANGED vars => RingInv'
  BY DEF RingInv, TypeOK, ProducerInv, ConsumerInv, vars, Used, Ahead, Slot
<1>2. RingInv /\ [Next]_vars => RingInv'
  BY <1>1, RingProducer, RingConsumer DEF Next
<1> QED
  BY RingStart, <1>2, PTL DEF Spec

(* The counters keep the range of their type and never describe more than  *)
(* Size - 1 entries, however the calls interleave and wherever the         *)
(* counters wrap (_ck_ring_enqueue_sp and _ck_ring_dequeue_mc).            *)
THEOREM RingTypeCorrect == Spec => []TypeOK
  BY RingInvariant, PTL DEF RingInv

-----------------------------------------------------------------------------
(* The refinement: what the queue of FifoQueue holds, and how it moves.    *)

Values == Events \cup {Empty}

LEMMA QueueShape ==
  ASSUME TypeOK
  PROVE  /\ Queue \in Seq(Values) /\ Len(Queue) = Used
         /\ \A k \in 1..Used : Queue[k] = buffer[Slot(c_head + k - 1)]
<1>1. c_head \in Nat /\ Used \in Nat
  BY TypeFacts DEF Ranges, Counters
<1>2. ASSUME NEW k \in 1..Used PROVE buffer[Slot(c_head + k - 1)] \in Values
  <2>1. c_head + k - 1 \in Nat
    BY <1>1
  <2>2. Slot(c_head + k - 1) \in 0..(Size - 1)
    BY <2>1, SlotRange
  <2> QED
    BY <2>2 DEF TypeOK, Values
<1>3. Queue \in [1..Used -> Values]
  BY <1>2 DEF Queue
<1>4. Queue \in Seq(Values) /\ Len(Queue) = Used
  BY <1>1, <1>3
<1> QED
  BY <1>4 DEF Queue

LEMMA QueueEmpty ==
  ASSUME TypeOK
  PROVE  Queue = <<>> <=> c_head = p_tail
<1>1. Used = 0 <=> c_head = p_tail
  BY TypeFacts, AheadZero, UsedIsAhead DEF Ranges
<1>2. Queue = <<>> <=> Len(Queue) = 0
  BY QueueShape, EmptySeq
<1> QED
  BY <1>1, <1>2, QueueShape

(* Writing the slot of the tail changes no queued value.                   *)
LEMMA WriteKeepsQueue ==
  ASSUME RingInv, EnqueueWrite
  PROVE  Queue' = Queue
<1>r. Ranges /\ Size \in Nat
  BY TypeFacts, Sizes DEF RingInv
<1>1. Used' = Used /\ Used < Size - 1
  BY DEF EnqueueWrite, Used, RingInv, ProducerInv
<1>2. ASSUME NEW k \in 1..Used
      PROVE  buffer'[Slot(c_head + k - 1)] = buffer[Slot(c_head + k - 1)]
  <2> DEFINE x == c_head + k - 1
             e == Used - k + 1
  <2>1. x \in Nat /\ e \in 1..(Size - 1) /\ x + e = c_head + Used
    BY <1>1, <1>r DEF Ranges, Counters
  <2> HIDE DEF x, e
  <2>2. Slot(x) # Slot(c_head + Used)
    BY <2>1, SlotsDiffer
  <2>3. Slot(p_tail) = Slot(c_head + Used)
    BY <1>r, SlotTail DEF Ranges
  <2>4. Slot(x) \in 0..(Size - 1)
    BY <2>1, SlotRange
  <2>5. buffer'[Slot(x)] = buffer[Slot(x)]
    BY <2>2, <2>3, <2>4 DEF EnqueueWrite, RingInv, TypeOK
  <2> QED
    BY <2>5 DEF x
<1>3. c_head' = c_head
  BY DEF EnqueueWrite
<1> QED
  BY <1>1, <1>2, <1>3 DEF Queue, Slot

(* Publishing the tail appends the value that was written.                 *)
LEMMA PublishAppends ==
  ASSUME RingInv, RingInv', EnqueuePublish
  PROVE  /\ Len(Queue) < Size - 1 /\ next \in Events
         /\ Queue' = Append(Queue, next)
<1>r. Ranges /\ Size \in Nat /\ CounterMod \in Nat /\ CounterMod > Size
  BY TypeFacts, Sizes DEF RingInv
<1>1. Used < Size - 1 /\ next \in Events /\ buffer[Slot(p_tail)] = next
  BY DEF EnqueuePublish, RingInv, ProducerInv
<1>2. Used' = Used + 1
  BY <1>1, <1>r, AheadGrows DEF EnqueuePublish, Used, Ahead, Ranges
<1>3. /\ Queue \in Seq(Values) /\ Len(Queue) = Used
      /\ \A k \in 1..Used : Queue[k] = buffer[Slot(c_head + k - 1)]
  BY QueueShape DEF RingInv
<1>4. /\ Queue' \in Seq(Values) /\ Len(Queue') = Used + 1
      /\ \A k \in 1..(Used + 1) : Queue'[k] = buffer[Slot(c_head + k - 1)]
  <2>1. /\ Queue' = [k \in 1..(Used + 1) |-> buffer[Slot(c_head + k - 1)]]
    BY <1>2 DEF Queue, EnqueuePublish, Slot
  <2>2. ASSUME NEW k \in 1..(Used + 1) PROVE buffer[Slot(c_head + k - 1)] \in Values
    <3>1. c_head + k - 1 \in Nat
      BY <1>r DEF Ranges, Counters
    <3>2. Slot(c_head + k - 1) \in 0..(Size - 1)
      BY <3>1, SlotRange
    <3> QED
      BY <3>2 DEF RingInv, TypeOK, Values
  <2>3. Queue' \in [1..(Used + 1) -> Values]
    BY <2>1, <2>2
  <2>4. Used + 1 \in Nat
    BY <1>r DEF Ranges
  <2> QED
    BY <2>1, <2>3, <2>4
<1>5. Append(Queue, next) \in Seq(Values) /\ Len(Append(Queue, next)) = Used + 1
  BY <1>1, <1>3 DEF Values
<1>6. buffer[Slot(c_head + (Used + 1) - 1)] = next
  <2>1. c_head + (Used + 1) - 1 = c_head + Used
    BY <1>r DEF Ranges, Counters
  <2> QED
    BY <2>1, <1>1, <1>r, SlotTail DEF Ranges
<1>7. ASSUME NEW k \in 1..(Used + 1) PROVE Queue'[k] = Append(Queue, next)[k]
  <2>1. CASE k = Used + 1
    BY <2>1, <1>3, <1>4, <1>6
  <2>2. CASE k # Used + 1
    <3>1. k \in 1..Used
      BY <2>2, <1>r DEF Ranges
    <3> QED
      BY <3>1, <1>3, <1>4
  <2> QED
    BY <2>1, <2>2
<1>8. Queue' = Append(Queue, next)
  BY <1>4, <1>5, <1>7, SeqEqual
<1> QED
  BY <1>1, <1>3, <1>8

(* A compare-and-swap that succeeds removes the head, and the copy the     *)
(* consumer took is that head.                                             *)
LEMMA WinTakesHead ==
  ASSUME RingInv, RingInv', NEW c \in Consumers, DequeueWin(c)
  PROVE  /\ Queue # <<>> /\ data[c] = Head(Queue)
         /\ Queue' = Tail(Queue)
<1>r. Ranges /\ Size \in Nat /\ CounterMod \in Nat /\ CounterMod > Size
  BY TypeFacts, Sizes DEF RingInv
<1>1. Used > 0 /\ data[c] = buffer[Slot(c_head)]
  BY DEF DequeueWin, RingInv, ConsumerInv
<1>2. Used' = Used - 1
  BY <1>1, <1>r, AheadShrinks DEF DequeueWin, producerVars, Used, Ahead, Ranges
<1>3. /\ Queue \in Seq(Values) /\ Len(Queue) = Used
      /\ \A k \in 1..Used : Queue[k] = buffer[Slot(c_head + k - 1)]
  BY QueueShape DEF RingInv
<1>4. Queue # <<>>
  BY <1>1, <1>3, EmptySeq
<1>5. Head(Queue) = data[c]
  <2>1. Head(Queue) = Queue[1]
    BY <1>3, <1>4
  <2>2. 1 \in 1..Used /\ c_head + 1 - 1 = c_head
    BY <1>1, <1>r DEF Ranges, Counters
  <2> QED
    BY <2>1, <2>2, <1>1, <1>3
<1>6. /\ Tail(Queue) \in Seq(Values) /\ Len(Tail(Queue)) = Used - 1
      /\ \A k \in 1..(Used - 1) : Tail(Queue)[k] = Queue[k + 1]
  BY <1>3, <1>4, HeadTailProperties
<1>7. ASSUME NEW k \in 1..(Used - 1)
      PROVE  buffer[Slot(Inc(c_head) + k - 1)] = Queue[k + 1]
  <2> DEFINE j == k - 1
  <2>1. /\ j \in Nat /\ k + 1 \in 1..Used /\ Inc(c_head) \in Nat
        /\ Inc(c_head) + k - 1 = Inc(c_head) + j
        /\ c_head + (k + 1) - 1 = c_head + 1 + j
    <3>1. Inc(c_head) \in Counters
      BY <1>r, IncValue DEF Ranges
    <3> QED
      BY <3>1, <1>r DEF Ranges, Counters
  <2> HIDE DEF j
  <2>2. Slot(Inc(c_head) + j) = Slot(c_head + 1 + j)
    BY <2>1, <1>r, SlotInc DEF Ranges
  <2> QED
    BY <2>1, <2>2, <1>3
<1>8. Queue' = [k \in 1..(Used - 1) |-> buffer[Slot(Inc(c_head) + k - 1)]]
  BY <1>2 DEF Queue, DequeueWin, producerVars, Slot, Inc
<1>9. Queue' = [k \in 1..(Used - 1) |-> Queue[k + 1]]
  BY <1>7, <1>8
<1>10. Queue' \in Seq(Values) /\ Len(Queue') = Used - 1
  <2>1. \A k \in 1..(Used - 1) : Queue[k + 1] \in Values
    BY <1>r, <1>3, ElementOfSeq DEF Ranges
  <2>2. Queue' \in [1..(Used - 1) -> Values] /\ Used - 1 \in Nat
    BY <2>1, <1>1, <1>9, <1>r DEF Ranges
  <2> QED
    BY <2>2
<1>11. \A k \in 1..(Used - 1) : Queue'[k] = Tail(Queue)[k]
  BY <1>6, <1>9
<1>12. Queue' = Tail(Queue)
  BY <1>6, <1>10, <1>11, SeqEqual
<1> QED
  BY <1>4, <1>5, <1>12

(* The ring is linearizable (ck_ring_enqueue_spmc, ck_ring_dequeue_spmc):  *)
(* every step is a step of the bounded FIFO queue, the one that publishes  *)
(* p_tail an enqueue and the one that wins c_head a dequeue, or changes    *)
(* nothing of it; a call refuses only a full queue and finds only an empty *)
(* queue empty, though it may have taken its snapshot long before.         *)
THEOREM RingImplementsFifo == Spec => RingIsFifo
<1>1. Init => Fifo!Init
  <2> SUFFICES ASSUME Init PROVE Fifo!Init
    OBVIOUS
  <2>1. RingInv /\ c_head = p_tail
    BY RingStart DEF Init
  <2>2. Queue = <<>>
    BY <2>1, QueueEmpty DEF RingInv
  <2> QED
    BY <2>2 DEF Init, Fifo!Init
<1>2. RingInv /\ RingInv' /\ [Next]_vars => [Fifo!Next]_(Fifo!vars)
  <2> SUFFICES ASSUME RingInv, RingInv', [Next]_vars
               PROVE  [Fifo!Next]_(Fifo!vars)
    OBVIOUS
  <2>r. Ranges /\ Size \in Nat /\ Size > 1
    BY TypeFacts, Sizes DEF RingInv
  <2> USE DEF Fifo!vars, Fifo!Next
  <2>1. CASE EnqueueCheck
    <3>1. Queue' = Queue /\ got' = got
      BY <2>1, SameQueue DEF EnqueueCheck, consumerVars
    <3>2. CASE Slot(Inc(p_tail)) = Slot(c_head)
      <4>1. Used = Size - 1
        <5> SUFFICES ASSUME Used < Size - 1 PROVE FALSE
          BY <2>r DEF Ranges
        <5> DEFINE e == Used + 1
        <5>1. e \in 1..(Size - 1) /\ c_head \in Nat /\ c_head + Used + 1 = c_head + e
          BY <2>r DEF Ranges, Counters
        <5>2. Slot(Inc(p_tail)) = Slot(c_head + e)
          BY <5>1, <2>r, SlotTail DEF Ranges
        <5> HIDE DEF e
        <5> QED
          BY <5>1, <5>2, <3>2, SlotsDiffer
      <4>2. Len(Queue) = Size - 1
        BY <4>1, QueueShape DEF RingInv
      <4> QED
        BY <2>1, <3>1, <3>2, <4>2 DEF EnqueueCheck, Fifo!Refuse
    <3>3. CASE Slot(Inc(p_tail)) # Slot(c_head)
      BY <2>1, <3>1, <3>3 DEF EnqueueCheck
    <3> QED
      BY <3>2, <3>3
  <2>2. CASE EnqueueWrite
    BY <2>2, WriteKeepsQueue DEF EnqueueWrite, consumerVars
  <2>3. CASE EnqueuePublish
    <3>1. Fifo!Enqueue(next) /\ next \in Events
      BY <2>3, PublishAppends DEF EnqueuePublish, consumerVars, Fifo!Enqueue
    <3> QED
      BY <3>1
  <2>4. ASSUME NEW c \in Consumers, DequeueStart(c) \/ DequeueCopy(c) \/ DequeueLose(c)
        PROVE  UNCHANGED Fifo!vars
    BY <2>4, SameQueue DEF DequeueStart, DequeueCopy, DequeueLose, producerVars
  <2>5. ASSUME NEW c \in Consumers, DequeueTail(c)
        PROVE  Fifo!FindEmpty(c) \/ UNCHANGED Fifo!vars
    <3>1. Queue' = Queue /\ accepted' = accepted
      BY <2>5, SameQueue DEF DequeueTail, producerVars
    <3>2. CASE consumer[c] = p_tail
      <4>1. c_head = p_tail
        <5>1. Ahead(consumer[c], c_head) + Used <= next - 1
          BY <2>5 DEF DequeueTail, RingInv, ConsumerInv
        <5>2. /\ consumer[c] \in Counters /\ c_head \in Counters /\ p_tail \in Counters
              /\ next <= MaxEvents + 1 /\ MaxEvents < CounterMod
              /\ next \in Nat /\ MaxEvents \in Nat /\ CounterMod \in Nat
          BY <2>r, RingAssumption DEF RingInv, TypeOK, Ranges
        <5>3. /\ Ahead(p_tail, c_head) = IF p_tail <= c_head THEN c_head - p_tail
                                         ELSE c_head - p_tail + CounterMod
              /\ Used = IF c_head <= p_tail THEN p_tail - c_head
                        ELSE p_tail - c_head + CounterMod
          BY <5>2, AheadValue, UsedIsAhead
        <5> QED
          BY <5>1, <5>2, <5>3, <3>2 DEF Counters
      <4>2. Queue = <<>>
        BY <4>1, QueueEmpty DEF RingInv
      <4> QED
        BY <2>5, <3>1, <3>2, <4>2 DEF DequeueTail, Fifo!FindEmpty
    <3>3. CASE consumer[c] # p_tail
      BY <2>5, <3>1, <3>3 DEF DequeueTail
    <3> QED
      BY <3>2, <3>3
  <2>6. ASSUME NEW c \in Consumers, DequeueWin(c) PROVE Fifo!Dequeue(c)
    BY <2>6, WinTakesHead DEF DequeueWin, producerVars, Fifo!Dequeue
  <2>7. CASE UNCHANGED vars
    BY <2>7, SameQueue DEF vars
  <2> QED
    BY <2>1, <2>2, <2>3, <2>4, <2>5, <2>6, <2>7 DEF Next, Producer, Consumer
<1> QED
  BY <1>1, <1>2, RingInvariant, PTL DEF Spec, RingIsFifo, Fifo!Spec
=============================================================================
