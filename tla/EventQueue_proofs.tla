-------------------------- MODULE EventQueue_proofs --------------------------
(***************************************************************************)
(* The arrival times of module EventQueue are right for any number of      *)
(* workers and any length of queue_array.                                  *)
(*                                                                         *)
(* The inductive invariant counts slots backwards from the one that the    *)
(* next event will use: the last QueueLen - 1 events that were queued keep *)
(* their arrival times in the QueueLen - 1 slots behind it, the entries of *)
(* the ring are the nearest of these slots, and a worker that took an      *)
(* event points at the slot of that event.                                 *)
(***************************************************************************)
EXTENDS EventQueue, SequenceTheorems, FiniteSetTheorems, TLAPS

(* The slot of the event after the last one queued. *)
Front == IF gpc = "signal" THEN NextSlot(gi) ELSE gi

(* The slot d places behind slot f. *)
Back(f, d) == IF f >= d THEN f - d ELSE f - d + QueueLen

RecentStamps ==
  \A d \in 1..(QueueLen - 1) :
    d <= enqueued => queue_array[Back(Front, d)] = enqueued - d + 1

NextStamp == gpc = "enqueue" => queue_array[gi] = enqueued + 1

RingSlots ==
  \A k \in 1..Len(ring) : ring[k] = Back(Front, Len(ring) - k + 1)

EventPointers ==
  \A w \in Workers :
    /\ pc[w] \in {"check", "ticket", "dequeue", "empty", "sleep", "waiting"} => ev[w] = 0
    /\ ev[w] <= enqueued
    /\ (pc[w] \in {"enter", "stamp"} /\ ev[w] # 0 /\ enqueued < ev[w] + QueueLen - 1)
         => ptr[w] = Back(Front, enqueued - ev[w] + 1)

StampInv == RecentStamps /\ NextStamp /\ RingSlots /\ EventPointers

-----------------------------------------------------------------------------
(* Stepping backwards round queue_array never meets the slot it started    *)
(* from within QueueLen - 1 steps, and advancing the start adds one step.  *)
LEMMA BackFacts ==
  ASSUME NEW f \in Slots
  PROVE  /\ NextSlot(f) \in Slots
         /\ Back(NextSlot(f), 1) = f
         /\ \A d \in 1..(QueueLen - 1) :
              /\ Back(f, d) \in Slots
              /\ Back(f, d) # f
              /\ Back(NextSlot(f), d + 1) = Back(f, d)
  BY QueueAssumption DEF Slots, NextSlot, Back

(* The variables keep their types, in particular the ring never holds      *)
(* QueueLen entries and every slot index stays inside queue_array.         *)
THEOREM TypeCorrect == Spec => []TypeOK
<1>1. Init => TypeOK
  <2> SUFFICES ASSUME Init PROVE TypeOK
    OBVIOUS
  <2> USE QueueAssumption DEF Init
  <2>1. opt \in [rate : BOOLEAN, timed : BOOLEAN, warmup : BOOLEAN, limit : Nat]
    OBVIOUS
  <2>2. limit \in Nat /\ gpc \in GeneratorPoints
    BY <2>1 DEF GeneratorPoints
  <2>3. ring \in Seq(Slots) /\ Len(ring) <= QueueLen - 1 /\ Len(ring) <= enqueued
    OBVIOUS
  <2>4. gi \in Slots /\ queue_array \in [Slots -> Nat]
    BY DEF Slots
  <2>5. /\ pc \in [Workers -> WorkerPoints]
        /\ rc \in [Workers -> {0, 1}]
        /\ ptr \in [Workers -> Slots \cup {NULL}]
    BY DEF WorkerPoints
  <2> QED
    BY <2>1, <2>2, <2>3, <2>4, <2>5 DEF TypeOK
<1>2. TypeOK /\ [Next]_vars => TypeOK'
  <2> SUFFICES ASSUME TypeOK, [Next]_vars PROVE TypeOK'
    OBVIOUS
  <2> USE DEF TypeOK, globals, queueVars, generatorVars
  <2>1. ASSUME NEW w \in Workers, Worker(w) PROVE TypeOK'
    <3> USE DEF WorkerStep, Goto, WorkerPoints, InQueueCode, InEvent
    <3>1. CASE CheckStop(w)
      BY <3>1 DEF CheckStop
    <3>2. CASE TakeTicket(w)
      <4>1. \E l \in {"left", "dequeue", "event"} : Goto(w, l)
        BY <3>2 DEF TakeTicket
      <4>2. nevents' \in Nat
        BY <3>2 DEF TakeTicket
      <4>3. waiting' = waiting /\ ptr' \in [Workers -> Slots \cup {NULL}]
        BY <3>2 DEF TakeTicket
      <4> QED
        BY <3>2, <4>1, <4>2, <4>3 DEF TakeTicket
    <3>3. CASE Dequeue(w)
      <4>1. ring # <<>> /\ Head(ring) \in Slots /\ Len(ring) \in Nat \ {0}
        BY <3>3 DEF Dequeue
      <4>2. ring' \in Seq(Slots) /\ Len(ring') = Len(ring) - 1
        BY <3>3, <4>1 DEF Dequeue
      <4>3. ptr' \in [Workers -> Slots \cup {NULL}]
        BY <3>3, <4>1 DEF Dequeue
      <4>4. enqueued - Len(ring) + 1 \in Nat
        BY <4>1
      <4> QED
        BY <3>3, <4>2, <4>3, <4>4, QueueAssumption DEF Dequeue
    <3>4. CASE FindEmpty(w)
      BY <3>4 DEF FindEmpty
    <3>5. CASE TestError(w)
      BY <3>5 DEF TestError
    <3>6. CASE Sleep(w)
      BY <3>6 DEF Sleep
    <3>7. CASE Recheck(w)
      BY <3>7 DEF Recheck
    <3>8. CASE Enter(w)
      BY <3>8 DEF Enter
    <3>9. CASE ReadStamp(w)
      BY <3>9 DEF ReadStamp
    <3>10. CASE Crash(w)
      BY <3>10 DEF Crash, workerVars
    <3>11. CASE LeaveLoop(w)
      BY <3>11 DEF LeaveLoop
    <3>12. CASE StartEvent(w)
      BY <3>12 DEF StartEvent
    <3>13. CASE ExecuteEvent(w)
      BY <3>13 DEF ExecuteEvent
    <3>14. CASE StopEvent(w)
      BY <3>14 DEF StopEvent
    <3>15. CASE FinishWorker(w)
      BY <3>15 DEF FinishWorker
    <3> QED
      BY <2>1, <3>1, <3>2, <3>3, <3>4, <3>5, <3>6, <3>7, <3>8, <3>9, <3>10,
         <3>11, <3>12, <3>13, <3>14, <3>15 DEF Worker
  <2>2. ASSUME NEW w \in Workers, WakeSpuriously(w) PROVE TypeOK'
    BY <2>2 DEF WakeSpuriously, WorkerStep, workerVars
  <2>3. CASE Generator
    <3> USE DEF GeneratorStep, workerVars, GeneratorPoints
    <3>1. CASE CheckTime
      BY <3>1 DEF CheckTime
    <3>2. CASE Nanosleep
      BY <3>2 DEF Nanosleep
    <3>3. CASE Arrive
      BY <3>3 DEF Arrive
    <3>4. CASE Enqueue
      BY <3>4, QueueAssumption DEF Enqueue
    <3>5. CASE QueueFull
      BY <3>5 DEF QueueFull
    <3>6. CASE Signal
      BY <3>6, BackFacts DEF Signal
    <3>7. CASE Broadcast
      BY <3>7 DEF Broadcast
    <3>8. CASE Cancelled
      BY <3>8 DEF Cancelled
    <3> QED
      BY <2>3, <3>1, <3>2, <3>3, <3>4, <3>5, <3>6, <3>7, <3>8 DEF Generator
  <2>4. CASE Main
    BY <2>4, QueueAssumption
    DEF Main, MainStep, EnableLimit, Checkpoint, JoinWorkers, workerVars
  <2>5. CASE Expire
    BY <2>5 DEF Expire, workerVars
  <2>6. CASE UNCHANGED vars
    BY <2>6 DEF vars, workerVars
  <2> QED
    BY <2>1, <2>2, <2>3, <2>4, <2>5, <2>6 DEF Next
<1> QED
  BY <1>1, <1>2, PTL DEF Spec

-----------------------------------------------------------------------------
LEMMA StampInit == Init => StampInv
<1> SUFFICES ASSUME Init PROVE StampInv
  OBVIOUS
<1>1. RecentStamps /\ NextStamp
  BY QueueAssumption DEF Init, RecentStamps, NextStamp
<1>2. RingSlots
  BY DEF Init, RingSlots
<1>3. EventPointers
  BY DEF Init, EventPointers
<1> QED
  BY <1>1, <1>2, <1>3 DEF StampInv

(* A step that leaves the queue and the generator alone can only disturb   *)
(* what is said of the workers' pointers.                                  *)
LEMMA QueueUntouched ==
  ASSUME StampInv, UNCHANGED <<ring, queue_array, gpc, gi, enqueued>>, EventPointers'
  PROVE  StampInv'
  BY DEF StampInv, RecentStamps, NextStamp, RingSlots, Front

(* A step of worker w that keeps its pointer and its event, and does not   *)
(* get hold of an event without one.                                       *)
LEMMA PointersUntouched ==
  ASSUME TypeOK, StampInv, NEW w \in Workers, NEW l, Goto(w, l),
         UNCHANGED <<ptr, ev, gpc, gi, enqueued>>,
         l \in {"check", "ticket", "dequeue", "empty", "sleep", "waiting"} => ev[w] = 0,
         l \in {"enter", "stamp"} => ev[w] = 0 \/ pc[w] \in {"enter", "stamp"}
  PROVE  EventPointers'
<1> SUFFICES ASSUME NEW x \in Workers
             PROVE  /\ pc'[x] \in {"check", "ticket", "dequeue", "empty", "sleep", "waiting"}
                         => ev[x] = 0
                    /\ ev[x] <= enqueued
                    /\ (pc'[x] \in {"enter", "stamp"} /\ ev[x] # 0
                          /\ enqueued < ev[x] + QueueLen - 1)
                         => ptr[x] = Back(Front, enqueued - ev[x] + 1)
  BY DEF EventPointers, Front
<1>1. CASE x = w
  BY <1>1 DEF StampInv, EventPointers, TypeOK, Goto
<1>2. CASE x # w
  BY <1>2 DEF StampInv, EventPointers, TypeOK, Goto
<1> QED
  BY <1>1, <1>2

LEMMA StampWorker ==
  ASSUME TypeOK, TypeOK', StampInv, NEW w \in Workers, Worker(w)
  PROVE  StampInv'
<1> USE DEF WorkerStep, queueVars, generatorVars
<1>1. ASSUME \/ CheckStop(w) \/ FindEmpty(w) \/ TestError(w) \/ Sleep(w)
             \/ Recheck(w) \/ Enter(w) \/ ReadStamp(w) \/ LeaveLoop(w)
             \/ StartEvent(w) \/ ExecuteEvent(w) \/ FinishWorker(w)
      PROVE StampInv'
  <2> DEFINE Early == {"check", "ticket", "dequeue", "empty", "sleep", "waiting"}
  <2>1. \E l : /\ Goto(w, l)
               /\ l \in Early => pc[w] \in Early
               /\ l \in {"enter", "stamp"} => pc[w] \in Early \cup {"enter", "stamp"}
    <3>1. CASE CheckStop(w)
      BY <3>1 DEF CheckStop
    <3>2. CASE FindEmpty(w)
      BY <3>2 DEF FindEmpty
    <3>3. CASE TestError(w)
      BY <3>3 DEF TestError
    <3>4. CASE Sleep(w)
      BY <3>4 DEF Sleep
    <3>5. CASE Recheck(w)
      BY <3>5 DEF Recheck
    <3>6. CASE Enter(w)
      BY <3>6 DEF Enter
    <3>7. CASE ReadStamp(w)
      BY <3>7 DEF ReadStamp
    <3>8. CASE LeaveLoop(w) \/ StartEvent(w) \/ ExecuteEvent(w) \/ FinishWorker(w)
      BY <3>8 DEF LeaveLoop, StartEvent, ExecuteEvent, FinishWorker
    <3> QED
      BY <1>1, <3>1, <3>2, <3>3, <3>4, <3>5, <3>6, <3>7, <3>8
  <2>2. UNCHANGED <<ring, queue_array, gpc, gi, enqueued, ptr, ev>>
    BY <1>1 DEF CheckStop, FindEmpty, TestError, Sleep, Recheck, Enter, ReadStamp,
                LeaveLoop, StartEvent, ExecuteEvent, FinishWorker
  <2>3. pc[w] \in Early => ev[w] = 0
    BY DEF StampInv, EventPointers
  <2>4. EventPointers'
    BY <2>1, <2>2, <2>3, PointersUntouched
  <2> QED
    BY <2>2, <2>4, QueueUntouched
<1>2. CASE TakeTicket(w)
  <2>1. \E l \in {"left", "dequeue", "event"} : Goto(w, l)
    BY <1>2 DEF TakeTicket
  <2>2. pc[w] = "ticket" /\ UNCHANGED <<ring, queue_array, gpc, gi, enqueued, ev>>
    BY <1>2 DEF TakeTicket
  <2>3. \A x \in Workers : x # w => ptr'[x] = ptr[x]
    BY <1>2 DEF TakeTicket, TypeOK
  <2>4. EventPointers'
    BY <2>1, <2>2, <2>3 DEF StampInv, EventPointers, TypeOK, Goto, Front
  <2> QED
    BY <2>2, <2>4, QueueUntouched
<1>3. CASE Dequeue(w)
  <2> DEFINE n == enqueued - Len(ring) + 1
  <2>1. Len(ring) \in Nat \ {0} /\ Head(ring) = ring[1]
    BY <1>3 DEF Dequeue, TypeOK
  <2>2. UNCHANGED <<queue_array, gpc, gi, enqueued>> /\ Front' = Front
    BY <1>3 DEF Dequeue, Front
  <2>3. RecentStamps' /\ NextStamp'
    BY <2>2 DEF StampInv, RecentStamps, NextStamp
  <2>4. RingSlots'
    <3>1. Len(ring') = Len(ring) - 1 /\ \A k \in 1..Len(ring') : ring'[k] = ring[k + 1]
      BY <1>3, <2>1 DEF Dequeue, TypeOK
    <3>2. ASSUME NEW k \in 1..Len(ring')
          PROVE  ring'[k] = Back(Front, Len(ring') - k + 1)
      <4>1. ring[k + 1] = Back(Front, Len(ring) - (k + 1) + 1)
        BY <2>1, <3>1 DEF StampInv, RingSlots
      <4>2. Len(ring) - (k + 1) + 1 = Len(ring') - k + 1
        BY <2>1, <3>1
      <4> QED
        BY <3>1, <4>1, <4>2
    <3> QED
      BY <2>2, <3>2 DEF RingSlots
  <2>5. EventPointers'
    <3>1. \A x \in Workers : pc[x] # "dequeue" => ptr'[x] = ptr[x]
      BY <1>3 DEF Dequeue
    <3>2. ptr'[w] = Back(Front, enqueued - n + 1)
      <4>1. ptr'[w] = ring[1]
        BY <1>3, <2>1 DEF Dequeue
      <4>2. ring[1] = Back(Front, Len(ring) - 1 + 1)
        BY <2>1 DEF StampInv, RingSlots
      <4>3. Len(ring) - 1 + 1 = enqueued - n + 1
        BY <2>1 DEF TypeOK
      <4> QED
        BY <4>1, <4>2, <4>3
    <3>3. ev' = [ev EXCEPT ![w] = n] /\ n <= enqueued
      BY <1>3, <2>1 DEF Dequeue, TypeOK
    <3>4. Goto(w, "enter")
      BY <1>3 DEF Dequeue
    <3> HIDE DEF n
    <3>5. ASSUME NEW x \in Workers
          PROVE  /\ pc'[x] \in {"check", "ticket", "dequeue", "empty", "sleep", "waiting"}
                      => ev'[x] = 0
                 /\ ev'[x] <= enqueued
                 /\ (pc'[x] \in {"enter", "stamp"} /\ ev'[x] # 0
                       /\ enqueued < ev'[x] + QueueLen - 1)
                      => ptr'[x] = Back(Front, enqueued - ev'[x] + 1)
      <4>1. CASE x = w
        BY <4>1, <3>2, <3>3, <3>4 DEF TypeOK, Goto
      <4>2. CASE x # w
        BY <4>2, <3>1, <3>3, <3>4 DEF TypeOK, Goto, StampInv, EventPointers
      <4> QED
        BY <4>1, <4>2
    <3> QED
      BY <2>2, <3>5 DEF EventPointers
  <2> QED
    BY <2>3, <2>4, <2>5 DEF StampInv
<1>4. CASE Crash(w)
  BY <1>4 DEF Crash, workerVars, StampInv, RecentStamps, NextStamp, RingSlots,
              EventPointers, Front
<1>5. CASE StopEvent(w)
  <2>1. UNCHANGED <<ring, queue_array, gpc, gi, enqueued, ptr>>
        /\ ev' = [ev EXCEPT ![w] = 0] /\ Goto(w, "check")
    BY <1>5 DEF StopEvent
  <2>2. EventPointers'
    BY <2>1 DEF StampInv, EventPointers, TypeOK, Goto, Front
  <2> QED
    BY <2>1, <2>2, QueueUntouched
<1> QED
  BY <1>1, <1>2, <1>3, <1>4, <1>5 DEF Worker

(* A step of the generator that neither writes a slot nor advances. *)
LEMMA GeneratorIdle ==
  ASSUME TypeOK, StampInv, UNCHANGED <<ring, queue_array, gi, enqueued, pc, ptr, ev>>,
         Front' = Front, gpc' # "enqueue" \/ gpc = "enqueue"
  PROVE  StampInv'
  BY DEF StampInv, RecentStamps, NextStamp, RingSlots, EventPointers

LEMMA StampGenerator ==
  ASSUME TypeOK, TypeOK', StampInv, Generator
  PROVE  StampInv'
<1> USE DEF GeneratorStep, workerVars, queueVars
<1>1. CASE CheckTime \/ Nanosleep \/ QueueFull \/ Broadcast \/ Cancelled
  <2>1. /\ UNCHANGED <<ring, queue_array, gi, enqueued, pc, ptr, ev>>
        /\ gpc # "signal" /\ gpc' \notin {"signal", "enqueue"}
    BY <1>1 DEF CheckTime, Nanosleep, QueueFull, Broadcast, Cancelled
  <2> QED
    BY <2>1, GeneratorIdle DEF Front
<1>2. CASE Arrive
  <2>1. /\ UNCHANGED <<ring, gi, enqueued, pc, ptr, ev>>
        /\ Front = gi /\ Front' = gi
        /\ queue_array' = [queue_array EXCEPT ![gi] = enqueued + 1]
    BY <1>2 DEF Arrive, Front
  <2>2. NextStamp'
    BY <2>1 DEF NextStamp, TypeOK
  <2>3. RecentStamps'
    <3> SUFFICES ASSUME NEW d \in 1..(QueueLen - 1), d <= enqueued
                 PROVE  queue_array'[Back(gi, d)] = enqueued - d + 1
      BY <2>1 DEF RecentStamps
    <3>1. Back(gi, d) # gi /\ Back(gi, d) \in Slots
      BY BackFacts DEF TypeOK
    <3>2. queue_array[Back(gi, d)] = enqueued - d + 1
      BY <2>1 DEF StampInv, RecentStamps
    <3> QED
      BY <2>1, <3>1, <3>2 DEF TypeOK
  <2>4. RingSlots' /\ EventPointers'
    BY <2>1 DEF StampInv, RingSlots, EventPointers
  <2> QED
    BY <2>2, <2>3, <2>4 DEF StampInv
<1>3. CASE Enqueue
  <2>1. /\ UNCHANGED <<queue_array, gi, pc, ptr, ev>>
        /\ Front = gi /\ Front' = NextSlot(gi)
        /\ ring' = Append(ring, gi) /\ enqueued' = enqueued + 1
        /\ Len(ring) + 1 <= QueueLen - 1
        /\ gpc = "enqueue" /\ gpc' = "signal"
    BY <1>3, QueueAssumption DEF Enqueue, Front, TypeOK
  <2>2. NextStamp'
    BY <2>1 DEF NextStamp
  <2>3. \A d \in 1..QueueLen :
          Back(NextSlot(gi), d) = IF d = 1 THEN gi ELSE Back(gi, d - 1)
    <3> TAKE d \in 1..QueueLen
    <3>1. CASE d = 1
      BY <3>1, BackFacts DEF TypeOK
    <3>2. CASE d # 1
      <4>1. d - 1 \in 1..(QueueLen - 1) /\ (d - 1) + 1 = d
        BY <3>2, QueueAssumption
      <4> QED
        BY <3>2, <4>1, BackFacts DEF TypeOK
    <3> QED
      BY <3>1, <3>2
  <2>4. RecentStamps'
    <3> SUFFICES ASSUME NEW d \in 1..(QueueLen - 1), d <= enqueued + 1
                 PROVE  queue_array[Back(NextSlot(gi), d)] = (enqueued + 1) - d + 1
      BY <2>1 DEF RecentStamps
    <3>1. CASE d = 1
      BY <3>1, <2>1, <2>3, QueueAssumption DEF StampInv, NextStamp, TypeOK
    <3>2. CASE d # 1
      <4>1. d - 1 \in 1..(QueueLen - 1) /\ d - 1 <= enqueued /\ d \in 1..QueueLen
        BY <3>2, QueueAssumption DEF TypeOK
      <4>2. queue_array[Back(gi, d - 1)] = enqueued - (d - 1) + 1
        BY <4>1, <2>1 DEF StampInv, RecentStamps
      <4> QED
        BY <3>2, <4>1, <4>2, <2>3 DEF TypeOK
    <3> QED
      BY <3>1, <3>2
  <2>5. RingSlots'
    <3> SUFFICES ASSUME NEW k \in 1..(Len(ring) + 1)
                 PROVE  ring'[k] = Back(NextSlot(gi), (Len(ring) + 1) - k + 1)
      BY <2>1 DEF RingSlots, TypeOK
    <3>1. CASE k = Len(ring) + 1
      <4>1. ring'[k] = gi /\ (Len(ring) + 1) - k + 1 = 1
        BY <3>1, <2>1 DEF TypeOK
      <4> QED
        BY <4>1, BackFacts DEF TypeOK
    <3>2. CASE k # Len(ring) + 1
      <4>1. k \in 1..Len(ring) /\ ring'[k] = ring[k]
        <5>1. ring \in Seq(Slots) /\ Len(ring) \in Nat
          BY DEF TypeOK
        <5>2. ring' = Append(ring, gi)
          BY <2>1
        <5> QED
          BY <3>2, <5>1, <5>2
      <4>2. ring[k] = Back(gi, Len(ring) - k + 1)
        BY <4>1, <2>1 DEF StampInv, RingSlots
      <4> DEFINE d == (Len(ring) + 1) - k + 1
      <4>3. d \in 1..QueueLen /\ d # 1 /\ d - 1 = Len(ring) - k + 1
        BY <4>1, <2>1, QueueAssumption DEF TypeOK
      <4> HIDE DEF d
      <4>4. Back(NextSlot(gi), d) = Back(gi, d - 1)
        BY <4>3, <2>3
      <4> QED
        BY <4>1, <4>2, <4>3, <4>4 DEF d
    <3> QED
      BY <3>1, <3>2
  <2>6. EventPointers'
    <3> SUFFICES ASSUME NEW x \in Workers
                 PROVE  /\ pc[x] \in {"check", "ticket", "dequeue", "empty", "sleep", "waiting"}
                             => ev[x] = 0
                        /\ ev[x] <= enqueued + 1
                        /\ (pc[x] \in {"enter", "stamp"} /\ ev[x] # 0
                              /\ enqueued + 1 < ev[x] + QueueLen - 1)
                             => ptr[x] = Back(NextSlot(gi), (enqueued + 1) - ev[x] + 1)
      BY <2>1 DEF EventPointers
    <3>1. /\ pc[x] \in {"check", "ticket", "dequeue", "empty", "sleep", "waiting"} => ev[x] = 0
          /\ ev[x] <= enqueued
          /\ (pc[x] \in {"enter", "stamp"} /\ ev[x] # 0 /\ enqueued < ev[x] + QueueLen - 1)
               => ptr[x] = Back(gi, enqueued - ev[x] + 1)
      BY <2>1 DEF StampInv, EventPointers
    <3> DEFINE d == (enqueued + 1) - ev[x] + 1
    <3>0. ev[x] \in Nat /\ enqueued \in Nat /\ QueueLen \in Nat
      BY QueueAssumption DEF TypeOK
    <3>2. ASSUME enqueued + 1 < ev[x] + QueueLen - 1
          PROVE  Back(NextSlot(gi), d) = Back(gi, enqueued - ev[x] + 1)
      <4>1. d \in 1..QueueLen /\ d # 1 /\ d - 1 = enqueued - ev[x] + 1
        BY <3>0, <3>1, <3>2
      <4> HIDE DEF d
      <4> QED
        BY <4>1, <2>3
    <3> HIDE DEF d
    <3>3. ev[x] <= enqueued + 1 /\ (enqueued + 1 < ev[x] + QueueLen - 1
                                      => enqueued < ev[x] + QueueLen - 1)
      BY <3>0, <3>1
    <3> QED
      BY <3>1, <3>2, <3>3 DEF d
  <2> QED
    BY <2>2, <2>4, <2>5, <2>6 DEF StampInv
<1>4. CASE Signal
  <2>1. UNCHANGED <<ring, queue_array, enqueued, pc, ptr, ev>>
        /\ Front' = Front /\ gpc' # "enqueue"
    BY <1>4 DEF Signal, Front
  <2> QED
    BY <2>1 DEF StampInv, RecentStamps, NextStamp, RingSlots, EventPointers
<1> QED
  BY <1>1, <1>2, <1>3, <1>4 DEF Generator

-----------------------------------------------------------------------------
LEMMA StampInvariant == Spec => []StampInv
<1>1. TypeOK /\ TypeOK' /\ StampInv /\ [Next]_vars => StampInv'
  <2> SUFFICES ASSUME TypeOK, TypeOK', StampInv, [Next]_vars PROVE StampInv'
    OBVIOUS
  <2>1. ASSUME NEW w \in Workers, Worker(w) PROVE StampInv'
    BY <2>1, StampWorker
  <2>2. CASE Generator
    BY <2>2, StampGenerator
  <2>3. CASE \/ \E w \in Workers : WakeSpuriously(w)
             \/ Main \/ Expire \/ UNCHANGED vars
    <3>1. UNCHANGED <<ring, queue_array, gpc, gi, enqueued, pc, ptr, ev>>
      BY <2>3 DEF WakeSpuriously, WorkerStep, Main, EnableLimit, Checkpoint, JoinWorkers,
                  MainStep, Expire, queueVars, workerVars, generatorVars, vars
    <3> QED
      BY <3>1 DEF StampInv, RecentStamps, NextStamp, RingSlots, EventPointers, Front
  <2> QED
    BY <2>1, <2>2, <2>3 DEF Next
<1> QED
  BY <1>1, StampInit, TypeCorrect, PTL DEF Spec

(* Events that are still queued keep their arrival times, although         *)
(* eventgen_thread_proc stores the next time before it knows whether the   *)
(* ring is full.                                                           *)
THEOREM PendingStampsCorrect == Spec => []PendingStampsIntact
<1>1. TypeOK /\ StampInv => PendingStampsIntact
  <2> SUFFICES ASSUME TypeOK, StampInv, NEW k \in 1..Len(ring)
               PROVE  queue_array[ring[k]] = enqueued - Len(ring) + k
    BY DEF PendingStampsIntact
  <2> DEFINE d == Len(ring) - k + 1
  <2>1. d \in 1..(QueueLen - 1) /\ d <= enqueued /\ enqueued - d + 1 = enqueued - Len(ring) + k
    BY QueueAssumption DEF TypeOK
  <2>2. ring[k] = Back(Front, d)
    BY DEF StampInv, RingSlots
  <2> HIDE DEF d
  <2> QED
    BY <2>1, <2>2 DEF StampInv, RecentStamps
<1> QED
  BY <1>1, TypeCorrect, StampInvariant, PTL

(* A worker reads the arrival time of the event it took, unless the        *)
(* generator has come round queue_array meanwhile.                         *)
THEOREM OwnStampCorrect == Spec => []OwnStamp
<1>1. TypeOK /\ StampInv => OwnStamp
  <2> SUFFICES ASSUME TypeOK, StampInv, NEW w \in Workers,
                      pc[w] \in {"enter", "stamp"}, ev[w] # 0,
                      enqueued < ev[w] + QueueLen - 1
               PROVE  ptr[w] # NULL /\ queue_array[ptr[w]] = ev[w]
    BY DEF OwnStamp
  <2> DEFINE d == enqueued - ev[w] + 1
  <2>1. ptr[w] = Back(Front, d) /\ ev[w] <= enqueued
    BY DEF StampInv, EventPointers
  <2>2. d \in 1..(QueueLen - 1) /\ d <= enqueued /\ enqueued - d + 1 = ev[w]
    <3>1. ev[w] \in Nat \ {0} /\ enqueued \in Nat
      BY DEF TypeOK
    <3> QED
      BY <2>1, <3>1, QueueAssumption
  <2>3. Front \in Slots
    BY BackFacts DEF Front, TypeOK
  <2> HIDE DEF d
  <2>4. Back(Front, d) \in Slots
    BY <2>2, <2>3, BackFacts
  <2> QED
    BY <2>1, <2>2, <2>4, QueueAssumption DEF StampInv, RecentStamps
<1> QED
  BY <1>1, TypeCorrect, StampInvariant, PTL
-----------------------------------------------------------------------------
(* Counting workers: those that hold an event or are on the way to one,    *)
(* those counted in the concurrency, and those that have left thread_run.  *)
Holding == {w \in Workers : pc[w] \in InQueueCode \cup InEvent}
Busy    == {w \in Workers : pc[w] \in InEvent \cup {"stamp"}}
Gone    == {w \in Workers : pc[w] \in {"left", "done"}}

(* Without --rate no worker comes to the queue.                            *)
QueueInv == ~opt.rate => \A w \in Workers : pc[w] \notin InQueueCode

ConcurrencyInv == QueueInv /\ ConcurrencyAccounted

(* Once the limit is enabled, and what was executed in the warm-up taken   *)
(* off, the events executed and in hand are covered by the tickets below   *)
(* the limit and, after a warm-up, by one event for each worker.           *)
Extra == IF opt.warmup THEN Cardinality(Workers) ELSE 0
Tickets == IF nevents <= limit THEN nevents ELSE limit

LimitInv ==
  /\ mpc # "warmup" => limit = opt.limit
  /\ mpc \in {"warmup", "checkpoint"} => opt.warmup
  /\ opt.limit > 0 /\ mpc \in {"join", "cancel"} =>
       executed + Cardinality(Holding) <= Tickets + Extra

(* A step of worker w moves only w.                                        *)
OthersStay(w) == \A x \in Workers \ {w} : pc'[x] = pc[x]

LEMMA WorkersCount ==
  ASSUME NEW S \in SUBSET Workers
  PROVE  /\ IsFiniteSet(S) /\ Cardinality(S) \in Nat
         /\ Cardinality(S) <= Cardinality(Workers) /\ Cardinality(Workers) \in Nat
BY QueueAssumption, FS_Subset, FS_CardinalityType

(* A set of workers that changes by w alone changes its size by at most    *)
(* one.                                                                    *)
LEMMA OneWorker ==
  ASSUME NEW S \in SUBSET Workers, NEW T \in SUBSET Workers, NEW w \in Workers,
         \A x \in Workers \ {w} : x \in S <=> x \in T
  PROVE  /\ w \in S /\ w \notin T => Cardinality(T) = Cardinality(S) - 1
         /\ w \notin S /\ w \in T => Cardinality(T) = Cardinality(S) + 1
         /\ (w \in S <=> w \in T) => T = S
<1>1. IsFiniteSet(S)
  BY WorkersCount
<1>2. CASE w \in S /\ w \notin T
  <2>1. T = S \ {w}
    BY <1>2
  <2> QED
    BY <1>1, <1>2, <2>1, FS_RemoveElement
<1>3. CASE w \notin S /\ w \in T
  <2>1. T = S \cup {w}
    BY <1>3
  <2> QED
    BY <1>1, <1>3, <2>1, FS_AddElement
<1>4. CASE w \in S <=> w \in T
  <2>1. T = S
    BY <1>4
  <2> QED
    BY <1>4, <2>1
<1> QED
  BY <1>2, <1>3, <1>4

(* What a step of worker w does to its position and to the counters: the   *)
(* moves into and out of Busy, Busy \cup Gone and Holding.                 *)
Queueing == {"dequeue", "empty", "sleep", "waiting", "enter"}

Move(w) ==
  \/ /\ pc'[w] = pc[w] /\ UNCHANGED <<concurrency, executed, nevents>>
  \/ /\ pc[w] = "check" /\ pc'[w] \in {"ticket", "left"}
     /\ UNCHANGED <<concurrency, executed, nevents>>
  \/ /\ pc[w] = "ticket" /\ pc'[w] = (IF opt.rate THEN "dequeue" ELSE "event")
     /\ UNCHANGED <<concurrency, executed>>
     /\ IF limit = 0 THEN nevents' = nevents ELSE nevents' = nevents + 1 /\ nevents < limit
  \/ /\ pc[w] = "ticket" /\ pc'[w] = "left" /\ UNCHANGED <<concurrency, executed>>
     /\ nevents' = nevents + 1 /\ limit # 0 /\ nevents >= limit
  \/ /\ pc[w] \in Queueing /\ pc'[w] \in Queueing \cup {"left"}
     /\ UNCHANGED <<concurrency, executed, nevents>>
  \/ /\ pc[w] = "enter" /\ pc'[w] = "stamp" /\ concurrency' = concurrency + 1
     /\ UNCHANGED <<executed, nevents>>
  \/ /\ pc[w] \in InEvent \cup {"stamp"} /\ pc'[w] \in InEvent \cup {"left"}
     /\ UNCHANGED <<concurrency, executed, nevents>>
  \/ /\ pc[w] = "stop" /\ pc'[w] = "check" /\ executed' \in {executed, executed + 1}
     /\ concurrency' = (IF opt.rate THEN concurrency - 1 ELSE concurrency)
     /\ UNCHANGED nevents
  \/ /\ pc[w] = "left" /\ pc'[w] = "done" /\ UNCHANGED <<concurrency, executed, nevents>>

LEMMA WorkerMoves ==
  ASSUME TypeOK, NEW w \in Workers, Worker(w)
  PROVE  Move(w) /\ OthersStay(w) /\ UNCHANGED <<opt, limit, mpc>>
<1> USE DEF TypeOK, WorkerStep, Goto, Move, OthersStay, globals, queueVars, workerVars,
        Queueing, InEvent
<1>1. CASE CheckStop(w)
  BY <1>1 DEF CheckStop
<1>2. CASE TakeTicket(w)
  BY <1>2 DEF TakeTicket
<1>3. CASE Dequeue(w)
  BY <1>3 DEF Dequeue
<1>4. CASE FindEmpty(w) \/ TestError(w) \/ Sleep(w) \/ Recheck(w)
  BY <1>4 DEF FindEmpty, TestError, Sleep, Recheck
<1>5. CASE Enter(w)
  BY <1>5 DEF Enter
<1>6. CASE ReadStamp(w) \/ LeaveLoop(w) \/ StartEvent(w) \/ ExecuteEvent(w)
  BY <1>6 DEF ReadStamp, LeaveLoop, StartEvent, ExecuteEvent
<1>7. CASE StopEvent(w)
  BY <1>7 DEF StopEvent
<1>8. CASE FinishWorker(w)
  BY <1>8 DEF FinishWorker
<1>9. CASE Crash(w)
  BY <1>9 DEF Crash
<1> QED
  BY <1>1, <1>2, <1>3, <1>4, <1>5, <1>6, <1>7, <1>8, <1>9 DEF Worker

(* A step of any other kind moves no worker and counts no event.           *)
LEMMA OthersMove ==
  ASSUME \/ \E w \in Workers : WakeSpuriously(w)
         \/ Generator \/ Main \/ Expire \/ UNCHANGED vars
  PROVE  /\ UNCHANGED <<opt, pc, concurrency, nevents>>
         /\ \/ UNCHANGED <<mpc, limit, executed>>
            \/ mpc = "warmup" /\ mpc' = "checkpoint" /\ limit' = opt.limit
            \/ mpc = "checkpoint" /\ mpc' = "join" /\ executed' = 0 /\ limit' = limit
            \/ mpc = "join" /\ mpc' = "cancel" /\ UNCHANGED <<limit, executed>>
BY DEF WakeSpuriously, WorkerStep, Generator, GeneratorStep, CheckTime, Nanosleep, Arrive,
       Enqueue, QueueFull, Signal, Broadcast, Cancelled, Main, MainStep, EnableLimit,
       Checkpoint, JoinWorkers, Expire, vars, globals, queueVars, workerVars, generatorVars

-----------------------------------------------------------------------------
(* The concurrency is counted up when a worker takes an event from the     *)
(* queue and down when the event is executed.                              *)
LEMMA ConcurrencyWorker ==
  ASSUME TypeOK, ConcurrencyInv, NEW w \in Workers, Worker(w)
  PROVE  ConcurrencyInv'
<1>1. Move(w) /\ OthersStay(w) /\ opt' = opt
  BY WorkerMoves
<1>2. QueueInv'
  BY <1>1 DEF Move, OthersStay, ConcurrencyInv, QueueInv, InQueueCode, InEvent, Queueing
<1>3. CASE ~opt.rate
  <2>1. concurrency = 0 /\ pc[w] \notin InQueueCode
    BY <1>3 DEF ConcurrencyInv, QueueInv, ConcurrencyAccounted
  <2>2. concurrency' = 0
    BY <1>1, <1>3, <2>1 DEF Move, InQueueCode
  <2> QED
    BY <1>1, <1>2, <1>3, <2>2 DEF ConcurrencyInv, ConcurrencyAccounted
<1>4. CASE opt.rate
  <2> DEFINE Both == Busy \cup Gone
  <2>1. /\ Busy \in SUBSET Workers /\ Busy' \in SUBSET Workers
        /\ Both \in SUBSET Workers /\ Both' \in SUBSET Workers
    BY DEF Busy, Gone
  <2>2. /\ \A x \in Workers \ {w} : x \in Busy <=> x \in Busy'
        /\ \A x \in Workers \ {w} : x \in Both <=> x \in Both'
    BY <1>1 DEF OthersStay, Busy, Gone
  <2>3. /\ w \in Busy /\ w \notin Busy' => Cardinality(Busy') = Cardinality(Busy) - 1
        /\ w \notin Busy /\ w \in Busy' => Cardinality(Busy') = Cardinality(Busy) + 1
        /\ (w \in Busy <=> w \in Busy') => Busy' = Busy
    BY <2>1, <2>2, OneWorker
  <2>4. /\ w \in Both /\ w \notin Both' => Cardinality(Both') = Cardinality(Both) - 1
        /\ w \notin Both /\ w \in Both' => Cardinality(Both') = Cardinality(Both) + 1
        /\ (w \in Both <=> w \in Both') => Both' = Both
    BY <2>1, <2>2, OneWorker
  <2>5. /\ Cardinality(Busy) \in Nat /\ Cardinality(Busy') \in Nat
        /\ Cardinality(Both) \in Nat /\ Cardinality(Both') \in Nat
    BY <2>1, WorkersCount
  <2>6. concurrency \in Cardinality(Busy)..Cardinality(Both)
    BY <1>4 DEF ConcurrencyInv, ConcurrencyAccounted, Busy, Gone
  <2>7. \/ /\ concurrency' = concurrency
           /\ w \in Busy' => w \in Busy
           /\ w \in Both => w \in Both'
        \/ /\ concurrency' = concurrency + 1
           /\ w \notin Both /\ w \in Busy'
        \/ /\ concurrency' = concurrency - 1
           /\ w \in Busy /\ w \notin Both'
    BY <1>1, <1>4 DEF Move, Busy, Gone, Queueing, InEvent
  <2>8. w \in Busy => w \in Both
    OBVIOUS
  <2>9. w \in Busy' => w \in Both'
    OBVIOUS
  <2> HIDE DEF Both
  <2>10. concurrency' \in Cardinality(Busy')..Cardinality(Both')
    BY <2>3, <2>4, <2>5, <2>6, <2>7, <2>8, <2>9
  <2> QED
    BY <1>1, <1>2, <1>4, <2>10 DEF ConcurrencyInv, ConcurrencyAccounted, Busy, Gone, Both
<1> QED
  BY <1>3, <1>4 DEF TypeOK

(* The concurrency that --rate reports counts the workers with an event in *)
(* hand, and at most those that left with one (sb_more_events,             *)
(* sb_event_stop).                                                         *)
THEOREM ConcurrencyCorrect == Spec => []ConcurrencyAccounted
<1>1. Init => ConcurrencyInv
  <2> SUFFICES ASSUME Init PROVE ConcurrencyInv
    OBVIOUS
  <2>1. Busy = {} /\ Gone = {} /\ concurrency = 0
    BY DEF Init, Busy, Gone, InEvent
  <2>2. ConcurrencyAccounted
    BY <2>1, FS_EmptySet DEF ConcurrencyAccounted, Busy, Gone
  <2> QED
    BY <2>2 DEF Init, ConcurrencyInv, QueueInv, InQueueCode
<1>2. TypeOK /\ ConcurrencyInv /\ [Next]_vars => ConcurrencyInv'
  <2> SUFFICES ASSUME TypeOK, ConcurrencyInv, [Next]_vars PROVE ConcurrencyInv'
    OBVIOUS
  <2>1. ASSUME NEW w \in Workers, Worker(w) PROVE ConcurrencyInv'
    BY <2>1, ConcurrencyWorker
  <2>2. CASE \/ \E w \in Workers : WakeSpuriously(w)
             \/ Generator \/ Main \/ Expire \/ UNCHANGED vars
    <3>1. UNCHANGED <<opt, pc, concurrency>>
      BY <2>2, OthersMove
    <3> QED
      BY <3>1 DEF ConcurrencyInv, QueueInv, ConcurrencyAccounted
  <2> QED
    BY <2>1, <2>2 DEF Next
<1>3. ConcurrencyInv => ConcurrencyAccounted
  BY DEF ConcurrencyInv
<1> QED
  BY <1>1, <1>2, <1>3, TypeCorrect, PTL DEF Spec

-----------------------------------------------------------------------------
(* An event in hand is covered by the ticket with which it was begun.      *)
LEMMA LimitWorker ==
  ASSUME TypeOK, LimitInv, NEW w \in Workers, Worker(w)
  PROVE  LimitInv'
<1>1. Move(w) /\ OthersStay(w) /\ UNCHANGED <<opt, limit, mpc>>
  BY WorkerMoves
<1>2. SUFFICES ASSUME opt.limit > 0, mpc \in {"join", "cancel"}
               PROVE  executed' + Cardinality(Holding') <= Tickets' + Extra
  BY <1>1 DEF LimitInv, Extra
<1>3. Holding \in SUBSET Workers /\ Holding' \in SUBSET Workers
  BY DEF Holding
<1>4. \A x \in Workers \ {w} : x \in Holding <=> x \in Holding'
  BY <1>1 DEF OthersStay, Holding
<1>5. /\ w \in Holding /\ w \notin Holding' => Cardinality(Holding') = Cardinality(Holding) - 1
      /\ w \notin Holding /\ w \in Holding' => Cardinality(Holding') = Cardinality(Holding) + 1
      /\ (w \in Holding <=> w \in Holding') => Holding' = Holding
  BY <1>3, <1>4, OneWorker
<1>6. Cardinality(Holding) \in Nat /\ Cardinality(Holding') \in Nat /\ Extra \in Nat
  BY <1>3, WorkersCount, QueueAssumption, FS_CardinalityType DEF Extra
<1>7. limit \in Nat /\ nevents \in Nat /\ executed \in Nat /\ limit > 0
  BY <1>2 DEF TypeOK, LimitInv
<1>8. executed + Cardinality(Holding) <= Tickets + Extra
  BY <1>2 DEF LimitInv
<1>9. \/ /\ executed' = executed /\ nevents' = nevents
         /\ w \in Holding' => w \in Holding
      \/ /\ executed' = executed /\ nevents' = nevents + 1 /\ nevents < limit
         /\ w \notin Holding /\ w \in Holding'
      \/ /\ executed' = executed /\ nevents' = nevents + 1 /\ nevents >= limit
         /\ w \notin Holding' /\ w \notin Holding
      \/ /\ executed' \in {executed, executed + 1} /\ nevents' = nevents
         /\ w \in Holding /\ w \notin Holding'
  BY <1>1, <1>7 DEF Move, Holding, InQueueCode, InEvent, Queueing
<1>10. Tickets \in Nat /\ Tickets' \in Nat /\ limit' = limit
  BY <1>1, <1>7, <1>9 DEF Tickets
<1> QED
  BY <1>5, <1>6, <1>7, <1>8, <1>9, <1>10 DEF Tickets

(* No interleaving of the workers executes more events than --events       *)
(* allows, with one on top for each worker after a warm-up                 *)
(* (sb_more_events, run_test).                                             *)
THEOREM EventLimitCorrect == Spec => []EventLimit
<1>1. Init => LimitInv
  <2> SUFFICES ASSUME Init PROVE LimitInv
    OBVIOUS
  <2>1. Holding = {} /\ executed = 0 /\ nevents = 0
    BY DEF Init, Holding, InQueueCode, InEvent
  <2>2. Cardinality(Holding) = 0 /\ Extra \in Nat
    BY <2>1, FS_EmptySet, QueueAssumption, FS_CardinalityType DEF Extra
  <2>3. opt \in [rate : BOOLEAN, timed : BOOLEAN, warmup : BOOLEAN, limit : Nat]
    BY QueueAssumption DEF Init
  <2> QED
    BY <2>1, <2>2, <2>3 DEF Init, LimitInv, Tickets
<1>2. TypeOK /\ LimitInv /\ [Next]_vars => LimitInv'
  <2> SUFFICES ASSUME TypeOK, LimitInv, [Next]_vars PROVE LimitInv'
    OBVIOUS
  <2>1. ASSUME NEW w \in Workers, Worker(w) PROVE LimitInv'
    BY <2>1, LimitWorker
  <2>2. CASE \/ \E w \in Workers : WakeSpuriously(w)
             \/ Generator \/ Main \/ Expire \/ UNCHANGED vars
    <3>1. /\ UNCHANGED <<opt, pc, nevents>>
          /\ \/ UNCHANGED <<mpc, limit, executed>>
             \/ mpc = "warmup" /\ mpc' = "checkpoint" /\ limit' = opt.limit
             \/ mpc = "checkpoint" /\ mpc' = "join" /\ executed' = 0 /\ limit' = limit
             \/ mpc = "join" /\ mpc' = "cancel" /\ UNCHANGED <<limit, executed>>
      BY <2>2, OthersMove
    <3>2. Holding' = Holding /\ Extra' = Extra
      BY <3>1 DEF Holding, Extra
    <3>3. mpc = "checkpoint" => 0 + Cardinality(Holding) <= Tickets + Extra
      <4>1. Cardinality(Holding) \in Nat /\ Cardinality(Holding) <= Cardinality(Workers)
        BY WorkersCount DEF Holding
      <4>2. Tickets \in Nat /\ Cardinality(Workers) \in Nat
        BY QueueAssumption, FS_CardinalityType DEF TypeOK, Tickets
      <4> QED
        BY <4>1, <4>2 DEF LimitInv, Extra
    <3> QED
      BY <3>1, <3>2, <3>3 DEF LimitInv, Tickets
  <2> QED
    BY <2>1, <2>2 DEF Next
<1>3. TypeOK /\ LimitInv => EventLimit
  <2> SUFFICES ASSUME TypeOK, LimitInv, opt.limit > 0, mpc \in {"join", "cancel"}
               PROVE  executed <= opt.limit + Extra
    BY DEF EventLimit, Extra
  <2>1. Cardinality(Holding) \in Nat /\ Extra \in Nat
    BY WorkersCount, QueueAssumption, FS_CardinalityType DEF Holding, Extra
  <2>2. executed \in Nat /\ Tickets \in Nat /\ Tickets <= limit /\ limit = opt.limit /\ limit \in Nat
    BY DEF TypeOK, LimitInv, Tickets
  <2> QED
    BY <2>1, <2>2 DEF LimitInv
<1> QED
  BY <1>1, <1>2, <1>3, TypeCorrect, PTL DEF Spec
=============================================================================
