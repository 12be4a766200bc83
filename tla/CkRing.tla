------------------------------- MODULE CkRing -------------------------------
(***************************************************************************)
(* The lock-free ring of concurrency_kit in the configuration sysbench     *)
(* uses: one producer (the event generator) calls ck_ring_enqueue_spmc,    *)
(* any number of consumers (the workers) call ck_ring_dequeue_spmc.  Every *)
(* load, store and compare-and-swap of a shared word is a step of its own; *)
(* the fences of the code order them as they are written.                  *)
(*                                                                         *)
(* c_head and p_tail are C unsigned ints: they count modulo CounterMod and *)
(* are reduced with the mask only to index the buffer.                     *)
(***************************************************************************)
EXTENDS Naturals, Sequences

CONSTANTS Consumers,   \* the worker threads
          Size,        \* slots of the ring, a power of two (MAX_QUEUE_LEN)
          CounterMod,  \* 2^32 in the code
          Starts,      \* counter values at which an empty ring may be met
          MaxEvents,   \* bound: enqueues that are accepted in a behaviour
          Empty        \* marks "no value"

Events == 1..MaxEvents

(* A consumer that sleeps while the counters go all the way round could    *)
(* see its stale snapshot succeed; that takes CounterMod dequeues, which   *)
(* the bound on events keeps out of the model.                             *)
ASSUME RingAssumption ==
  /\ Size \in Nat \ {0, 1}
  /\ CounterMod \in Nat /\ CounterMod % Size = 0 /\ CounterMod > Size
  /\ Starts \subseteq 0..(CounterMod - 1)
  /\ MaxEvents \in Nat /\ MaxEvents < CounterMod
  /\ Empty \notin Events

VARIABLES c_head,      \* index of the oldest entry, advanced by consumers
          p_tail,      \* index one past the youngest entry
          buffer,      \* the slots
          next,        \* the value the producer is enqueueing
          ppc,         \* where the producer is in _ck_ring_enqueue_sp
          cpc,         \* where each consumer is in _ck_ring_dequeue_mc
          consumer,    \* each consumer's snapshot of c_head
          data,        \* each consumer's copy of the slot
          got,         \* what each consumer's last call returned
          accepted     \* what the producer's last call returned

vars == <<c_head, p_tail, buffer, next, ppc, cpc, consumer, data, got, accepted>>

producerVars == <<p_tail, buffer, next, ppc, accepted>>
consumerVars == <<cpc, consumer, data, got>>

Inc(n)  == (n + 1) % CounterMod
Slot(n) == n % Size                                   \* n & mask

Init ==
  /\ \E s \in Starts : c_head = s /\ p_tail = s
  /\ buffer = [i \in 0..(Size - 1) |-> Empty]
  /\ next = 1
  /\ ppc = "idle"
  /\ cpc = [c \in Consumers |-> "idle"]
  /\ consumer = [c \in Consumers |-> 0]
  /\ data = [c \in Consumers |-> Empty]
  /\ got = [c \in Consumers |-> Empty]
  /\ accepted = TRUE

-----------------------------------------------------------------------------
(* The producer: load c_head and compare, copy the value into the slot,    *)
(* then publish it by storing p_tail.                                      *)

(* Mutant: the full test lets the producer use the last slot as well. *)
FillsEverySlot ==
  /\ ppc = "idle" /\ next \in Events
  /\ IF Slot(p_tail) = Slot(c_head) /\ p_tail # c_head
       THEN accepted' = FALSE /\ UNCHANGED ppc
       ELSE ppc' = "write" /\ UNCHANGED accepted
  /\ UNCHANGED <<c_head, p_tail, buffer, next, consumerVars>>

EnqueueCheck ==
  /\ ppc = "idle" /\ next \in Events
  /\ IF Slot(Inc(p_tail)) = Slot(c_head)
       THEN accepted' = FALSE /\ UNCHANGED ppc
       ELSE ppc' = "write" /\ UNCHANGED accepted
  /\ UNCHANGED <<c_head, p_tail, buffer, next, consumerVars>>

EnqueueWrite ==
  /\ ppc = "write"
  /\ buffer' = [buffer EXCEPT ![Slot(p_tail)] = next]
  /\ ppc' = "publish"
  /\ UNCHANGED <<c_head, p_tail, next, accepted, consumerVars>>

EnqueuePublish ==
  /\ ppc = "publish"
  /\ p_tail' = Inc(p_tail)
  /\ next' = next + 1
  /\ accepted' = TRUE
  /\ ppc' = "idle"
  /\ UNCHANGED <<c_head, buffer, consumerVars>>

-----------------------------------------------------------------------------
(* A consumer: snapshot c_head once, then loop: compare with p_tail, copy  *)
(* the slot, try to advance c_head; a failed compare-and-swap leaves the   *)
(* current c_head in the snapshot and tries again.                         *)

DequeueStart(c) ==
  /\ cpc[c] = "idle"
  /\ consumer' = [consumer EXCEPT ![c] = c_head]
  /\ cpc' = [cpc EXCEPT ![c] = "tail"]
  /\ UNCHANGED <<c_head, data, got, producerVars>>

(* Mutant: the empty test is off by one entry. *)
LeavesTheLastEntry(c) ==
  /\ cpc[c] = "tail"
  /\ IF p_tail \in {consumer[c], Inc(consumer[c])}
       THEN /\ got' = [got EXCEPT ![c] = Empty]
            /\ cpc' = [cpc EXCEPT ![c] = "idle"]
       ELSE /\ cpc' = [cpc EXCEPT ![c] = "copy"]
            /\ UNCHANGED got
  /\ UNCHANGED <<c_head, consumer, data, producerVars>>

DequeueTail(c) ==
  /\ cpc[c] = "tail"
  /\ IF consumer[c] = p_tail
       THEN /\ got' = [got EXCEPT ![c] = Empty]
            /\ cpc' = [cpc EXCEPT ![c] = "idle"]
       ELSE /\ cpc' = [cpc EXCEPT ![c] = "copy"]
            /\ UNCHANGED got
  /\ UNCHANGED <<c_head, consumer, data, producerVars>>

DequeueCopy(c) ==
  /\ cpc[c] = "copy"
  /\ data' = [data EXCEPT ![c] = buffer[Slot(consumer[c])]]
  /\ cpc' = [cpc EXCEPT ![c] = "cas"]
  /\ UNCHANGED <<c_head, consumer, got, producerVars>>

DequeueWin(c) ==
  /\ cpc[c] = "cas" /\ c_head = consumer[c]
  /\ c_head' = Inc(c_head)
  /\ got' = [got EXCEPT ![c] = data[c]]
  /\ cpc' = [cpc EXCEPT ![c] = "idle"]
  /\ UNCHANGED <<consumer, data, producerVars>>

(* Mutant: the compare-and-swap is retried without copying the new slot. *)
RetriesWithOldCopy(c) ==
  /\ cpc[c] = "cas" /\ c_head # consumer[c]
  /\ consumer' = [consumer EXCEPT ![c] = c_head]
  /\ UNCHANGED <<c_head, cpc, data, got, producerVars>>

DequeueLose(c) ==
  /\ cpc[c] = "cas" /\ c_head # consumer[c]
  /\ consumer' = [consumer EXCEPT ![c] = c_head]
  /\ cpc' = [cpc EXCEPT ![c] = "tail"]
  /\ UNCHANGED <<c_head, data, got, producerVars>>

-----------------------------------------------------------------------------
Producer == EnqueueCheck \/ EnqueueWrite \/ EnqueuePublish

Consumer(c) == \/ DequeueStart(c) \/ DequeueTail(c) \/ DequeueCopy(c)
               \/ DequeueWin(c) \/ DequeueLose(c)

Next == Producer \/ \E c \in Consumers : Consumer(c)

Spec == Init /\ [][Next]_vars

(* Every thread that is inside a call keeps taking its steps; nothing is   *)
(* assumed of when calls are made beyond that.                             *)
FairSpec == /\ Spec
            /\ WF_vars(Producer)
            /\ \A c \in Consumers : WF_vars(Consumer(c))

-----------------------------------------------------------------------------
Used == (p_tail + CounterMod - c_head) % CounterMod

Queue == [k \in 1..Used |-> buffer[Slot(c_head + k - 1)]]

(* The counters stay in the range of their type, never describe more than  *)
(* Size - 1 entries, and each thread's snapshot is one c_head had.         *)
TypeOK ==
  /\ c_head \in 0..(CounterMod - 1) /\ p_tail \in 0..(CounterMod - 1)
  /\ Used <= Size - 1
  /\ buffer \in [0..(Size - 1) -> Events \cup {Empty}]
  /\ next \in 1..(MaxEvents + 1)
  /\ ppc \in {"idle", "write", "publish"}
  /\ cpc \in [Consumers -> {"idle", "tail", "copy", "cas"}]
  /\ consumer \in [Consumers -> 0..(CounterMod - 1)]
  /\ data \in [Consumers -> Events \cup {Empty}]
  /\ got \in [Consumers -> Events \cup {Empty}]
  /\ accepted \in BOOLEAN

(* The linearizability of ck_ring_enqueue_spmc and ck_ring_dequeue_spmc:   *)
(* an enqueue takes effect when it publishes p_tail, a dequeue when its    *)
(* compare-and-swap succeeds, and a call that finds the ring full or empty *)
(* is right about it at the moment it looks, even with a stale snapshot.   *)
Fifo == INSTANCE FifoQueue WITH queue <- Queue, Capacity <- Size - 1

RingIsFifo == Fifo!Spec

(* Lock freedom of the retry loop in _ck_ring_dequeue_mc: while workers    *)
(* keep calling, losing the race for c_head never starves the queue, and   *)
(* every queued event is handed to someone.                                *)
QueuedIsTaken ==
  \A e \in Events : (\E k \in 1..Used : Queue[k] = e)
                      ~> ~(\E k \in 1..Used : Queue[k] = e)
=============================================================================
