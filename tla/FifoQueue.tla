------------------------------ MODULE FifoQueue ------------------------------
(***************************************************************************)
(* What the single-producer, multiple-consumer event queue promises: a     *)
(* bounded FIFO queue whose operations take effect in one step.  The       *)
(* rate-limited event loop of sysbench.c is written against this promise:  *)
(* an event is handed to exactly one worker, in the order of generation;   *)
(* an enqueue is refused only when the queue is full and a dequeue only    *)
(* when it is empty.  Module CkRing shows that the lock-free ring keeps it.*)
(***************************************************************************)
EXTENDS Naturals, Sequences

CONSTANTS Consumers,   \* the threads that dequeue
          Events,      \* the values that can be queued
          Capacity,    \* the largest number of queued values
          Empty        \* what a dequeue that found nothing reports

VARIABLES queue,       \* the queued values, oldest first
          got,         \* got[c]: what consumer c's last dequeue returned
          accepted     \* what the producer's last enqueue returned

vars == <<queue, got, accepted>>

Init == /\ queue = <<>>
        /\ got = [c \in Consumers |-> Empty]
        /\ accepted = TRUE

Enqueue(v) == /\ Len(queue) < Capacity
              /\ queue' = Append(queue, v)
              /\ accepted' = TRUE
              /\ UNCHANGED got

Refuse == /\ Len(queue) = Capacity
          /\ accepted' = FALSE
          /\ UNCHANGED <<queue, got>>

Dequeue(c) == /\ queue # <<>>
              /\ got' = [got EXCEPT ![c] = Head(queue)]
              /\ queue' = Tail(queue)
              /\ UNCHANGED accepted

FindEmpty(c) == /\ queue = <<>>
                /\ got' = [got EXCEPT ![c] = Empty]
                /\ UNCHANGED <<queue, accepted>>

Next == \/ \E v \in Events : Enqueue(v)
        \/ Refuse
        \/ \E c \in Consumers : Dequeue(c) \/ FindEmpty(c)

Spec == Init /\ [][Next]_vars
=============================================================================
