------------------------------ MODULE SbBarrier ------------------------------
(***************************************************************************)
(* The thread barrier of sb_barrier.c: a counter, a serial number and an   *)
(* error flag under one mutex, and a condition variable.  sysbench sizes   *)
(* each barrier for exactly the threads that use it (run_test), so the     *)
(* number of threads is init_count.  The mutex is held between two steps   *)
(* of a thread only while the last thread to arrive runs the callback.     *)
(***************************************************************************)
EXTENDS Integers, FiniteSets

CONSTANTS Threads,     \* the threads that wait at this barrier
          SerialMod,   \* the serial number is an unsigned int: 2^32 in the code
          CanFail,     \* whether a callback is installed that can return nonzero
          NoThread     \* the mutex is free

N == Cardinality(Threads)                               \* barrier->init_count

ASSUME BarrierAssumption ==
  /\ IsFiniteSet(Threads) /\ Threads # {}
  /\ SerialMod \in Nat \ {0, 1}
  /\ CanFail \in BOOLEAN
  /\ NoThread \notin Threads

VARIABLES count,       \* arrivals still missing in this round
          serial,      \* the number of the round, modulo SerialMod
          error,       \* set by a failed callback, never reset
          mutex,       \* the thread that holds the mutex
          blocked,     \* the threads the condition variable holds
          pc,          \* "out", "callback" (last to arrive) or "waiting"
          mySerial,    \* a waiting thread's copy of the serial number
          result       \* what each thread's last call returned

vars == <<count, serial, error, mutex, blocked, pc, mySerial, result>>

Init == /\ count = N
        /\ serial = 0
        /\ error = FALSE
        /\ mutex = NoThread
        /\ blocked = {}
        /\ pc = [t \in Threads |-> "out"]
        /\ mySerial = [t \in Threads |-> 0]
        /\ result = [t \in Threads |-> 0]

NextSerial == IF serial + 1 = SerialMod THEN 0 ELSE serial + 1

(* A call of sb_barrier_wait by a thread that is not the last: it goes to  *)
(* sleep on the condition variable, which releases the mutex.              *)
ArriveEarly(t) ==
  /\ pc[t] = "out" /\ result[t] # -1
  /\ mutex = NoThread /\ count # 1
  /\ count' = count - 1
  /\ mySerial' = [mySerial EXCEPT ![t] = serial]
  /\ blocked' = blocked \cup {t}
  /\ pc' = [pc EXCEPT ![t] = "waiting"]
  /\ UNCHANGED <<serial, error, mutex, result>>

(* Mutants: the count is not set up for the next round; one waiter is      *)
(* signalled where all have to be woken.                                   *)
KeepsCount(t) ==
  /\ pc[t] = "out" /\ result[t] # -1
  /\ mutex = NoThread /\ count = 1
  /\ serial' = NextSerial
  /\ count' = count - 1
  /\ blocked' = {}
  /\ mutex' = t
  /\ pc' = [pc EXCEPT ![t] = "callback"]
  /\ UNCHANGED <<error, mySerial, result>>

SignalsOne(t) ==
  /\ pc[t] = "out" /\ result[t] # -1
  /\ mutex = NoThread /\ count = 1
  /\ serial' = NextSerial
  /\ count' = N
  /\ IF blocked = {} THEN UNCHANGED blocked
                     ELSE \E u \in blocked : blocked' = blocked \ {u}
  /\ mutex' = t
  /\ pc' = [pc EXCEPT ![t] = "callback"]
  /\ UNCHANGED <<error, mySerial, result>>

(* The last thread opens the next round and broadcasts, all before the     *)
(* callback; it keeps the mutex.                                           *)
ArriveLast(t) ==
  /\ pc[t] = "out" /\ result[t] # -1
  /\ mutex = NoThread /\ count = 1
  /\ serial' = NextSerial
  /\ count' = N
  /\ blocked' = {}
  /\ mutex' = t
  /\ pc' = [pc EXCEPT ![t] = "callback"]
  /\ UNCHANGED <<error, mySerial, result>>

CallbackOk(t) ==
  /\ pc[t] = "callback"
  /\ result' = [result EXCEPT ![t] = 1]
  /\ mutex' = NoThread
  /\ pc' = [pc EXCEPT ![t] = "out"]
  /\ UNCHANGED <<count, serial, error, blocked, mySerial>>

(* Mutant: only the serial thread learns of the failure. *)
FailsAlone(t) ==
  /\ CanFail
  /\ pc[t] = "callback"
  /\ result' = [result EXCEPT ![t] = -1]
  /\ mutex' = NoThread
  /\ pc' = [pc EXCEPT ![t] = "out"]
  /\ UNCHANGED <<count, serial, error, blocked, mySerial>>

CallbackFails(t) ==
  /\ CanFail
  /\ pc[t] = "callback"
  /\ error' = TRUE
  /\ result' = [result EXCEPT ![t] = -1]
  /\ mutex' = NoThread
  /\ pc' = [pc EXCEPT ![t] = "out"]
  /\ UNCHANGED <<count, serial, blocked, mySerial>>

(* pthread_cond_wait may return without a broadcast. *)
WakeSpuriously(t) ==
  /\ t \in blocked
  /\ blocked' = blocked \ {t}
  /\ UNCHANGED <<count, serial, error, mutex, pc, mySerial, result>>

(* A woken thread gets the mutex back and compares the serial numbers.     *)
SleepAgain(t) ==
  /\ pc[t] = "waiting" /\ t \notin blocked /\ mutex = NoThread
  /\ mySerial[t] = serial
  /\ blocked' = blocked \cup {t}
  /\ UNCHANGED <<count, serial, error, mutex, pc, mySerial, result>>

(* Mutant: the serial numbers are compared with <, which fails at the wrap. *)
ReturnIfLess(t) ==
  /\ pc[t] = "waiting" /\ t \notin blocked /\ mutex = NoThread
  /\ mySerial[t] < serial
  /\ result' = [result EXCEPT ![t] = IF error THEN -1 ELSE 0]
  /\ pc' = [pc EXCEPT ![t] = "out"]
  /\ UNCHANGED <<count, serial, error, mutex, blocked, mySerial>>

Return(t) ==
  /\ pc[t] = "waiting" /\ t \notin blocked /\ mutex = NoThread
  /\ mySerial[t] # serial
  /\ result' = [result EXCEPT ![t] = IF error THEN -1 ELSE 0]
  /\ pc' = [pc EXCEPT ![t] = "out"]
  /\ UNCHANGED <<count, serial, error, mutex, blocked, mySerial>>

Arrive(t)   == ArriveEarly(t) \/ ArriveLast(t)
Callback(t) == CallbackOk(t) \/ CallbackFails(t)
Resume(t)   == SleepAgain(t) \/ Return(t)

Next == \E t \in Threads :
          Arrive(t) \/ Callback(t) \/ WakeSpuriously(t) \/ Resume(t)

Spec == Init /\ [][Next]_vars

(* A thread that has called sb_barrier_wait keeps running; whether a       *)
(* thread ever calls it again is not assumed.                              *)
FairSpec == Spec /\ \A t \in Threads : WF_vars(Callback(t)) /\ WF_vars(Resume(t))

-----------------------------------------------------------------------------
InCallback == mutex # NoThread

(* Waiting threads whose round is over. *)
Released == {t \in Threads : pc[t] = "waiting" /\ mySerial[t] # serial}
Waiters  == {t \in Threads : pc[t] = "waiting" /\ mySerial[t] = serial}

(* The types; a thread is in the callback exactly when it has the mutex,   *)
(* and count is what the round still misses.                               *)
TypeOK ==
  /\ count \in 1..N
  /\ serial \in 0..(SerialMod - 1)
  /\ error \in BOOLEAN
  /\ mutex \in Threads \cup {NoThread}
  /\ blocked \subseteq {t \in Threads : pc[t] = "waiting"}
  /\ pc \in [Threads -> {"out", "callback", "waiting"}]
  /\ mySerial \in [Threads -> 0..(SerialMod - 1)]
  /\ result \in [Threads -> {-1, 0, 1}]

(* No wake-up is lost: whoever still sleeps on the condition variable      *)
(* belongs to the round that is being collected.                           *)
SleepersAreCurrent == \A t \in blocked : mySerial[t] = serial

(* sb_barrier_wait implements the rendezvous: the threads leave together,  *)
(* at the end of the callback, with one verdict, although they get the     *)
(* mutex back one by one and a fast thread may already wait again.         *)
Meeting == INSTANCE Rendezvous WITH
  inside <- IF InCallback THEN Threads ELSE Waiters,
  result <- IF InCallback THEN result
            ELSE [t \in Threads |-> IF t \in Released THEN (IF error THEN -1 ELSE 0)
                                                      ELSE result[t]]

IsRendezvous == Meeting!Spec

(* When all threads have come, all of them get away. *)
EveryoneLeaves ==
  \A t \in Threads : (InCallback \/ t \in Released) ~> pc[t] = "out"
=============================================================================
