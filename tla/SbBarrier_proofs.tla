--------------------------- MODULE SbBarrier_proofs ---------------------------
(***************************************************************************)
(* sb_barrier_wait implements the rendezvous for any set of threads and    *)
(* any width of the serial number that has at least one bit.               *)
(*                                                                         *)
(* The invariant behind it: what count lacks is the number of waiters of   *)
(* the current round; while one thread runs the callback, all the others   *)
(* belong to a round that is over; and once the callback has failed, each  *)
(* thread has its negative verdict or is about to get it.                  *)
(***************************************************************************)
EXTENDS SbBarrier, FiniteSetTheorems, TLAPS

CountInv == count = N - Cardinality(Waiters)

CallbackInv ==
  /\ \A t \in Threads : pc[t] = "callback" => mutex = t
  /\ InCallback => /\ pc[mutex] = "callback"
                   /\ \A t \in Threads \ {mutex} : t \in Released

ErrorInv ==
  error => /\ ~InCallback
           /\ \A t \in Threads : t \in Released \/ (pc[t] = "out" /\ result[t] = -1)

BarrierInv == CountInv /\ CallbackInv /\ ErrorInv /\ SleepersAreCurrent

-----------------------------------------------------------------------------
LEMMA NIsPositive == N \in Nat \ {0}
  BY BarrierAssumption, FS_CardinalityType, FS_EmptySet DEF N

LEMMA NextSerialDiffers ==
  ASSUME TypeOK
  PROVE  NextSerial \in 0..(SerialMod - 1) /\ NextSerial # serial
  BY BarrierAssumption DEF TypeOK, NextSerial

LEMMA WaitersFinite == IsFiniteSet(Waiters) /\ Cardinality(Waiters) \in Nat
<1>1. Waiters \subseteq Threads
  BY DEF Waiters
<1> QED
  BY <1>1, BarrierAssumption, FS_Subset, FS_CardinalityType

(* When one arrival is missing, the thread outside is the only one.        *)
LEMMA LastOne ==
  ASSUME TypeOK, CountInv, count = 1, NEW t \in Threads, t \notin Waiters
  PROVE  Waiters = Threads \ {t}
<1>1. Cardinality(Waiters) = N - 1
  BY WaitersFinite, NIsPositive DEF CountInv
<1>2. IsFiniteSet(Threads \ {t}) /\ Cardinality(Threads \ {t}) = N - 1
  BY BarrierAssumption, FS_RemoveElement DEF N
<1>3. Waiters \subseteq Threads \ {t}
  BY DEF Waiters
<1> QED
  BY <1>1, <1>2, <1>3, FS_Subset

-----------------------------------------------------------------------------
(* The types hold, so the mutex is held exactly during the callback and    *)
(* the counter never falls to zero between two calls.                      *)
THEOREM BarrierTypeCorrect == Spec => []TypeOK
<1>1. Init => TypeOK
  <2> SUFFICES ASSUME Init PROVE TypeOK
    OBVIOUS
  <2>1. count \in 1..N /\ 0 \in 0..(SerialMod - 1)
    BY NIsPositive, BarrierAssumption DEF Init
  <2>2. /\ pc \in [Threads -> {"out", "callback", "waiting"}]
        /\ mySerial \in [Threads -> 0..(SerialMod - 1)]
        /\ result \in [Threads -> {-1, 0, 1}]
    BY <2>1 DEF Init
  <2> QED
    BY <2>1, <2>2 DEF Init, TypeOK
<1>2. TypeOK /\ [Next]_vars => TypeOK'
  <2> SUFFICES ASSUME TypeOK, [Next]_vars PROVE TypeOK'
    OBVIOUS
  <2> USE DEF TypeOK
  <2>1. ASSUME NEW t \in Threads, ArriveEarly(t) PROVE TypeOK'
    BY <2>1, NIsPositive DEF ArriveEarly
  <2>2. ASSUME NEW t \in Threads, ArriveLast(t) PROVE TypeOK'
    BY <2>2, NIsPositive, NextSerialDiffers DEF ArriveLast
  <2>3. ASSUME NEW t \in Threads, CallbackOk(t) PROVE TypeOK'
    BY <2>3 DEF CallbackOk
  <2>4. ASSUME NEW t \in Threads, CallbackFails(t) PROVE TypeOK'
    BY <2>4 DEF CallbackFails
  <2>5. ASSUME NEW t \in Threads, WakeSpuriously(t) PROVE TypeOK'
    BY <2>5 DEF WakeSpuriously
  <2>6. ASSUME NEW t \in Threads, SleepAgain(t) PROVE TypeOK'
    BY <2>6 DEF SleepAgain
  <2>7. ASSUME NEW t \in Threads, Return(t) PROVE TypeOK'
    BY <2>7 DEF Return
  <2>8. CASE UNCHANGED vars
    BY <2>8 DEF vars
  <2> QED
    BY <2>1, <2>2, <2>3, <2>4, <2>5, <2>6, <2>7, <2>8
    DEF Next, Arrive, Callback, Resume
<1> QED
  BY <1>1, <1>2, PTL DEF Spec

-----------------------------------------------------------------------------
LEMMA BarrierInit == Init => BarrierInv
<1> SUFFICES ASSUME Init PROVE BarrierInv
  OBVIOUS
<1>1. Waiters = {}
  BY DEF Init, Waiters
<1>2. CountInv
  BY <1>1, NIsPositive, FS_EmptySet DEF Init, CountInv
<1>3. CallbackInv /\ ErrorInv /\ SleepersAreCurrent
  BY DEF Init, CallbackInv, ErrorInv, SleepersAreCurrent, InCallback
<1> QED
  BY <1>2, <1>3 DEF BarrierInv

(* What the invariant says while a thread runs the callback. *)
LEMMA DuringCallback ==
  ASSUME TypeOK, BarrierInv, NEW t \in Threads, pc[t] = "callback"
  PROVE  /\ mutex = t /\ InCallback /\ ~error
         /\ Waiters = {}
         /\ \A u \in Threads \ {t} : u \in Released
  BY BarrierAssumption DEF BarrierInv, CallbackInv, ErrorInv, InCallback, Waiters, Released

LEMMA BarrierStep ==
  ASSUME TypeOK, BarrierInv, [Next]_vars
  PROVE  BarrierInv'
<1> USE DEF TypeOK
<1>1. ASSUME NEW t \in Threads, ArriveEarly(t) PROVE BarrierInv'
  <2>1. Waiters' = Waiters \cup {t} /\ t \notin Waiters /\ Released' = Released
    BY <1>1 DEF ArriveEarly, Waiters, Released
  <2>2. CountInv'
    <3>1. Cardinality(Waiters \cup {t}) = Cardinality(Waiters) + 1
      BY <2>1, WaitersFinite, FS_AddElement
    <3>2. count' = count - 1
      BY <1>1 DEF ArriveEarly
    <3> QED
      BY <2>1, <3>1, <3>2, WaitersFinite, NIsPositive DEF BarrierInv, CountInv
  <2>3. CallbackInv'
    BY <1>1 DEF ArriveEarly, BarrierInv, CallbackInv, InCallback
  <2>4. ErrorInv'
    BY <1>1, <2>1 DEF ArriveEarly, BarrierInv, ErrorInv, Released
  <2>5. SleepersAreCurrent'
    BY <1>1 DEF ArriveEarly, BarrierInv, SleepersAreCurrent
  <2> QED
    BY <2>2, <2>3, <2>4, <2>5 DEF BarrierInv
<1>2. ASSUME NEW t \in Threads, ArriveLast(t) PROVE BarrierInv'
  <2>1. Waiters = Threads \ {t}
    BY <1>2, LastOne DEF ArriveLast, BarrierInv, Waiters
  <2>2. Waiters' = {} /\ \A u \in Threads \ {t} : u \in Released'
    BY <1>2, <2>1, NextSerialDiffers DEF ArriveLast, Waiters, Released
  <2>3. CountInv'
    BY <1>2, <2>2, NIsPositive, FS_EmptySet DEF ArriveLast, CountInv
  <2>4. CallbackInv'
    BY <1>2, <2>1, <2>2 DEF ArriveLast, CallbackInv, Waiters
  <2>5. ErrorInv' /\ SleepersAreCurrent'
    <3>1. ~error
      BY <1>2, <2>1 DEF ArriveLast, BarrierInv, ErrorInv, Waiters, Released
    <3> QED
      BY <1>2, <3>1 DEF ArriveLast, ErrorInv, SleepersAreCurrent
  <2> QED
    BY <2>3, <2>4, <2>5 DEF BarrierInv
<1>3. ASSUME NEW t \in Threads, Callback(t) PROVE BarrierInv'
  <2>1. /\ pc[t] = "callback" /\ mutex' = NoThread
        /\ pc' = [pc EXCEPT ![t] = "out"]
        /\ UNCHANGED <<count, serial, blocked, mySerial>>
    BY <1>3 DEF Callback, CallbackOk, CallbackFails
  <2>2. /\ mutex = t /\ ~error /\ Waiters = {}
        /\ \A u \in Threads \ {t} : u \in Released
    BY <2>1, DuringCallback
  <2>3. Waiters' = {} /\ \A u \in Threads \ {t} : u \in Released'
    BY <2>1, <2>2 DEF Waiters, Released
  <2>4. CountInv'
    BY <2>1, <2>2, <2>3 DEF BarrierInv, CountInv
  <2>5. CallbackInv' /\ SleepersAreCurrent'
    BY <2>1, <2>2, <2>3 DEF BarrierInv, CallbackInv, SleepersAreCurrent, InCallback, Released
  <2>6. ErrorInv'
    <3>1. ~InCallback'
      BY <2>1 DEF InCallback
    <3>2. error' => result'[t] = -1
      BY <1>3, <2>2 DEF Callback, CallbackOk, CallbackFails
    <3> QED
      BY <2>1, <2>3, <3>1, <3>2 DEF ErrorInv
  <2> QED
    BY <2>4, <2>5, <2>6 DEF BarrierInv
<1>4. ASSUME NEW t \in Threads, WakeSpuriously(t) PROVE BarrierInv'
  BY <1>4 DEF WakeSpuriously, BarrierInv, CountInv, CallbackInv, ErrorInv,
              SleepersAreCurrent, InCallback, Waiters, Released
<1>5. ASSUME NEW t \in Threads, SleepAgain(t) PROVE BarrierInv'
  BY <1>5 DEF SleepAgain, BarrierInv, CountInv, CallbackInv, ErrorInv,
              SleepersAreCurrent, InCallback, Waiters, Released
<1>6. ASSUME NEW t \in Threads, Return(t) PROVE BarrierInv'
  <2>1. Waiters' = Waiters /\ Released' = Released \ {t} /\ t \in Released
    BY <1>6 DEF Return, Waiters, Released
  <2>2. CountInv' /\ SleepersAreCurrent'
    BY <1>6, <2>1 DEF Return, BarrierInv, CountInv, SleepersAreCurrent
  <2>3. CallbackInv'
    BY <1>6 DEF Return, BarrierInv, CallbackInv, InCallback
  <2>4. ErrorInv'
    BY <1>6, <2>1 DEF Return, BarrierInv, ErrorInv, InCallback
  <2> QED
    BY <2>2, <2>3, <2>4 DEF BarrierInv
<1>7. CASE UNCHANGED vars
  BY <1>7 DEF vars, BarrierInv, CountInv, CallbackInv, ErrorInv,
              SleepersAreCurrent, InCallback, Waiters, Released
<1> QED
  BY <1>1, <1>2, <1>3, <1>4, <1>5, <1>6, <1>7 DEF Next, Arrive, Resume

LEMMA BarrierInvariant == Spec => []BarrierInv
  BY BarrierInit, BarrierStep, BarrierTypeCorrect, PTL DEF Spec

(* No thread sleeps on the condition variable past the end of its round.   *)
THEOREM NoLostWakeup == Spec => []SleepersAreCurrent
  BY BarrierInvariant, PTL DEF BarrierInv

-----------------------------------------------------------------------------
(* sb_barrier_wait implements the rendezvous: nobody leaves before all     *)
(* have come and the callback has returned, and all get one verdict.       *)
THEOREM BarrierIsRendezvous == Spec => IsRendezvous
<1>1. Init => Meeting!Init
  BY DEF Init, Meeting!Init, InCallback, Waiters, Released
<1>2. TypeOK /\ TypeOK' /\ BarrierInv /\ BarrierInv' /\ [Next]_vars
        => [Meeting!Next]_(Meeting!vars)
  <2> SUFFICES ASSUME TypeOK, TypeOK', BarrierInv, BarrierInv', [Next]_vars
               PROVE  [Meeting!Next]_(Meeting!vars)
    OBVIOUS
  <2> USE DEF TypeOK, Meeting!vars, Meeting!Next
  <2>1. ASSUME NEW t \in Threads, ArriveEarly(t) PROVE Meeting!Enter(t)
    <3>1. Waiters' = Waiters \cup {t} /\ t \notin Waiters /\ Released' = Released
      BY <2>1 DEF ArriveEarly, Waiters, Released
    <3> QED
      BY <2>1, <3>1 DEF ArriveEarly, Meeting!Enter, Meeting!Failed, InCallback, Released
  <2>2. ASSUME NEW t \in Threads, ArriveLast(t) PROVE Meeting!Enter(t)
    <3>1. Waiters = Threads \ {t} /\ t \notin Waiters /\ Released = {}
      BY <2>2, LastOne DEF ArriveLast, BarrierInv, Waiters, Released
    <3>2. ~InCallback /\ InCallback' /\ result' = result
      BY <2>2, BarrierAssumption DEF ArriveLast, InCallback
    <3>3. result = [u \in Threads |-> result[u]]
      OBVIOUS
    <3> QED
      BY <2>2, <3>1, <3>2, <3>3 DEF ArriveLast, Meeting!Enter, Meeting!Failed
  <2>3. ASSUME NEW t \in Threads, Callback(t)
        PROVE  Meeting!Succeed(t) \/ Meeting!Fail
    <3>1. /\ InCallback /\ ~InCallback' /\ ~error /\ Waiters = {}
          /\ \A u \in Threads \ {t} : u \in Released
      BY <2>3, DuringCallback DEF Callback, CallbackOk, CallbackFails, InCallback
    <3>2. /\ Waiters' = {} /\ t \notin Released'
          /\ \A u \in Threads \ {t} : u \in Released'
      BY <2>3, <3>1 DEF Callback, CallbackOk, CallbackFails, Waiters, Released
    <3>3. CASE CallbackOk(t)
      BY <3>1, <3>2, <3>3 DEF CallbackOk, Meeting!Succeed, Meeting!Serial
    <3>4. CASE CallbackFails(t)
      BY <3>1, <3>2, <3>4 DEF CallbackFails, Meeting!Fail, Meeting!Failed
    <3> QED
      BY <2>3, <3>3, <3>4 DEF Callback
  <2>4. ASSUME NEW t \in Threads, WakeSpuriously(t) \/ SleepAgain(t)
        PROVE  UNCHANGED Meeting!vars
    BY <2>4 DEF WakeSpuriously, SleepAgain, InCallback, Waiters, Released
  <2>5. ASSUME NEW t \in Threads, Return(t) PROVE UNCHANGED Meeting!vars
    <3>1. Waiters' = Waiters /\ Released' = Released \ {t} /\ t \in Released
      BY <2>5 DEF Return, Waiters, Released
    <3>2. ~InCallback /\ ~InCallback' /\ error' = error
          /\ result' = [result EXCEPT ![t] = IF error THEN -1 ELSE 0]
      BY <2>5 DEF Return, InCallback
    <3> QED
      BY <3>1, <3>2
  <2>6. CASE UNCHANGED vars
    BY <2>6 DEF vars, InCallback, Waiters, Released
  <2> QED
    BY <2>1, <2>2, <2>3, <2>4, <2>5, <2>6 DEF Next, Arrive, Resume
<1> QED
  BY <1>1, <1>2, BarrierTypeCorrect, BarrierInvariant, PTL
  DEF Spec, IsRendezvous, Meeting!Spec
=============================================================================
