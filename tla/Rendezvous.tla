----------------------------- MODULE Rendezvous -----------------------------
(***************************************************************************)
(* What sb_barrier.c promises its callers: a thread that waits at the      *)
(* barrier stays there until every thread is there; then all of them are   *)
(* let go at once, with one verdict: either each gets a negative value, or *)
(* one (the serial thread) gets 1 and the others 0.  A thread that got a   *)
(* negative value does not come back: sysbench ends the run.               *)
(***************************************************************************)
EXTENDS Integers

CONSTANT Threads       \* the threads that meet

VARIABLES inside,      \* the threads that wait at the barrier
          result       \* result[t]: what t's last wait returned

vars == <<inside, result>>

Serial == 1            \* SB_BARRIER_SERIAL_THREAD
Failed == -1

Init == /\ inside = {}
        /\ result = [t \in Threads |-> 0]

Enter(t) == /\ t \notin inside /\ result[t] # Failed
            /\ inside' = inside \cup {t}
            /\ UNCHANGED result

Succeed(leader) == /\ inside = Threads
                   /\ inside' = {}
                   /\ result' = [t \in Threads |-> IF t = leader THEN Serial ELSE 0]

Fail == /\ inside = Threads
        /\ inside' = {}
        /\ result' = [t \in Threads |-> Failed]

Next == \/ \E t \in Threads : Enter(t) \/ Succeed(t)
        \/ Fail

Spec == Init /\ [][Next]_vars
=============================================================================
