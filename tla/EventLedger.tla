----------------------------- MODULE EventLedger -----------------------------
(***************************************************************************)
(* What the statistics of sysbench promise: every finished event comes     *)
(* into the books once, and is reported once, whenever and by whichever    *)
(* thread the report is made.                                              *)
(***************************************************************************)
CONSTANT Events

VARIABLES open,    \* the finished events no report has taken yet
          closed   \* those that one has

vars == <<open, closed>>

Init == open = {} /\ closed = {}

Finish(e) == /\ e \notin open \cup closed
             /\ open' = open \cup {e}
             /\ UNCHANGED closed

Report(batch) == /\ batch \subseteq open
                 /\ open' = open \ batch
                 /\ closed' = closed \cup batch

Next == \/ \E e \in Events : Finish(e)
        \/ \E batch \in SUBSET open : Report(batch)

Spec == Init /\ [][Next]_vars
=============================================================================
