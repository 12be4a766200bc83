------------------------------ MODULE RowLedger ------------------------------
(***************************************************************************)
(* What a bulk insert promises: the rows it was given reach the server in  *)
(* their order, each of them once, and all of them are there for good when *)
(* the insert is finished.  Until then a broken session may lose the last. *)
(***************************************************************************)
EXTENDS Naturals, Sequences

VARIABLES given,     \* number of rows accepted
          delivered, \* the rows on the server
          finished

vars == <<given, delivered, finished>>

FirstRows(k) == [i \in 1..k |-> i]

Init == given = 0 /\ delivered = <<>> /\ finished = FALSE

Accept == /\ ~finished /\ given' = given + 1
          /\ UNCHANGED <<delivered, finished>>

Deliver == /\ ~finished
           /\ \E k \in Len(delivered)..given : delivered' = FirstRows(k)
           /\ UNCHANGED <<given, finished>>

Lose == /\ ~finished
        /\ \E k \in 0..Len(delivered) : delivered' = FirstRows(k)
        /\ UNCHANGED <<given, finished>>

Finish == /\ delivered = FirstRows(given) /\ finished' = TRUE
          /\ UNCHANGED <<given, delivered>>

Spec == Init /\ [][Accept \/ Deliver \/ Lose \/ Finish]_vars

=============================================================================
