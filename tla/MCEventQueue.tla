---------------------------- MODULE MCEventQueue ----------------------------
(* Two workers and a queue_array of two or three slots: small enough for   *)
(* the ring to fill up and for the generator to come round to a slot whose *)
(* arrival time a worker still has to read.                                *)
EXTENDS EventQueue

CONSTANTS w1, w2
MCWorkers == {w1, w2}

Option(r, t, u, l) == [rate |-> r, timed |-> t, warmup |-> u, limit |-> l]

(* --rate with a time limit, --rate with an event limit, --events with and *)
(* without a warm-up, and --time alone.                                    *)
MCOptions == { Option(TRUE, TRUE, FALSE, 0), Option(TRUE, FALSE, FALSE, 2),
               Option(FALSE, FALSE, TRUE, 2), Option(FALSE, FALSE, FALSE, 2),
               Option(FALSE, TRUE, FALSE, 0) }

MCRateTimed == { Option(TRUE, TRUE, FALSE, 0) }
=============================================================================
