------------------------------ MODULE MCCkRing ------------------------------
(* Two workers race on a ring of four slots (three usable) whose counters  *)
(* are three bits wide, met empty at zero and two short of the wrap.       *)
EXTENDS CkRing

CONSTANTS w1, w2
MCConsumers == {w1, w2}
MCStarts == {0, 6}
=============================================================================
