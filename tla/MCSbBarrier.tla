----------------------------- MODULE MCSbBarrier -----------------------------
(* Three threads go round the barrier without end; the serial number is    *)
(* one bit wide, so that it wraps around in every second round.            *)
EXTENDS SbBarrier

CONSTANTS t1, t2, t3
MCThreads == {t1, t2, t3}
=============================================================================
