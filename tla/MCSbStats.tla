------------------------------ MODULE MCSbStats ------------------------------
(* Two workers with up to two events, a histogram of two elements, and the *)
(* threads that read the statistics in the combinations that matter; one   *)
(* worker where the question is what happens in the end.                   *)
EXTENDS SbStats

CONSTANTS w1, w2
MCThreads == <<w1, w2>>
MCOneThread == <<w1>>

Option(names) == [report |-> "report" \in names, checkpoints |-> IF "checkpoints" \in names THEN 1 ELSE 0,
                  warmup |-> "warmup" \in names, histogram |-> "histogram" \in names,
                  force |-> "force" \in names]

MCOptions == { Option({"warmup", "checkpoints", "histogram"}), Option({"report", "checkpoints"}),
               Option({"report", "force"}), Option({"warmup", "force"}) }
MCForced == { Option({"force"}) }
=============================================================================
