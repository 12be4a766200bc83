------------------------------ MODULE MCRunTest ------------------------------
(* Two workers and all three background threads, with each of the options  *)
(* that guards against a hang on and off.                                  *)
EXTENDS RunTest

CONSTANTS w1, w2
MCThreads == <<w1, w2>>

Option(on) == [o \in OptionNames |-> o \in on]

MCOptions == { Option(Background \cup {"initTimeout"}),
               Option({"checkpoints", "warmup", "force", "initTimeout"}),
               Option({"report", "eventgen", "lua", "force"}),
               Option({"report", "warmup", "lua"}) }
=============================================================================
