--------------------------- MODULE MCBuiltinTests ---------------------------
(***************************************************************************)
(* An instance of BuiltinTests for TLC: the modes of the file test that    *)
(* differ in their control, and those of the memory test.                  *)
(***************************************************************************)
EXTENDS BuiltinTests

FileOption(mode, io, freq, events) ==
  [mode |-> mode, io |-> io, freq |-> freq, fsyncAll |-> FALSE, fsyncEnd |-> TRUE,
   validate |-> FALSE, events |-> events]

MCFileOptions ==
  {[FileOption("seqwr", "sync", 2, 9) EXCEPT !.validate = TRUE],
   [FileOption("seqrd", "sync", 2, 6) EXCEPT !.validate = TRUE],
   [FileOption("seqrewr", "async", 2, 4) EXCEPT !.validate = TRUE],
   FileOption("rndrw", "sync", 1, 5),
   [FileOption("rndwr", "mmap", 2, 3) EXCEPT !.fsyncAll = TRUE]}

\* The validation mode of the random writes
MCValidateOptions == {[FileOption("rndwr", "sync", 2, 3) EXCEPT !.validate = TRUE]}

MCMemoryOptions ==
  {o \in [scope : {"global", "local"}, oper : {"none", "read", "write"},
          access : {"seq", "rnd"}, pte : BOOLEAN, total : {0, 3}] :
     (~o.pte => o.oper = "none") /\ (o.total = 0 => o.access = "seq")}

=============================================================================
