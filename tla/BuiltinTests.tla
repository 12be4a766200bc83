---------------------------- MODULE BuiltinTests ----------------------------
(***************************************************************************)
(* The programs that are not written in Lua, one of them in each           *)
(* behaviour: the file and the memory benchmark of sysbench, and the nine  *)
(* test programs of the metadata calls.                                    *)
(***************************************************************************)
EXTENDS FileIo, PteTests, MemoryTest

VARIABLE program  \* "fileio", "memory" or "test"

vars == <<program, fileVars, pteVars, testVars, memoryVars>>

\* The parts that do not run have one initial state
Init ==
  /\ program \in {"fileio", "memory", "test"}
  /\ FileInit /\ PteInit /\ TestsInit /\ MemoryInit
  /\ program # "fileio" => fopt = CHOOSE o \in FileOptions : TRUE
  /\ program # "memory" => mopt = CHOOSE o \in MemoryOptions : TRUE
  /\ program # "test" => test = 1 /\ base = 0

RunFileIo == program = "fileio" /\ FileNext /\ UNCHANGED <<pteVars, testVars, memoryVars>>
RunMemory == program = "memory" /\ MemoryNext /\ UNCHANGED <<fileVars, testVars>>
RunTests == program = "test" /\ TestsNext /\ UNCHANGED <<fileVars, memoryVars>>

Next == (RunFileIo \/ RunMemory \/ RunTests) /\ UNCHANGED program

Spec == Init /\ [][Next]_vars

-----------------------------------------------------------------------------
TypeOK ==
  /\ program \in {"fileio", "memory", "test"}
  /\ FileTypeOK /\ TestsTypeOK /\ MemoryTypeOK
  /\ expanded \subseteq {Table(p) : p \in Pages} /\ DOMAIN meta = Pages /\ refused \in BOOLEAN

\* No program comes to a wrong end: neither a test program nor a thread of the
\* memory benchmark.
ProgramsPass == TestsPass /\ SharesExact

=============================================================================
