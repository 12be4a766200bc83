SPECIFICATION Spec
CONSTANTS
  Threads = {t1, t2}
  FileOptions <- MCFileOptions
  NumFiles = 2
  TotalSize = 7
  BlockSize = 2
  RequestSize = 2
  Backlog = 2
  NumPages = 6
  TablePages = 3
  Iterations = 3
  Workers = {w1, w2}
  MemoryOptions <- MCMemoryOptions
  BlockWords = 4
  PageWords = 2
  CounterMod = 4
  MaxMemoryEvents = 2
INVARIANTS TypeOK SequentialStream WritesSynced ProgramsPass
CHECK_DEADLOCK FALSE
