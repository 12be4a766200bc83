----------------------------- MODULE MemoryTest -----------------------------
(***************************************************************************)
(* The memory benchmark (tests/memory/sb_memory.c): memory_init allocates  *)
(* the buffers and enables metadata for the page table of each, the        *)
(* threads share out the blocks and make a metadata call before each       *)
(* access.  A result of such a call is never looked at.                    *)
(***************************************************************************)
EXTENDS PteMeta

CONSTANTS Workers,
          MemoryOptions,   \* command lines: scope, oper, access, pte, total
          BlockWords,      \* --memory-block-size in words, a power of 2
          PageWords,       \* words of a page
          CounterMod,      \* values of a thread's counter, 2^64 in the code
          MaxMemoryEvents  \* bound on a thread's events where there is no limit

ASSUME MemoryAssumption ==
  /\ IsFiniteSet(Workers) /\ Workers # {}
  /\ CounterMod \in Nat \ {0} /\ BlockWords \in Nat \ {0} /\ PageWords \in Nat \ {0}
  /\ \A o \in MemoryOptions : o.total \in 0..CounterMod - 1

VARIABLES
  mopt,         \* the command line
  mpc,          \* where each thread is
  buffers,      \* first page of each thread's buffer
  counter,      \* thread_counters
  word,         \* iterations of the loop of an event
  executed      \* events of each thread

memoryVars == <<mopt, mpc, buffers, counter, word, executed>>

NoPage == NumPages
max_offset == BlockWords - 1
BlockPages == (BlockWords + PageWords - 1) \div PageWords
Share == mopt.total \div Cardinality(Workers)  \* total counts blocks

MemoryInit ==
  /\ mopt \in MemoryOptions
  /\ mpc = [t \in Workers |-> "setup"] /\ buffers = [t \in Workers |-> NoPage]
  /\ counter = [t \in Workers |-> Share]
  /\ word = [t \in Workers |-> 0] /\ executed = [t \in Workers |-> 0]

\* memory_init: a buffer for all threads or, in turn, one for each of them; that
\* its table has been enabled before is worth a warning
Setup ==
  \E t \in Workers, p \in 0..NumPages - BlockPages :
    LET owners == IF mopt.scope = "global" THEN Workers ELSE {t}
    IN /\ buffers[t] = NoPage
       /\ \A u \in Workers : buffers[u] # NoPage =>
            (p..p + BlockPages - 1) \cap (buffers[u]..buffers[u] + BlockPages - 1) = {}
       /\ buffers' = [u \in Workers |-> IF u \in owners THEN p ELSE buffers[u]]
       /\ IF mopt.pte THEN \E r \in {"ok", "EEXIST", "refused"} : Enable(p, r)
                      ELSE UNCHANGED pteVars
       /\ mpc' = IF \A u \in Workers : buffers'[u] # NoPage
                 THEN [u \in Workers |-> "next"] ELSE mpc
       /\ UNCHANGED <<mopt, counter, word, executed>>

\* memory_next_event: thread_counters[tid]-- == 0, if there is a total
Limited == mopt.total > 0
Decrement(t) ==
  counter' = IF Limited THEN [counter EXCEPT ![t] = (@ - 1) % CounterMod] ELSE counter

NextEvent(t) ==
  /\ mpc[t] = "next" /\ (Limited \/ executed[t] < MaxMemoryEvents)
  /\ mpc' = [mpc EXCEPT ![t] = IF Limited /\ counter[t] = 0 THEN "ended" ELSE "loop"]
  /\ Decrement(t)
  /\ word' = [word EXCEPT ![t] = 0]
  /\ UNCHANGED <<mopt, buffers, executed, pteVars>>

\* The time is up, or another thread has failed
Stop(t) ==
  /\ mpc[t] = "next"
  /\ mpc' = [mpc EXCEPT ![t] = "stopped"]
  /\ UNCHANGED <<mopt, buffers, counter, word, executed, pteVars>>

\* The sequential reads and writes stop before the last word
Last == IF mopt.access = "seq" /\ mopt.oper # "none" THEN max_offset - 1 ELSE max_offset

\* One iteration of event_{rnd,seq}_{none,read,write}
Access(t) ==
  /\ mpc[t] = "loop" /\ word[t] <= Last
  /\ \E offset \in IF mopt.access = "rnd" THEN 0..max_offset ELSE {word[t]} :
       LET p == buffers[t] + offset \div PageWords
       IN CASE mopt.pte /\ mopt.oper = "read" -> 
                   \E r \in {"ok", "ENODATA", "refused"}, v \in {meta[p], Unset} : Get(p, v, r)
            [] mopt.pte /\ mopt.oper = "write" ->
                   \E r \in {"ok", "refused"} : Set(p, 1, r)
            [] OTHER -> UNCHANGED pteVars
  /\ word' = [word EXCEPT ![t] = @ + 1]
  /\ UNCHANGED <<mopt, mpc, buffers, counter, executed>>

EventDone(t) ==
  /\ mpc[t] = "loop" /\ word[t] > Last
  /\ mpc' = [mpc EXCEPT ![t] = "next"]
  /\ executed' = [executed EXCEPT ![t] = @ + 1]
  /\ UNCHANGED <<mopt, buffers, counter, word, pteVars>>

MemoryNext == Setup \/ \E t \in Workers : NextEvent(t) \/ Stop(t) \/ Access(t) \/ EventDone(t)

MemoryTypeOK ==
  /\ mopt \in MemoryOptions
  /\ mpc \in [Workers -> {"setup", "next", "loop", "ended", "stopped"}]
  /\ buffers \in [Workers -> 0..NoPage]
  /\ counter \in [Workers -> 0..CounterMod - 1]
  /\ word \in [Workers -> 0..BlockWords] /\ executed \in [Workers -> Nat]

\* A thread that is not stopped handles exactly its share of the blocks and no
\* thread ever more, although the counter wraps around at its end; and although
\* an enable that finds the table expanded is only warned about, a running
\* thread's buffer begins in an expanded table unless the kernel refused a call.
SharesExact ==
  \A t \in Workers :
    /\ Limited => executed[t] <= Share
    /\ mpc[t] = "ended" => executed[t] = Share
    /\ mopt.pte /\ mpc[t] = "loop" => refused \/ Table(buffers[t]) \in expanded

=============================================================================
