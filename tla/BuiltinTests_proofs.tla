------------------------- MODULE BuiltinTests_proofs -------------------------
(***************************************************************************)
(* The test programs of the metadata calls and the memory benchmark, for   *)
(* any number of threads, any command lines, any sizes of the address      *)
(* space, of a page table and of a block, and any width of a thread's      *)
(* counter that holds the total.                                           *)
(*                                                                         *)
(* MemoryInv: with a limit, counter and executed events of a thread add up *)
(* to its share while it has no event, and to one less while it has one,   *)
(* so that the counter is not decremented below zero before the thread     *)
(* ends; no thread runs before all have a buffer.                          *)
(*                                                                         *)
(* ProgramInv: before each of its calls a test program that was refused    *)
(* nothing has left the table expanded or not, and the pages with the      *)
(* values, as its script wants to find them (Held); no call is for a page  *)
(* outside the address space.                                              *)
(***************************************************************************)
EXTENDS FileIo_proofs, FiniteSetTheorems, TLAPS

MemoryTypes ==
  /\ mopt \in MemoryOptions
  /\ mpc \in [Workers -> {"setup", "next", "loop", "ended", "stopped"}]
  /\ DOMAIN buffers = Workers
  /\ counter \in [Workers -> 0..CounterMod - 1]
  /\ executed \in [Workers -> Nat]

\* The parts that do not run stay as they began
Idle ==
  program # "memory" => \A t \in Workers : mpc[t] = "setup" /\ buffers[t] = NoPage

CounterInv ==
  \A t \in Workers :
    /\ mpc[t] = "setup" => counter[t] = Share /\ executed[t] = 0
    /\ Limited /\ mpc[t] = "next" => counter[t] + executed[t] = Share
    /\ Limited /\ mpc[t] = "loop" => counter[t] + executed[t] = Share - 1
    /\ mpc[t] = "ended" => Limited /\ executed[t] = Share
    /\ Limited /\ mpc[t] = "stopped" => executed[t] <= Share

BufferInv ==
  /\ \A t, u \in Workers : mpc[t] # "setup" => buffers[u] # NoPage
  /\ \A t \in Workers :
       mopt.pte /\ buffers[t] # NoPage => refused \/ Table(buffers[t]) \in expanded

MemoryInv == MemoryTypes /\ Idle /\ CounterInv /\ BufferInv

-----------------------------------------------------------------------------
(* The share of a thread fits its counter.                                 *)
LEMMA ShareFits ==
  ASSUME mopt \in MemoryOptions
  PROVE  Share \in 0..CounterMod - 1
<1>1. Cardinality(Workers) \in Nat \ {0}
  BY MemoryAssumption, FS_CardinalityType, FS_EmptySet
<1>2. mopt.total \in 0..CounterMod - 1
  BY MemoryAssumption
<1>3. ASSUME NEW a \in Nat, NEW n \in Nat \ {0} PROVE a \div n \in 0..a
  BY SMT
<1> QED
  BY <1>1, <1>2, <1>3, MemoryAssumption DEF Share

(* Decrementing a counter that is not zero does not wrap.                  *)
LEMMA NoWrap ==
  ASSUME NEW c \in 0..CounterMod - 1, c # 0
  PROVE  (c - 1) % CounterMod = c - 1
BY MemoryAssumption

(* The calls of the benchmark never collapse a table, nor is a refusal     *)
(* forgotten.                                                              *)
Keeps == expanded \subseteq expanded' /\ (refused => refused')

LEMMA EnableKeeps ==
  ASSUME NEW p, NEW r, Enable(p, r)
  PROVE  Keeps /\ (refused' \/ Table(p) \in expanded')
BY DEF Enable, Refused, Keeps, pteVars

LEMMA GetSetKeep ==
  ASSUME NEW p, NEW v, NEW r, Get(p, v, r) \/ Set(p, v, r)
  PROVE  Keeps
BY DEF Get, Set, Refused, Keeps, pteVars

(* A step that leaves the buffers and takes no thread out of its setup     *)
(* keeps the invariant about them.                                         *)
LEMMA BuffersStay ==
  ASSUME BufferInv, UNCHANGED <<mopt, buffers>>, Keeps,
         \A t \in Workers : mpc[t] = "setup" => mpc'[t] = "setup"
  PROVE  BufferInv'
BY DEF BufferInv, Keeps, Table, NoPage

-----------------------------------------------------------------------------
(* memory_init has given no thread a buffer and each its share.            *)
LEMMA MemoryStart == Init => MemoryInv
<1> SUFFICES ASSUME Init PROVE MemoryInv
  OBVIOUS
<1> USE DEF Init, MemoryInit
<1>1. MemoryTypes
  BY ShareFits DEF MemoryTypes
<1>2. Idle /\ CounterInv /\ BufferInv
  BY DEF Idle, CounterInv, BufferInv
<1> QED
  BY <1>1, <1>2 DEF MemoryInv

(* As long as a thread has no buffer, all are in their setup; the step     *)
(* that gives out the last buffer lets all of them run.                    *)
LEMMA SetupKeeps ==
  ASSUME MemoryInv, Setup, program' = program, program = "memory"
  PROVE  MemoryInv'
<1> USE DEF MemoryInv
<1>1. PICK t \in Workers, p \in 0..NumPages - BlockPages :
        LET owners == IF mopt.scope = "global" THEN Workers ELSE {t}
        IN /\ buffers[t] = NoPage
           /\ buffers' = [u \in Workers |-> IF u \in owners THEN p ELSE buffers[u]]
           /\ IF mopt.pte THEN \E r \in {"ok", "EEXIST", "refused"} : Enable(p, r)
                          ELSE UNCHANGED pteVars
           /\ mpc' = IF \A u \in Workers : buffers'[u] # NoPage
                     THEN [u \in Workers |-> "next"] ELSE mpc
           /\ UNCHANGED <<mopt, counter, word, executed>>
  BY DEF Setup
<1>2. \A u \in Workers : mpc[u] = "setup"
  BY <1>1 DEF BufferInv, MemoryTypes
<1>3. MemoryTypes' /\ Idle'
  BY <1>1 DEF MemoryTypes, Idle
<1>4. CounterInv'
  <2>1. Share' = Share /\ (Limited' <=> Limited)
    BY <1>1 DEF Share, Limited
  <2>2. \A u \in Workers : counter'[u] = Share /\ executed'[u] = 0
    BY <1>1, <1>2 DEF CounterInv
  <2>3. \A u \in Workers : mpc'[u] \in {"setup", "next"}
    BY <1>1, <1>2
  <2>4. Share \in Nat
    BY ShareFits, MemoryAssumption DEF MemoryTypes
  <2> QED
    BY <2>1, <2>2, <2>3, <2>4 DEF CounterInv
<1>5. BufferInv'
  <2>1. Keeps /\ (mopt.pte => refused' \/ Table(p) \in expanded')
    <3>1. CASE mopt.pte
      BY <1>1, <3>1, EnableKeeps
    <3>2. CASE ~mopt.pte
      BY <1>1, <3>2 DEF Keeps, pteVars
    <3> QED
      BY <3>1, <3>2
  <2>2. ASSUME NEW u \in Workers, mopt'.pte, buffers'[u] # NoPage
        PROVE  refused' \/ Table(buffers'[u]) \in expanded'
    <3>1. CASE buffers'[u] = p
      BY <1>1, <2>1, <2>2, <3>1
    <3>2. CASE buffers'[u] = buffers[u]
      BY <1>1, <2>1, <2>2, <3>2 DEF BufferInv, Keeps
    <3> QED
      BY <1>1, <3>1, <3>2
  <2>3. ASSUME NEW v \in Workers, NEW u \in Workers, mpc'[v] # "setup"
        PROVE  buffers'[u] # NoPage
    BY <1>1, <1>2, <2>3
  <2> QED
    BY <2>2, <2>3 DEF BufferInv, Table, NoPage
<1> QED
  BY <1>3, <1>4, <1>5

(* The decrement that finds zero ends the thread; any other does not wrap. *)
LEMMA NextEventKeeps ==
  ASSUME MemoryInv, NEW t \in Workers, NextEvent(t), program' = program, program = "memory"
  PROVE  MemoryInv'
<1> USE DEF MemoryInv
<1>1. /\ mpc[t] = "next"
      /\ mpc' = [mpc EXCEPT ![t] = IF Limited /\ counter[t] = 0 THEN "ended" ELSE "loop"]
      /\ counter' = IF Limited THEN [counter EXCEPT ![t] = (@ - 1) % CounterMod] ELSE counter
      /\ UNCHANGED <<mopt, buffers, executed, pteVars>>
  BY DEF NextEvent, Decrement
<1>2. (counter[t] - 1) % CounterMod \in 0..CounterMod - 1
  <2>1. counter[t] - 1 \in Int /\ CounterMod \in Nat \ {0}
    BY MemoryAssumption DEF MemoryTypes
  <2> QED
    BY <2>1
<1>3. MemoryTypes' /\ Idle'
  BY <1>1, <1>2 DEF MemoryTypes, Idle
<1>4. CounterInv'
  <2>1. Share' = Share /\ (Limited' <=> Limited)
    BY <1>1 DEF Share, Limited
  <2>2. counter[t] # 0 => (counter[t] - 1) % CounterMod = counter[t] - 1
    BY NoWrap DEF MemoryTypes
  <2>3. Share \in Nat /\ counter[t] \in Nat /\ executed[t] \in Nat
    BY ShareFits, MemoryAssumption DEF MemoryTypes
  <2>4. ASSUME NEW u \in Workers, u # t
        PROVE  mpc'[u] = mpc[u] /\ counter'[u] = counter[u] /\ executed'[u] = executed[u]
    BY <1>1, <2>4 DEF MemoryTypes
  <2>5. /\ mpc'[t] = IF Limited /\ counter[t] = 0 THEN "ended" ELSE "loop"
        /\ Limited => counter'[t] = (counter[t] - 1) % CounterMod
        /\ executed'[t] = executed[t]
    BY <1>1 DEF MemoryTypes
  <2>6. Limited => counter[t] + executed[t] = Share
    BY <1>1 DEF CounterInv
  <2>7. /\ mpc'[t] \in {"ended", "loop"}
        /\ mpc'[t] = "ended" => Limited /\ executed'[t] = Share
        /\ Limited /\ mpc'[t] = "loop" => counter'[t] + executed'[t] = Share - 1
    BY <2>2, <2>3, <2>5, <2>6
  <2> QED
    BY <2>1, <2>4, <2>7 DEF CounterInv
<1>5. BufferInv'
  BY <1>1, BuffersStay DEF MemoryTypes, Keeps, pteVars
<1> QED
  BY <1>3, <1>4, <1>5

(* A thread that is stopped has handled no more than its share.            *)
LEMMA StopKeeps ==
  ASSUME MemoryInv, NEW t \in Workers, Stop(t), program' = program, program = "memory"
  PROVE  MemoryInv'
<1> USE DEF MemoryInv, Stop
<1>1. MemoryTypes' /\ Idle'
  BY DEF MemoryTypes, Idle
<1>2. CounterInv'
  <2>1. Share' = Share /\ (Limited' <=> Limited)
    BY DEF Share, Limited
  <2>2. Share \in Nat /\ counter[t] \in Nat /\ executed[t] \in Nat
    BY ShareFits, MemoryAssumption DEF MemoryTypes
  <2>3. Limited => executed[t] <= Share
    BY <2>2 DEF CounterInv
  <2> QED
    BY <2>1, <2>3 DEF CounterInv, MemoryTypes
<1>3. BufferInv'
  BY BuffersStay DEF MemoryTypes, Keeps, pteVars
<1> QED
  BY <1>1, <1>2, <1>3

(* An access changes only the metadata, and no call of it collapses a      *)
(* table.                                                                  *)
LEMMA AccessKeeps ==
  ASSUME MemoryInv, NEW t \in Workers, Access(t), program' = program, program = "memory"
  PROVE  MemoryInv'
<1> USE DEF MemoryInv
<1>1. UNCHANGED <<mopt, mpc, buffers, counter, executed>>
  BY DEF Access
<1>2. Keeps
  <2>1. PICK p : \/ \E r, v : Get(p, v, r) \/ Set(p, v, r)
                 \/ UNCHANGED pteVars
    BY DEF Access
  <2> QED
    BY <2>1, GetSetKeep DEF Keeps, pteVars
<1>3. MemoryTypes' /\ Idle' /\ CounterInv'
  BY <1>1 DEF MemoryTypes, Idle, CounterInv, Share, Limited, NoPage
<1>4. BufferInv'
  BY <1>1, <1>2, BuffersStay
<1> QED
  BY <1>3, <1>4

(* The event that ends was already taken from the counter.                 *)
LEMMA EventDoneKeeps ==
  ASSUME MemoryInv, NEW t \in Workers, EventDone(t), program' = program, program = "memory"
  PROVE  MemoryInv'
<1> USE DEF MemoryInv, EventDone
<1>1. MemoryTypes' /\ Idle'
  BY DEF MemoryTypes, Idle
<1>2. CounterInv'
  <2>1. Share' = Share /\ (Limited' <=> Limited)
    BY DEF Share, Limited
  <2>2. Share \in Nat /\ counter[t] \in Nat /\ executed[t] \in Nat
    BY ShareFits, MemoryAssumption DEF MemoryTypes
  <2>3. Limited => counter[t] + executed[t] = Share - 1
    BY DEF CounterInv
  <2>4. mpc'[t] = "next" /\ counter'[t] = counter[t] /\ executed'[t] = executed[t] + 1
    BY DEF MemoryTypes
  <2>5. ASSUME NEW u \in Workers, u # t
        PROVE  mpc'[u] = mpc[u] /\ counter'[u] = counter[u] /\ executed'[u] = executed[u]
    BY <2>5 DEF MemoryTypes
  <2>6. Limited /\ mpc'[t] = "next" => counter'[t] + executed'[t] = Share
    BY <2>2, <2>3, <2>4
  <2> QED
    BY <2>1, <2>4, <2>5, <2>6 DEF CounterInv
<1>3. BufferInv'
  BY BuffersStay DEF MemoryTypes, Keeps, pteVars
<1> QED
  BY <1>1, <1>2, <1>3

(* The other programs never touch the benchmark's state.                   *)
LEMMA OthersKeep ==
  ASSUME MemoryInv, UNCHANGED <<memoryVars, program>>, program # "memory"
  PROVE  MemoryInv'
<1> USE DEF MemoryInv, memoryVars
<1>1. MemoryTypes' /\ Idle' /\ CounterInv'
  BY DEF MemoryTypes, Idle, CounterInv, Share, Limited, NoPage
<1>2. BufferInv'
  BY DEF BufferInv, Idle, NoPage
<1> QED
  BY <1>1, <1>2

(* Every step of any of the programs keeps the invariant.                  *)
LEMMA MemoryStep == MemoryInv /\ [Next]_vars => MemoryInv'
<1> SUFFICES ASSUME MemoryInv, [Next]_vars PROVE MemoryInv'
  OBVIOUS
<1>1. CASE RunMemory /\ UNCHANGED program
  BY <1>1, SetupKeeps, NextEventKeeps, StopKeeps, AccessKeeps, EventDoneKeeps
     DEF RunMemory, MemoryNext
<1>2. CASE (RunFileIo \/ RunTests) /\ UNCHANGED program
  <2>1. UNCHANGED <<memoryVars, program>> /\ program # "memory"
    BY <1>2 DEF RunFileIo, RunTests
  <2> QED
    BY <2>1, OthersKeep
<1>3. CASE UNCHANGED vars
  BY <1>3 DEF vars, memoryVars, pteVars, MemoryInv, MemoryTypes, Idle, CounterInv, BufferInv,
              Share, Limited, NoPage, Table
<1> QED
  BY <1>1, <1>2, <1>3 DEF Next

(* A thread of the memory benchmark that is not stopped handles exactly    *)
(* its share of the blocks (memory_next_event), none handles more, and a   *)
(* running thread's buffer begins in an expanded page table unless the     *)
(* kernel refused a call (memory_init).                                    *)
THEOREM MemorySharesExact == Spec => []SharesExact
<1>1. MemoryInv => SharesExact
  <2> SUFFICES ASSUME MemoryInv, NEW t \in Workers
               PROVE  /\ Limited => executed[t] <= Share
                      /\ mpc[t] = "ended" => executed[t] = Share
                      /\ mopt.pte /\ mpc[t] = "loop" => refused \/ Table(buffers[t]) \in expanded
    BY DEF SharesExact
  <2> USE DEF MemoryInv
  <2>1. Share \in Nat /\ counter[t] \in Nat /\ executed[t] \in Nat
    BY ShareFits, MemoryAssumption DEF MemoryTypes
  <2>2. Limited => executed[t] <= Share
    BY <2>1 DEF CounterInv, MemoryTypes
  <2> QED
    BY <2>2 DEF CounterInv, BufferInv
<1> QED
  BY <1>1, MemoryStart, MemoryStep, PTL DEF Spec

-----------------------------------------------------------------------------
(* What the calls answer, and do, as long as none is refused.              *)
LEMMA EnableAnswers ==
  ASSUME NEW p, NEW r, Enable(p, r), ~refused'
  PROVE  /\ ~refused
         /\ IF Table(p) \in expanded
            THEN r = "EEXIST" /\ UNCHANGED <<expanded, meta>>
            ELSE r = "ok" /\ expanded' = expanded \cup {Table(p)} /\ meta' = meta
BY DEF Enable, Refused, pteVars

LEMMA DisableAnswers ==
  ASSUME NEW p, NEW r, Disable(p, r), ~refused'
  PROVE  /\ ~refused
         /\ IF Table(p) \in expanded
            THEN r = "ok" /\ expanded' = expanded \ {Table(p)}
            ELSE r = "EINVAL" /\ UNCHANGED <<expanded, meta>>
BY DEF Disable, Refused, pteVars

LEMMA SetAnswers ==
  ASSUME NEW p, NEW v, NEW r, Set(p, v, r), ~refused'
  PROVE  /\ ~refused /\ r = "ok"
         /\ expanded' = expanded \cup {Table(p)} /\ meta' = [meta EXCEPT ![p] = v]
BY DEF Set, Refused

LEMMA GetAnswers ==
  ASSUME NEW p, NEW v, NEW r, Get(p, v, r), ~refused'
  PROVE  /\ ~refused /\ UNCHANGED <<expanded, meta>>
         /\ IF Table(p) \in expanded THEN v = meta[p] /\ (v # Unset => r = "ok")
            ELSE v = Unset /\ r = "ENODATA"
BY DEF Get, Refused, pteVars

(* A call of a script that finds what it wants.                            *)
Finds(c) ==
  LET p == base + c.page
  IN  \/ c.call = "enable" /\ c.want = (IF Table(p) \in expanded THEN "EEXIST" ELSE "ok")
      \/ c.call = "disable" /\ c.want = (IF Table(p) \in expanded THEN "ok" ELSE "EINVAL")
      \/ c.call = "set" /\ c.want = "ok"
      \/ /\ c.call = "get"
         /\ IF Table(p) \in expanded THEN c.want = "ok" /\ meta[p] = c.value /\ c.value # Unset
            ELSE c.want = "ENODATA" /\ c.value = Unset

(* What it leaves behind.                                                  *)
Leaves(c) ==
  LET p == base + c.page
  IN  /\ c.call = "enable" => expanded' = expanded \cup {Table(p)} /\ meta' = meta
      /\ c.call = "disable" => expanded' = expanded \ {Table(p)}
      /\ c.call = "set" => /\ expanded' = expanded \cup {Table(p)}
                           /\ meta' = [meta EXCEPT ![p] = c.value]
      /\ c.call = "get" => UNCHANGED <<expanded, meta>>

LEMMA CallsSucceed ==
  ASSUME MakeCall, ~refused', Finds(Script[test][step])
  PROVE  ~refused /\ verdict' = "running" /\ Leaves(Script[test][step])
<1>0. PICK c : c = Script[test][step]
  OBVIOUS
<1>1. PICK r, v :
        /\ CASE c.call = "enable" -> Enable(base + c.page, r)
             [] c.call = "disable" -> Disable(base + c.page, r)
             [] c.call = "set" -> v = c.value /\ Set(base + c.page, v, r)
             [] OTHER -> Get(base + c.page, v, r)
        /\ verdict' = IF r = c.want /\ (c.call = "get" => v = c.value) THEN verdict ELSE "failed"
  BY <1>0 DEF MakeCall
<1>2. verdict = "running"
  BY DEF MakeCall
<1>3. Finds(c)
  BY <1>0
<1>8. ~refused /\ verdict' = "running" /\ Leaves(c)
  <2>4. CASE c.call = "enable"
    BY <1>1, <1>2, <1>3, <2>4, EnableAnswers DEF Finds, Leaves
  <2>5. CASE c.call = "disable"
    BY <1>1, <1>2, <1>3, <2>5, DisableAnswers DEF Finds, Leaves
  <2>6. CASE c.call = "set"
    BY <1>1, <1>2, <1>3, <2>6, SetAnswers DEF Finds, Leaves
  <2>7. CASE c.call = "get"
    <3>1. Get(base + c.page, v, r)
      BY <1>1, <2>7
    <3>2. /\ ~refused /\ UNCHANGED <<expanded, meta>>
          /\ IF Table(base + c.page) \in expanded THEN v = meta[base + c.page] /\ (v # Unset => r = "ok")
             ELSE v = Unset /\ r = "ENODATA"
      BY <3>1, GetAnswers
    <3> QED
      BY <1>1, <1>2, <1>3, <2>7, <3>2 DEF Finds, Leaves
  <2> QED
    BY <1>3, <2>4, <2>5, <2>6, <2>7 DEF Finds
<1> QED
  BY <1>0, <1>8

-----------------------------------------------------------------------------
(* The scripts, call by call.                                              *)
LEMMA ScriptOf ==
  /\ DOMAIN Script = 1..9
  /\ Script[1] = Test1 /\ Script[2] = Test2 /\ Script[3] = Test3 /\ Script[4] = Test4
  /\ Script[5] = Test5 /\ Script[6] = Test6 /\ Script[7] = Test7 /\ Script[8] = Test8
  /\ Script[9] = Test9
BY DEF Script

LEMMA ShortScripts ==
  /\ Len(Test1) = 0
  /\ Len(Test4) = 1 /\ Test4[1] = CallOn("get", 0, Unset, "ENODATA")
  /\ Len(Test7) = 1 /\ Test7[1] = CallOn("disable", 0, Unset, "EINVAL")
BY DEF Test1, Test4, Test7

LEMMA ValueScripts ==
  /\ Len(Test2) = 4 /\ Test2[1] = EnableOf(0) /\ Test2[2] = CallOn("set", 0, 1, "ok")
  /\ Test2[3] = CallOn("get", 0, 1, "ok") /\ Test2[4] = DisableOf(0)
  /\ Len(Test3) = 4 /\ Test3[1] = EnableOf(0) /\ Test3[2] = CallOn("set", 0, 2, "ok")
  /\ Test3[3] = CallOn("get", 0, 2, "ok") /\ Test3[4] = DisableOf(0)
BY DEF Test2, Test3, SetAndGet

LEMMA PagesScript ==
  /\ Len(Test5) = 10 /\ Test5[1] = EnableOf(0) /\ Test5[10] = DisableOf(0)
  /\ \A i \in 2..5 : Test5[i] = CallOn("set", i - 2, i - 1, "ok")
  /\ \A i \in 6..9 : Test5[i] = CallOn("get", i - 6, i - 5, "ok")
BY DEF Test5, TestPages

LEMMA CyclesScript ==
  /\ Len(Test6) = 9 /\ Test6[8] = CallOn("enable", 0, Unset, "EEXIST")
  /\ \A i \in {1, 3, 5, 7} : Test6[i] = EnableOf(0)
  /\ \A i \in {2, 4, 6, 9} : Test6[i] = DisableOf(0)
BY DEF Test6

LEMMA TwiceScript ==
  /\ Len(Test8) = 5
  /\ Test8[1] = CallOn("set", 0, 1, "ok") /\ Test8[2] = CallOn("get", 0, 1, "ok")
  /\ Test8[3] = CallOn("set", 0, 2, "ok") /\ Test8[4] = CallOn("get", 0, 2, "ok")
  /\ Test8[5] = DisableOf(0)
BY DEF Test8, SetAndGet

LEMMA LoopScript ==
  /\ Len(Test9) = 2 * Iterations + 2
  /\ Test9[1] = EnableOf(0) /\ Test9[2 * Iterations + 2] = DisableOf(0)
  /\ \A i \in 2..2 * Iterations + 1 :
       Test9[i] = CallOn(IF (i - 1) % 2 = 1 THEN "set" ELSE "get", 0, i \div 2, "ok")
BY TestAssumption DEF Test9

-----------------------------------------------------------------------------
(* What a test program that was refused nothing has left behind before it  *)
(* makes its next call.                                                    *)
Open == Table(base) \in expanded

Held ==
  /\ test \in {2, 3} => /\ step \in 1..4 => (Open <=> step > 1)
                        /\ step = 3 => meta[base] = test - 1
  /\ test \in {4, 7} => (step = 1 => ~Open)
  /\ test = 5 => /\ step \in 1..10 => (Open <=> step > 1)
                 /\ \A i \in 0..3 : i + 3 <= step /\ step \in 1..10 =>
                      Table(base + i) \in expanded /\ meta[base + i] = i + 1
  /\ test = 6 => (step \in 1..9 => (Open <=> step \in {2, 4, 6, 8, 9}))
  /\ test = 8 => /\ step \in 2..5 => Open
                 /\ step = 2 => meta[base] = 1
                 /\ step = 4 => meta[base] = 2
  /\ test = 9 => /\ step \in 1..2 * Iterations + 2 => (Open <=> step > 1)
                 /\ step \in 3..2 * Iterations + 1 /\ step % 2 = 1 => meta[base] = step \div 2

TestTypes ==
  /\ test \in 1..9 /\ base \in 0..NumPages - TestPages
  /\ step \in 1..Len(Script[test]) + 1 /\ verdict \in {"running", "passed", "failed"}

PteTypes ==
  /\ expanded \subseteq {Table(p) : p \in Pages} /\ DOMAIN meta = Pages /\ refused \in BOOLEAN

TestInv ==
  /\ TestTypes /\ PteTypes /\ TestsPass
  /\ verdict = "running" /\ ~refused => Held

Calls(k) ==
  /\ TestTypes /\ PteTypes /\ Held /\ test = k /\ step \in 1..Len(Script[test])
  /\ UNCHANGED <<test, base>> /\ step' = step + 1

(* The programs that enable, set, get and disable one page.                *)
LEMMA ValueCalls ==
  ASSUME NEW k \in {2, 3}, Calls(k)
  PROVE  Finds(Script[test][step]) /\ (Leaves(Script[test][step]) => Held')
<1> USE DEF Calls
<1>1. Len(Script[test]) = 4
  BY ScriptOf, ValueScripts
<1>2. step \in {1, 2, 3, 4} /\ base + 0 = base /\ base \in Pages
  BY <1>1, PteAssumption DEF TestTypes, Pages, TestPages
<1>3. /\ Script[test][1] = EnableOf(0) /\ Script[test][2] = CallOn("set", 0, k - 1, "ok")
      /\ Script[test][3] = CallOn("get", 0, k - 1, "ok") /\ Script[test][4] = DisableOf(0)
  BY ScriptOf, ValueScripts
<1>4. CASE step = 1
  BY <1>2, <1>3, <1>4 DEF EnableOf, CallOn, Finds, Leaves, Held, Open, Table
<1>5. CASE step = 2
  BY <1>2, <1>3, <1>5 DEF CallOn, Finds, Leaves, Held, Open, Table, PteTypes
<1>6. CASE step = 3
  BY <1>2, <1>3, <1>6 DEF CallOn, Finds, Leaves, Held, Open, Table, Unset
<1>7. CASE step = 4
  BY <1>2, <1>3, <1>7 DEF DisableOf, CallOn, Finds, Leaves, Held, Open, Table
<1> QED
  BY <1>2, <1>4, <1>5, <1>6, <1>7

(* A get or a disable of a table that is not expanded.                     *)
LEMMA ShortCalls ==
  ASSUME NEW k \in {1, 4, 7}, Calls(k)
  PROVE  Finds(Script[test][step]) /\ (Leaves(Script[test][step]) => Held')
<1> USE DEF Calls
<1>1. k \in {4, 7} /\ step = 1
  <2>1. Script[test] = IF k = 1 THEN Test1 ELSE IF k = 4 THEN Test4 ELSE Test7
    BY ScriptOf
  <2>2. Len(Script[test]) = IF k = 1 THEN 0 ELSE 1
    BY <2>1, ShortScripts
  <2>3. step \in 1..Len(Script[test])
    OBVIOUS
  <2> QED
    BY <2>2, <2>3
<1>2. Script[test][step] = IF k = 4 THEN CallOn("get", 0, Unset, "ENODATA")
                                    ELSE CallOn("disable", 0, Unset, "EINVAL")
  BY <1>1, ScriptOf, ShortScripts
<1>3. base + 0 = base
  BY PteAssumption DEF TestTypes, TestPages
<1> QED
  BY <1>1, <1>2, <1>3 DEF CallOn, Finds, Held, Open, Table, Unset

(* Pages with a value each, in one table or in two.                        *)
LEMMA PagesCalls ==
  ASSUME Calls(5)
  PROVE  Finds(Script[test][step]) /\ (Leaves(Script[test][step]) => Held')
<1> USE DEF Calls
<1>1. step \in 1..10
  BY ScriptOf, PagesScript DEF TestTypes
<1>2. base + 0 = base /\ base \in Int /\ \A i \in 0..3 : base + i \in Pages
  BY PteAssumption DEF TestTypes, TestPages, Pages
<1>3. Script[test] = Test5
  BY ScriptOf
<1>8. \A i \in 0..3 : i + 3 <= step => Table(base + i) \in expanded /\ meta[base + i] = i + 1
  BY <1>1 DEF Held
<1>4. CASE step = 1
  BY <1>2, <1>3, <1>4, PagesScript DEF EnableOf, CallOn, Finds, Leaves, Held, Open, Table
<1>5. CASE step \in 2..5
  <2>1. Script[test][step] = CallOn("set", step - 2, step - 1, "ok")
    BY <1>3, <1>5, PagesScript
  <2>2. Finds(Script[test][step])
    BY <2>1 DEF CallOn, Finds
  <2>3. ASSUME Leaves(Script[test][step]) PROVE Held'
    <3> DEFINE n == base + (step - 2)
    <3>1. /\ expanded' = expanded \cup {Table(n)}
          /\ meta' = [meta EXCEPT ![n] = step - 1]
      BY <2>1, <2>3 DEF CallOn, Leaves
    <3>2. ASSUME NEW i \in 0..3, i + 3 <= step + 1
          PROVE  Table(base + i) \in expanded' /\ meta'[base + i] = i + 1
      <4>1. CASE i = step - 2
        <5>1. n = base + i /\ n \in DOMAIN meta /\ step - 1 = i + 1
          BY <1>2, <4>1 DEF PteTypes
        <5> HIDE DEF n
        <5> QED
          BY <3>1, <5>1
      <4>2. CASE i # step - 2
        <5>1. Table(base + i) \in expanded /\ meta[base + i] = i + 1
          <6>1. i + 3 <= step
            BY <1>1, <3>2, <4>2
          <6> QED
            BY <1>8, <6>1
        <5>2. base + i # n
          BY <1>1, <1>2, <4>2
        <5>3. base + i \in DOMAIN meta
          BY <1>2 DEF PteTypes
        <5> HIDE DEF n
        <5> QED
          BY <3>1, <5>1, <5>2, <5>3
      <4> QED
        BY <4>1, <4>2
    <3>3. Open /\ Open'
      BY <1>5, <3>1 DEF Held, Open, Table
    <3> QED
      BY <1>5, <3>2, <3>3 DEF Held, Table
  <2> QED
    BY <2>2, <2>3
<1>6. CASE step \in 6..9
  <2>1. Script[test][step] = CallOn("get", step - 6, step - 5, "ok")
    BY <1>3, <1>6, PagesScript
  <2>2. /\ Table(base + (step - 6)) \in expanded /\ meta[base + (step - 6)] = step - 6 + 1
        /\ step - 6 + 1 = step - 5 /\ step - 5 # Unset
    <3>1. step - 6 \in 0..3 /\ step - 6 + 3 <= step /\ step - 6 + 1 = step - 5 /\ step - 5 > 0
      BY <1>6
    <3>2. Table(base + (step - 6)) \in expanded /\ meta[base + (step - 6)] = step - 6 + 1
      BY <1>8, <3>1
    <3> QED
      BY <3>1, <3>2 DEF Unset
  <2>3. Finds(Script[test][step])
    BY <2>1, <2>2 DEF CallOn, Finds
  <2>4. ASSUME Leaves(Script[test][step]) PROVE Held'
    <3>1. UNCHANGED <<expanded, meta>>
      BY <2>1, <2>4 DEF CallOn, Leaves
    <3> QED
      BY <1>6, <3>1 DEF Held, Open, Table
  <2> QED
    BY <2>3, <2>4
<1>7. CASE step = 10
  BY <1>2, <1>3, <1>7, PagesScript DEF DisableOf, CallOn, Finds, Held, Open, Table
<1> QED
  BY <1>1, <1>4, <1>5, <1>6, <1>7

(* Cycles of enable and disable.                                           *)
LEMMA CyclesCalls ==
  ASSUME Calls(6)
  PROVE  Finds(Script[test][step]) /\ (Leaves(Script[test][step]) => Held')
<1> USE DEF Calls
<1>1. step \in 1..9 /\ Script[test] = Test6
  BY ScriptOf, CyclesScript DEF TestTypes
<1>2. base + 0 = base
  BY PteAssumption DEF TestTypes, TestPages
<1>3. CASE step \in {1, 3, 5, 7}
  BY <1>1, <1>2, <1>3, CyclesScript DEF EnableOf, CallOn, Finds, Leaves, Held, Open, Table
<1>4. CASE step \in {2, 4, 6, 9}
  BY <1>1, <1>2, <1>4, CyclesScript DEF DisableOf, CallOn, Finds, Leaves, Held, Open, Table
<1>5. CASE step = 8
  BY <1>1, <1>2, <1>5, CyclesScript DEF CallOn, Finds, Leaves, Held, Open, Table
<1> QED
  BY <1>1, <1>3, <1>4, <1>5

(* A set expands the table by itself.                                      *)
LEMMA TwiceCalls ==
  ASSUME Calls(8)
  PROVE  Finds(Script[test][step]) /\ (Leaves(Script[test][step]) => Held')
<1> USE DEF Calls
<1>1. step \in 1..5 /\ Script[test] = Test8
  BY ScriptOf, TwiceScript DEF TestTypes
<1>2. base + 0 = base /\ base \in Pages
  BY PteAssumption DEF TestTypes, TestPages, Pages
<1>3. CASE step = 1
  BY <1>1, <1>2, <1>3, TwiceScript DEF CallOn, Finds, Leaves, Held, Open, Table, PteTypes
<1>4. CASE step = 2
  BY <1>1, <1>2, <1>4, TwiceScript DEF CallOn, Finds, Leaves, Held, Open, Table, Unset
<1>5. CASE step = 3
  BY <1>1, <1>2, <1>5, TwiceScript DEF CallOn, Finds, Leaves, Held, Open, Table, PteTypes
<1>6. CASE step = 4
  BY <1>1, <1>2, <1>6, TwiceScript DEF CallOn, Finds, Leaves, Held, Open, Table, Unset
<1>7. CASE step = 5
  BY <1>1, <1>2, <1>7, TwiceScript DEF DisableOf, CallOn, Finds, Leaves, Held, Open, Table
<1> QED
  BY <1>1, <1>3, <1>4, <1>5, <1>6, <1>7

(* A new value in each iteration: the get of the one that was set.         *)
LEMMA LoopCalls ==
  ASSUME Calls(9)
  PROVE  Finds(Script[test][step]) /\ (Leaves(Script[test][step]) => Held')
<1> USE DEF Calls
<1>1. step \in 1..2 * Iterations + 2 /\ Script[test] = Test9
  BY ScriptOf, LoopScript DEF TestTypes
<1>2. base + 0 = base /\ base \in Pages
  BY PteAssumption DEF TestTypes, TestPages, Pages
<1>3. CASE step = 1
  BY <1>1, <1>2, <1>3, LoopScript DEF EnableOf, CallOn, Finds, Leaves, Held, Open, Table
<1>4. ASSUME step # 1, step # 2 * Iterations + 2, (step - 1) % 2 = 1
      PROVE  Finds(Script[test][step]) /\ (Leaves(Script[test][step]) => Held')
  <2>1. step \in 2..2 * Iterations + 1
    BY <1>1, <1>4, TestAssumption
  <2>2. Script[test][step] = CallOn("set", 0, step \div 2, "ok")
    BY <1>1, <1>4, <2>1, LoopScript
  <2>3. step \div 2 = (step + 1) \div 2
    BY <1>1, <1>4
  <2>4. Finds(Script[test][step])
    BY <2>2 DEF CallOn, Finds
  <2>5. ASSUME Leaves(Script[test][step]) PROVE Held'
    <3>1. /\ expanded' = expanded \cup {Table(base)}
          /\ meta' = [meta EXCEPT ![base] = step \div 2]
      BY <1>2, <2>2, <2>5 DEF CallOn, Leaves
    <3>2. Open' /\ meta'[base] = (step + 1) \div 2
      BY <1>2, <2>3, <3>1 DEF Open, PteTypes, Table
    <3> QED
      BY <2>1, <3>2 DEF Held
  <2> QED
    BY <2>4, <2>5
<1>5. ASSUME step # 1, step # 2 * Iterations + 2, (step - 1) % 2 # 1
      PROVE  Finds(Script[test][step]) /\ (Leaves(Script[test][step]) => Held')
  <2>1. step \in 2..2 * Iterations + 1
    BY <1>1, <1>5, TestAssumption
  <2>2. Script[test][step] = CallOn("get", 0, step \div 2, "ok")
    BY <1>1, <1>5, <2>1, LoopScript
  <2>3. step \in 3..2 * Iterations + 1 /\ step % 2 = 1 /\ (step + 1) % 2 # 1
        /\ step \div 2 # 0
    BY <1>5, <2>1
  <2>4. Open /\ meta[base] = step \div 2
    BY <2>1, <2>3, TestAssumption DEF Held
  <2>5. Finds(Script[test][step])
    BY <1>2, <2>2, <2>3, <2>4 DEF CallOn, Finds, Open, Unset
  <2>6. ASSUME Leaves(Script[test][step]) PROVE Held'
    <3>1. UNCHANGED <<expanded, meta>>
      BY <2>2, <2>6 DEF CallOn, Leaves
    <3>2. Open'
      BY <2>4, <3>1 DEF Open, Table
    <3> QED
      BY <2>1, <2>3, <3>2 DEF Held
  <2> QED
    BY <2>5, <2>6
<1>6. CASE step = 2 * Iterations + 2
  <2>1. Script[test][step] = DisableOf(0) /\ Open
    BY <1>1, <1>6, LoopScript, TestAssumption DEF Held
  <2>2. step' > 2 * Iterations + 2 /\ step' \in Int
    BY <1>6, TestAssumption
  <2> QED
    BY <1>2, <2>1, <2>2, TestAssumption DEF DisableOf, CallOn, Finds, Held, Open
<1> QED
  BY <1>3, <1>4, <1>5, <1>6

(* A step of a script is one of its calls.                                 *)
LEMMA ScriptDomain ==
  ASSUME NEW k \in 1..9
  PROVE  DOMAIN Script[k] = 1..Len(Script[k])
<1>1. Script[k] \in {Test1, Test2, Test3, Test4, Test5, Test6, Test7, Test8, Test9}
  BY ScriptOf
<1>2. \A s \in {Test1, Test2, Test3, Test4, Test5, Test6, Test7, Test8, Test9} :
        DOMAIN s = 1..Len(s)
  BY TestAssumption DEF Test1, Test2, Test3, Test4, Test5, Test6, Test7, Test8, Test9, SetAndGet,
                        TestPages
<1> QED
  BY <1>1, <1>2

(* A refusal is not forgotten.                                             *)
LEMMA RefusalStays ==
  ASSUME TestsNext \/ MemoryNext, refused
  PROVE  refused'
<1>1. CASE TestsNext
  BY <1>1 DEF TestsNext, MakeCall, Exit, Enable, Disable, Set, Get, Refused, pteVars
<1>2. CASE MemoryNext
  BY <1>2 DEF MemoryNext, Setup, NextEvent, Stop, Access, EventDone, Enable, Set, Get, Refused, pteVars
<1> QED
  BY <1>1, <1>2

(* A call of a test program that the kernel does not refuse gets the       *)
(* answer it wants, wherever the pages lie.                                *)
LEMMA TestCalls ==
  ASSUME TestTypes, PteTypes, Held, MakeCall, ~refused'
  PROVE  ~refused /\ verdict' = "running" /\ Held'
<1>1. PICK k \in 1..9 : test = k
  BY DEF TestTypes
<1>2. step \in 1..Len(Script[test])
  BY ScriptDomain DEF MakeCall, TestTypes
<1>3. Calls(k)
  BY <1>1, <1>2 DEF Calls, MakeCall
<1>4. Finds(Script[test][step]) /\ (Leaves(Script[test][step]) => Held')
  BY <1>1, <1>3, ShortCalls, ValueCalls, PagesCalls, CyclesCalls, TwiceCalls, LoopCalls
<1> QED
  BY <1>4, CallsSucceed

-----------------------------------------------------------------------------
(* The metadata stays on pages of the address space.                       *)
LEMMA CallsInside ==
  ASSUME PteTypes, NEW p \in Pages, NEW v, NEW r,
         Enable(p, r) \/ Disable(p, r) \/ Set(p, v, r) \/ Get(p, v, r)
  PROVE  PteTypes'
<1> USE DEF PteTypes, Refused, pteVars
<1>1. CASE Enable(p, r) \/ Disable(p, r)
  BY <1>1 DEF Enable, Disable
<1>2. CASE Set(p, v, r) \/ Get(p, v, r)
  BY <1>2 DEF Set, Get
<1> QED
  BY <1>1, <1>2

(* A block of memory begins and ends inside the address space.             *)
LEMMA BlockInside ==
  ASSUME NEW b \in 0..NumPages - BlockPages, NEW offset \in 0..max_offset
  PROVE  b \in Pages /\ b + offset \div PageWords \in Pages
<1>1. BlockWords \in Nat \ {0} /\ PageWords \in Nat \ {0} /\ NumPages \in Nat
  BY MemoryAssumption, PteAssumption
<1>2. PICK q \in Nat, r \in 0..PageWords - 1 :
        q = offset \div PageWords /\ offset = PageWords * q + r
  BY <1>1, Division, offset \in Nat DEF max_offset
<1>3. PICK n \in Nat, m \in 0..PageWords - 1 :
        n = BlockPages /\ BlockWords + PageWords - 1 = PageWords * n + m
  BY <1>1, Division, BlockWords + PageWords - 1 \in Nat DEF BlockPages
<1>4. offset <= BlockWords - 1
  BY <1>1 DEF max_offset
<1>5. q < n
  <2>1. ASSUME n <= q PROVE FALSE
    <3>1. PageWords * n <= PageWords * q
      BY <1>1, <2>1
    <3> QED
      BY <1>1, <1>2, <1>3, <1>4, <3>1
  <2> QED
    BY <2>1
<1> QED
  BY <1>1, <1>2, <1>3, <1>5 DEF Pages

(* Where the buffers and the loops of the memory benchmark are.            *)
SpaceInv ==
  /\ \A t \in Workers : buffers[t] = NoPage \/ buffers[t] \in 0..NumPages - BlockPages
  /\ buffers \in [Workers -> 0..NumPages] /\ word \in [Workers -> 0..BlockWords]

(* No step of the benchmark leaves a block or the address space.           *)
LEMMA SpaceStep ==
  ASSUME MemoryInv, SpaceInv, PteTypes, MemoryNext
  PROVE  SpaceInv' /\ PteTypes'
<1> USE MemoryAssumption DEF SpaceInv
<1>1. CASE Setup
  <2>1. PICK t \in Workers, p \in 0..NumPages - BlockPages :
          /\ buffers' = [u \in Workers |->
               IF u \in (IF mopt.scope = "global" THEN Workers ELSE {t}) THEN p ELSE buffers[u]]
          /\ \/ \E r : Enable(p, r)
             \/ UNCHANGED pteVars
          /\ word' = word
    BY <1>1 DEF Setup
  <2>2. 0 \in 0..max_offset
    BY DEF max_offset
  <2>3. p \in Pages
    BY <2>2, BlockInside
  <2>4. PteTypes'
    BY <2>1, <2>3, CallsInside DEF PteTypes, pteVars
  <2>5. p \in 0..NumPages
    BY <2>3, PteAssumption DEF Pages
  <2>6. SpaceInv'
    BY <2>1, <2>5 DEF NoPage, BlockPages
  <2> QED
    BY <2>4, <2>6
<1>2. ASSUME NEW t \in Workers, NextEvent(t) \/ Stop(t) \/ EventDone(t)
      PROVE  SpaceInv' /\ PteTypes'
  <2>1. UNCHANGED <<buffers, pteVars>> /\ (word' = word \/ word' = [word EXCEPT ![t] = 0])
    BY <1>2 DEF NextEvent, Stop, EventDone
  <2>2. 0 \in 0..BlockWords
    OBVIOUS
  <2> QED
    BY <2>1, <2>2 DEF PteTypes, pteVars, NoPage, BlockPages
<1>3. ASSUME NEW t \in Workers, Access(t)
      PROVE  SpaceInv' /\ PteTypes'
  <2>1. Last \in Int /\ Last <= max_offset /\ max_offset = BlockWords - 1
    BY DEF Last, max_offset
  <2>2. word[t] \in 0..max_offset /\ word' = [word EXCEPT ![t] = @ + 1] /\ buffers' = buffers
    BY <1>3, <2>1 DEF Access
  <2>3. PICK offset \in 0..max_offset :
          \/ \E r, v : \/ Get(buffers[t] + offset \div PageWords, v, r)
                       \/ Set(buffers[t] + offset \div PageWords, v, r)
          \/ UNCHANGED pteVars
    BY <1>3, <2>2 DEF Access
  <2>4. buffers[t] \in 0..NumPages - BlockPages
    BY <1>3 DEF MemoryInv, BufferInv, Access
  <2>5. PteTypes'
    BY <2>3, <2>4, BlockInside, CallsInside DEF PteTypes, pteVars
  <2>6. word[t] + 1 \in 0..BlockWords
    BY <2>1, <2>2
  <2> QED
    BY <2>2, <2>5, <2>6 DEF NoPage, BlockPages
<1> QED
  BY <1>1, <1>2, <1>3 DEF MemoryNext

-----------------------------------------------------------------------------
(* One program runs; the state of the others stays as it began.            *)
ProgramInv ==
  /\ program \in {"fileio", "memory", "test"}
  /\ program # "test" => test = 1
  /\ TestInv /\ SpaceInv

(* Nothing is expanded and nothing has been called.                        *)
LEMMA ProgramStart == Init => ProgramInv
<1> SUFFICES ASSUME Init PROVE ProgramInv
  OBVIOUS
<1> USE DEF Init
<1>1. PteTypes
  BY DEF PteInit, PteTypes
<1>2. TestTypes
  <2>1. ASSUME NEW k \in 1..9 PROVE 1 \in 1..Len(Script[k]) + 1
    <3>1. Len(Script[k]) \in Nat
      BY ScriptOf, ShortScripts, ValueScripts, PagesScript, CyclesScript, TwiceScript, LoopScript,
         TestAssumption
    <3> QED
      BY <3>1
  <2> QED
    BY <2>1, ScriptOf DEF TestsInit, TestTypes
<1>3. Held
  BY DEF Held, Open, TestsInit, PteInit
<1>4. SpaceInv
  BY MemoryAssumption, PteAssumption DEF MemoryInit, SpaceInv, NoPage
<1> QED
  BY <1>1, <1>2, <1>3, <1>4 DEF ProgramInv, TestInv, TestsPass, TestsInit

(* A call leaves what the next one wants to find.                          *)
LEMMA TestStep ==
  ASSUME TestInv, TestsNext
  PROVE  TestInv'
<1> USE DEF TestInv
<1>1. CASE Exit
  <2>1. UNCHANGED <<test, base, step, expanded, meta, refused>> /\ verdict' = "passed"
    BY <1>1 DEF Exit, pteVars
  <2> QED
    BY <2>1 DEF TestTypes, PteTypes, TestsPass
<1>2. CASE MakeCall
  <2> DEFINE c == Script[test][step]
  <2>1. PteTypes'
    <3>1. c.page \in 0..TestPages - 1
      <4>1. PICK k \in 1..9 : test = k
        BY DEF TestTypes
      <4>2. step \in 1..Len(Script[test])
        BY <1>2, ScriptDomain DEF MakeCall, TestTypes
      <4>3. CASE k \in {1, 4, 7}
        BY <4>1, <4>2, <4>3, ScriptOf, ShortScripts DEF CallOn, TestPages
      <4>4. CASE k \in {2, 3}
        <5>1. Len(Script[test]) = 4
          BY <4>1, <4>4, ScriptOf, ValueScripts
        <5>2. step \in {1, 2, 3, 4}
          BY <4>2, <5>1
        <5> QED
          BY <4>1, <4>4, <5>2, ScriptOf, ValueScripts DEF EnableOf, DisableOf, CallOn, TestPages
      <4>5. CASE k = 5
        <5>1. Len(Script[test]) = 10
          BY <4>1, <4>5, ScriptOf, PagesScript
        <5>2. step \in {1, 2, 3, 4, 5, 6, 7, 8, 9, 10}
          BY <4>2, <5>1
        <5> QED
          BY <4>1, <4>5, <5>2, ScriptOf, PagesScript DEF EnableOf, DisableOf, CallOn, TestPages
      <4>6. CASE k = 6
        <5>1. Len(Script[test]) = 9
          BY <4>1, <4>6, ScriptOf, CyclesScript
        <5>2. step \in {1, 2, 3, 4, 5, 6, 7, 8, 9}
          BY <4>2, <5>1
        <5> QED
          BY <4>1, <4>6, <5>2, ScriptOf, CyclesScript DEF EnableOf, DisableOf, CallOn, TestPages
      <4>7. CASE k = 8
        <5>1. Len(Script[test]) = 5
          BY <4>1, <4>7, ScriptOf, TwiceScript
        <5>2. step \in {1, 2, 3, 4, 5}
          BY <4>2, <5>1
        <5> QED
          BY <4>1, <4>7, <5>2, ScriptOf, TwiceScript DEF EnableOf, DisableOf, CallOn, TestPages
      <4>8. CASE k = 9
        <5>1. step = 1 \/ step = 2 * Iterations + 2 \/ step \in 2..2 * Iterations + 1
          <6>1. Len(Script[test]) = 2 * Iterations + 2
            BY <4>1, <4>8, ScriptOf, LoopScript
          <6> QED
            BY <4>2, <6>1, TestAssumption
        <5>2. c = EnableOf(0) \/ c = DisableOf(0) \/ \E call, v : c = CallOn(call, 0, v, "ok")
          BY <4>1, <4>8, <5>1, ScriptOf, LoopScript
        <5>3. PICK call, v, want : c = CallOn(call, 0, v, want)
          BY <5>2 DEF EnableOf, DisableOf
        <5> HIDE DEF c
        <5>4. c.page = 0
          BY <5>3 DEF CallOn
        <5> QED
          BY <5>4 DEF TestPages
      <4> QED
        BY <4>1, <4>3, <4>4, <4>5, <4>6, <4>7, <4>8
    <3>2. PICK p \in Pages : p = base + c.page
      BY <3>1, PteAssumption DEF TestTypes, TestPages, Pages
    <3>3. \E r, v : Enable(p, r) \/ Disable(p, r) \/ Set(p, v, r) \/ Get(p, v, r)
      BY <1>2, <3>2 DEF MakeCall
    <3> QED
      BY <3>3, CallsInside
  <2>2. TestTypes'
    <3>1. step \in 1..Len(Script[test])
      BY <1>2, ScriptDomain DEF MakeCall, TestTypes
    <3>2. /\ test' = test /\ base' = base /\ step' = step + 1
          /\ verdict' \in {"running", "passed", "failed"}
      BY <1>2 DEF MakeCall
    <3> QED
      BY <3>1, <3>2 DEF TestTypes
  <2>3. ~refused' => verdict' = "running" /\ Held'
    <3>1. refused => refused'
      BY <1>2, RefusalStays DEF TestsNext
    <3>2. verdict = "running"
      BY <1>2 DEF MakeCall
    <3> QED
      BY <1>2, <3>1, <3>2, TestCalls
  <2> QED
    BY <2>1, <2>2, <2>3 DEF TestsPass
<1> QED
  BY <1>1, <1>2 DEF TestsNext

(* So does every step of any program.                                      *)
LEMMA ProgramStep ==
  ASSUME MemoryInv, ProgramInv, [Next]_vars
  PROVE  ProgramInv'
<1> USE DEF ProgramInv
<1>1. CASE RunTests /\ UNCHANGED program
  <2>1. TestInv'
    BY <1>1, TestStep DEF RunTests
  <2>2. SpaceInv'
    BY <1>1 DEF RunTests, memoryVars, SpaceInv, NoPage, BlockPages
  <2> QED
    BY <1>1, <2>1, <2>2 DEF RunTests
<1>2. CASE RunMemory /\ UNCHANGED program
  <2>1. SpaceInv' /\ PteTypes'
    BY <1>2, SpaceStep DEF RunMemory, TestInv
  <2>2. test = 1 /\ UNCHANGED <<test, base, step, verdict>>
    BY <1>2 DEF RunMemory, testVars
  <2>3. verdict # "failed" \/ refused'
    BY <1>2, RefusalStays DEF RunMemory, TestInv, TestsPass
  <2>4. TestInv'
    BY <2>1, <2>2, <2>3 DEF TestInv, TestTypes, TestsPass, Held
  <2> QED
    BY <1>2, <2>1, <2>2, <2>4
<1>3. CASE (RunFileIo /\ UNCHANGED program) \/ UNCHANGED vars
  <2>1. UNCHANGED <<program, pteVars, testVars, memoryVars>>
    BY <1>3 DEF RunFileIo, vars
  <2> QED
    BY <2>1 DEF pteVars, testVars, memoryVars, TestInv, TestTypes, PteTypes, TestsPass, Held, Open,
                SpaceInv, NoPage, BlockPages, Table
<1> QED
  BY <1>1, <1>2, <1>3 DEF Next

(* Together with the memory benchmark's own invariant.                     *)
LEMMA ProgramInvariant == Spec => [](MemoryInv /\ ProgramInv)
BY MemoryStart, MemoryStep, ProgramStart, ProgramStep, PTL DEF Spec

(* A test program gets every result it wants unless the kernel refuses a   *)
(* call, wherever its pages lie; and the memory benchmark shares its       *)
(* blocks out exactly.                                                     *)
THEOREM ProgramsCorrect == Spec => []ProgramsPass
<1>1. MemoryInv /\ ProgramInv => TestsPass
  BY DEF ProgramInv, TestInv
<1> QED
  BY <1>1, ProgramInvariant, MemorySharesExact, PTL DEF ProgramsPass

(* The variables of all programs keep their types: no request of the       *)
(* sequential file test lies outside its file, no thread has more than     *)
(* --file-async-backlog operations in the kernel, and no metadata call is  *)
(* for a page outside the address space.                                   *)
THEOREM ProgramTypesCorrect == Spec => []TypeOK
<1>1. MemoryInv /\ ProgramInv => TestsTypeOK
  <2> SUFFICES ASSUME ProgramInv PROVE TestsTypeOK
    OBVIOUS
  <2> QED
    BY ScriptOf, PteAssumption DEF ProgramInv, TestInv, TestTypes, TestsTypeOK, Pages, TestPages
<1>2. MemoryInv /\ ProgramInv => MemoryTypeOK
  <2> SUFFICES ASSUME MemoryInv, ProgramInv PROVE MemoryTypeOK
    OBVIOUS
  <2> QED
    BY DEF MemoryInv, MemoryTypes, ProgramInv, SpaceInv, MemoryTypeOK, NoPage
<1>3. MemoryInv /\ ProgramInv =>
        /\ program \in {"fileio", "memory", "test"}
        /\ expanded \subseteq {Table(p) : p \in Pages} /\ DOMAIN meta = Pages /\ refused \in BOOLEAN
  BY DEF ProgramInv, TestInv, PteTypes
<1> QED
  BY <1>1, <1>2, <1>3, FileInvariant, FileTypesSuffice, ProgramInvariant, PTL DEF TypeOK

=============================================================================
