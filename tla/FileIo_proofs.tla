---------------------------- MODULE FileIo_proofs ----------------------------
(***************************************************************************)
(* The file benchmark, for any number of threads and files, any file, block*)
(* and request size and any command line.  The requests of a sequential    *)
(* run follow each other without a gap, and the last syncs leave no write  *)
(* of a synchronous run behind.                                            *)
(*                                                                         *)
(* The invariant behind it has three parts next to the types.  QueueInv:   *)
(* what a thread has in the kernel is what it has counted, one less than   *)
(* the limit while it has a request in hand.  StreamInv: the position of   *)
(* the sequential generator is quotient and remainder of the number of     *)
(* requests, and a series of syncs is not interrupted.  SyncInv: for every *)
(* file with a write that is not synced some thread still answers, be it   *)
(* that it is about to sync the file or that it has not come to the file   *)
(* in its last syncs.                                                      *)
(***************************************************************************)
EXTENDS BuiltinTests, SequenceTheorems, TLAPS

Labels == {"more", "bump", "bumped", "wrap", "pick", "claim", "count", "execute", "fsync",
           "wait", "thread_done", "done", "failed", "killed"}
Requests == [op : {"null", "fsync", "read", "write"}, file : Nat, pos : Nat, size : Nat]
Queue(q) ==
  /\ DOMAIN q = {"nrequests", "flying", "landed", "bad"}
  /\ q.nrequests \in Nat /\ q.flying \in Seq(Requests) /\ q.landed \in Nat /\ q.bad \in BOOLEAN

ControlTypes ==
  /\ fopt \in FileOptions /\ pc \in [Threads -> Labels] /\ req \in [Threads -> Requests]
  /\ seen \in [Threads -> Nat] /\ doneFiles \in [Threads -> 0..NumFiles]

SharedTypes ==
  /\ position \in 0..FileSize - 1 /\ currentFile \in 0..NumFiles /\ fsyncedFile \in Nat /\ reqPerformed \in Nat
  /\ isDirty \in BOOLEAN /\ warned \in BOOLEAN /\ complained \in BOOLEAN
  /\ prevReq \in Requests /\ unsynced \subseteq 0..NumFiles - 1

QueueTypes == DOMAIN aio = Threads /\ \A t \in Threads : Queue(aio[t])

FileTypes == ControlTypes /\ SharedTypes /\ QueueTypes

(* A thread's operations in the kernel: counted, bounded, on files that    *)
(* exist.                                                                  *)
QueueInv ==
  \A t \in Threads :
    /\ aio[t].nrequests = Len(aio[t].flying) + aio[t].landed
    /\ aio[t].nrequests <= IF pc[t] \in {"wait", "failed", "killed"} THEN Backlog ELSE Backlog - 1
    /\ \A i \in 1..Len(aio[t].flying) : aio[t].flying[i].file < NumFiles
    /\ pc[t] \in {"fsync", "wait"} => req[t].file < NumFiles

-----------------------------------------------------------------------------
(* A file has a size, and what remains of it is positive at each block.    *)
LEMMA Lengths ==
  /\ FileSize \in Nat \ {0} /\ NumFiles \in Nat \ {0}
  /\ BlockSize \in Nat \ {0} /\ RequestSize \in Nat \ {0} /\ Backlog \in Nat \ {0}
  /\ \A b \in Blocks : b.file \in Nat /\ b.pos \in 0..FileSize - 1
<1>1. FileSize \in Nat \ {0}
  BY FileAssumption DEF FileSize
<1>2. ASSUME NEW n \in Nat PROVE n \div FileSize \in Nat /\ n % FileSize \in 0..FileSize - 1
  BY <1>1
<1>3. ASSUME NEW b \in Blocks PROVE b.file \in Nat /\ b.pos \in 0..FileSize - 1
  <2>1. PICK i \in Int : i >= 0 /\ b = BlockOf(i * BlockSize)
    BY DEF Blocks
  <2> DEFINE x == i * BlockSize
  <2>2. x \in Nat
    BY <2>1, FileAssumption
  <2>3. b = [file |-> x \div FileSize, pos |-> x % FileSize]
    BY <2>1 DEF BlockOf
  <2> HIDE DEF x
  <2> QED
    BY <2>2, <2>3, <1>2
<1> QED
  BY <1>1, <1>3, FileAssumption

(* Taking one operation out of the queue leaves the others.                *)
LEMMA TakeOut ==
  ASSUME NEW S, NEW q \in Seq(S), NEW i \in 1..Len(q)
  PROVE  LET rest == SubSeq(q, 1, i - 1) \o SubSeq(q, i + 1, Len(q))
         IN  /\ rest \in Seq(S) /\ Len(rest) = Len(q) - 1
             /\ \A j \in 1..Len(rest) : rest[j] = IF j < i THEN q[j] ELSE q[j + 1]
<1> DEFINE a == SubSeq(q, 1, i - 1)
           b == SubSeq(q, i + 1, Len(q))
<1>0. Len(q) \in Nat /\ i \in Int /\ \A k \in 1..Len(q) : q[k] \in S
  BY LenProperties
<1>1. a \in Seq(S) /\ Len(a) = i - 1 /\ \A j \in 1..i - 1 : a[j] = q[j]
  <2>1. \A k \in 1..i - 1 : q[k] \in S
    BY <1>0
  <2>2. /\ a \in Seq(S) /\ Len(a) = IF 1 <= i - 1 THEN i - 1 - 1 + 1 ELSE 0
        /\ \A j \in 1..i - 1 - 1 + 1 : a[j] = q[1 + j - 1]
    BY <1>0, <2>1, SubSeqProperties, 1 \in Int, i - 1 \in Int
  <2> HIDE DEF a
  <2>3. \A j \in 1..i - 1 : 1 + j - 1 = j
    OBVIOUS
  <2> QED
    BY <1>0, <2>2, <2>3
<1>2. b \in Seq(S) /\ Len(b) = Len(q) - i /\ \A j \in 1..Len(q) - i : b[j] = q[i + j]
  <2>1. \A k \in i + 1..Len(q) : q[k] \in S
    BY <1>0
  <2>2. /\ b \in Seq(S) /\ Len(b) = IF i + 1 <= Len(q) THEN Len(q) - (i + 1) + 1 ELSE 0
        /\ \A j \in 1..Len(q) - (i + 1) + 1 : b[j] = q[i + 1 + j - 1]
    BY <1>0, <2>1, SubSeqProperties, i + 1 \in Int, Len(q) \in Int
  <2> HIDE DEF b
  <2>3. \A j \in 1..Len(q) - i : i + 1 + j - 1 = i + j
    BY <1>0
  <2> QED
    BY <1>0, <2>2, <2>3
<1> HIDE DEF a, b
<1>3. a \o b \in Seq(S) /\ Len(a \o b) = Len(a) + Len(b)
  BY <1>1, <1>2, ConcatProperties
<1>4. \A j \in 1..Len(a) + Len(b) :
        (a \o b)[j] = IF j <= Len(a) THEN a[j] ELSE b[j - Len(a)]
  BY <1>1, <1>2, ConcatProperties
<1>5. Len(q) \in Nat
  BY LenProperties
<1>6. ASSUME NEW j \in 1..Len(a \o b) PROVE (a \o b)[j] = IF j < i THEN q[j] ELSE q[j + 1]
  <2>1. CASE j < i
    BY <1>1, <1>2, <1>3, <1>4, <1>5, <2>1
  <2>2. CASE j >= i
    <3>1. (a \o b)[j] = b[j - (i - 1)] /\ j - (i - 1) \in 1..Len(q) - i
      BY <1>1, <1>2, <1>3, <1>4, <1>5, <2>2
    <3>2. i + (j - (i - 1)) = j + 1
      OBVIOUS
    <3> QED
      BY <1>2, <3>1, <3>2, <2>2
  <2> QED
    BY <2>1, <2>2
<1>7. Len(a \o b) = Len(q) - 1
  BY <1>1, <1>2, <1>3, <1>5
<1> QED
  BY <1>3, <1>6, <1>7 DEF a, b

-----------------------------------------------------------------------------
(* The file test starts with empty queues and with every thread at rest.   *)
LEMMA FileStart == FileInit => FileTypes /\ QueueInv
<1> SUFFICES ASSUME FileInit PROVE FileTypes /\ QueueInv
  OBVIOUS
<1> USE Lengths DEF FileInit
<1>1. ControlTypes
  BY DEF ControlTypes, Labels, Requests, Null
<1>2. SharedTypes
  <2>1. Null \in Requests
    BY DEF Null, Requests
  <2>2. 0 \in 0..FileSize - 1 /\ 0 \in 0..NumFiles
    OBVIOUS
  <2> QED
    BY <2>1, <2>2 DEF SharedTypes
<1>3. ASSUME NEW t \in Threads
      PROVE  aio[t] = [nrequests |-> 0, flying |-> <<>>, landed |-> 0, bad |-> FALSE]
  OBVIOUS
<1>4. QueueTypes
  <2>1. DOMAIN aio = Threads /\ <<>> \in Seq(Requests)
    OBVIOUS
  <2> QED
    BY <1>3, <2>1 DEF QueueTypes, Queue
<1>5. QueueInv
  BY <1>3 DEF QueueInv
<1> QED
  BY <1>1, <1>2, <1>4, <1>5 DEF FileTypes

FileStep(t) ==
  \/ Leave(t) \/ SeqRequest(t) \/ SeqFsync(t)
  \/ RndCheck(t) \/ BumpLoad(t) \/ BumpStore(t) \/ Wrap(t) \/ RndPick(t) \/ RndClaim(t) \/ RndCount(t)
  \/ Refuse(t) \/ Stray(t) \/ Transfer(t) \/ Submit(t) \/ Complete(t) \/ Wait(t)
  \/ Fsync(t) \/ FinalFsync(t) \/ Drain(t)

(* A step goes from label to label, with a request the generators may make.*)
LEMMA ControlStep ==
  ASSUME ControlTypes, SharedTypes, NEW t \in Threads, FileStep(t)
  PROVE  ControlTypes'
<1>l. /\ {"more", "bump", "bumped", "wrap", "pick", "claim", "count"} \subseteq Labels
      /\ {"execute", "fsync", "wait", "thread_done", "done", "failed", "killed"} \subseteq Labels
  BY DEF Labels
<1> USE <1>l DEF ControlTypes, Goto, Fail, AfterData, generator
<1>1. ASSUME NEW l \in Labels, Goto(t, l) PROVE pc' \in [Threads -> Labels]
  BY <1>1
<1>2. CASE Leave(t)
  BY <1>2 DEF Leave
<1>3. CASE SeqRequest(t)
  <2> DEFINE rewind == currentFile = NumFiles
             file == IF rewind THEN 0 ELSE currentFile
             pos == IF rewind THEN 0 ELSE position
             size == Least(RequestSize, FileSize - pos)
             new == [op |-> IF Reads THEN "read" ELSE "write", file |-> file, pos |-> pos,
                     size |-> size]
  <2>1. size \in Nat /\ pos \in Nat /\ file \in Nat
    BY Lengths DEF Least, SharedTypes
  <2>2. new \in Requests
    BY <2>1 DEF Requests
  <2>3. req' = [req EXCEPT ![t] = new]
    BY <1>3 DEF SeqRequest
  <2> HIDE DEF new
  <2> QED
    BY <1>3, <2>2, <2>3 DEF SeqRequest
<1>4. CASE SeqFsync(t) \/ RndCheck(t)
  <2>1. FsyncOf(fsyncedFile) \in Requests
    BY DEF FsyncOf, Requests, SharedTypes
  <2> QED
    BY <1>4, <2>1 DEF SeqFsync, RndCheck
<1>5. CASE BumpLoad(t)
  <2>1. req[t].file \in Nat /\ fsyncedFile \in Nat
    BY DEF Requests, SharedTypes
  <2> QED
    BY <1>5, <2>1 DEF BumpLoad
<1>6. CASE BumpStore(t) \/ Wrap(t) \/ RndCount(t)
  BY <1>6 DEF BumpStore, Wrap, RndCount
<1>7. CASE RndClaim(t)
  BY <1>7 DEF RndClaim, SharedTypes
<1>8. CASE RndPick(t)
  <2>1. PICK b \in Blocks, op \in {"read", "write"} :
          req' = [req EXCEPT ![t] = [op |-> op, file |-> b.file, pos |-> b.pos,
                                     size |-> Least(BlockSize, FileSize - b.pos)]]
    BY <1>8 DEF RndPick
  <2>2. Least(BlockSize, FileSize - b.pos) \in Nat /\ b.file \in Nat /\ b.pos \in Nat
    BY Lengths DEF Least
  <2>3. req' \in [Threads -> Requests]
    BY <2>1, <2>2 DEF Requests
  <2> QED
    BY <1>8, <2>3 DEF RndPick
<1>9. CASE Refuse(t) \/ Stray(t)
  BY <1>9 DEF Refuse, Stray
<1>10. CASE Transfer(t) \/ Fsync(t)
  BY <1>10 DEF Transfer, Fsync
<1>11. CASE Submit(t) \/ Complete(t)
  BY <1>11 DEF Submit, Complete
<1>12. CASE Wait(t)
  BY <1>12 DEF Wait
<1>13. CASE FinalFsync(t) \/ Drain(t)
  BY <1>13, Lengths DEF FinalFsync, Drain
<1> QED
  BY <1>2, <1>3, <1>4, <1>5, <1>6, <1>7, <1>8, <1>9, <1>10, <1>11, <1>12, <1>13 DEF FileStep

(* The shared state, without a lock in the random tests.                   *)
LEMMA SharedStep ==
  ASSUME FileTypes, QueueInv, NEW t \in Threads, FileStep(t)
  PROVE  SharedTypes'
<1> USE DEF FileTypes, SharedTypes, Fail, generator
<1>r. req[t].file \in Nat /\ seen[t] \in Nat
  BY DEF ControlTypes, Requests
<1>1. CASE SeqRequest(t)
  <2> DEFINE rewind == currentFile = NumFiles
             file == IF rewind THEN 0 ELSE currentFile
             pos == IF rewind THEN 0 ELSE position
             size == Least(RequestSize, FileSize - pos)
             new == [op |-> IF Reads THEN "read" ELSE "write", file |-> file, pos |-> pos,
                     size |-> size]
  <2>1. /\ pos \in 0..FileSize - 1 /\ file \in 0..NumFiles - 1
        /\ size \in Nat /\ pos + size <= FileSize
    BY Lengths DEF Least
  <2>2. new \in Requests
    BY <2>1 DEF Requests
  <2>3. /\ position' = IF pos + size = FileSize THEN 0 ELSE pos + size
        /\ currentFile' = IF pos + size = FileSize THEN file + 1 ELSE file
        /\ prevReq' = IF fopt.validate THEN new ELSE prevReq
        /\ warned' = (warned \/ (fopt.validate /\ Gap(prevReq, new)))
        /\ reqPerformed' = reqPerformed + 1
        /\ isDirty' = (isDirty \/ ~Reads)
        /\ UNCHANGED <<fsyncedFile, unsynced, complained>>
    BY <1>1 DEF SeqRequest
  <2> HIDE DEF pos, size, file, new
  <2>4. position' \in 0..FileSize - 1 /\ currentFile' \in 0..NumFiles
    BY <2>1, <2>3, Lengths
  <2> QED
    BY <2>2, <2>3, <2>4
<1>2. CASE SeqFsync(t)
  <2>1. (fsyncedFile + 1) % NumFiles \in Nat
    BY Lengths
  <2> QED
    BY <1>2, <2>1 DEF SeqFsync
<1>3. CASE BumpStore(t)
  BY <1>3, <1>r DEF BumpStore
<1>10. CASE Wrap(t)
  <2>1. UNCHANGED <<position, currentFile, reqPerformed, prevReq, warned, unsynced, complained>>
    BY <1>10 DEF Wrap
  <2>2. CASE UNCHANGED <<fsyncedFile, isDirty>>
    BY <2>1, <2>2
  <2>3. CASE fsyncedFile' = 0 /\ isDirty' = FALSE
    BY <2>1, <2>3
  <2> QED
    BY <1>10, <2>2, <2>3 DEF Wrap
<1>11. CASE RndCount(t)
  <2>1. /\ reqPerformed' = seen[t] + 1 /\ isDirty' \in BOOLEAN
        /\ UNCHANGED <<position, currentFile, fsyncedFile, prevReq, warned, unsynced, complained>>
    BY <1>11 DEF RndCount
  <2> QED
    BY <2>1, <1>r
<1>4. CASE Leave(t) \/ RndCheck(t) \/ BumpLoad(t) \/ RndPick(t) \/ RndClaim(t)
  BY <1>4 DEF Leave, RndCheck, BumpLoad, RndPick, RndClaim
<1>5. CASE Refuse(t) \/ Stray(t) \/ Submit(t) \/ Wait(t)
  BY <1>5 DEF Refuse, Stray, Submit, Wait
<1>6. CASE Transfer(t)
  <2>1. unsynced' \subseteq unsynced \cup {req[t].file} /\ req[t].file \in 0..NumFiles - 1
    BY <1>6, <1>r, Lengths DEF Transfer
  <2> QED
    BY <1>6, <2>1 DEF Transfer
<1>7. CASE Complete(t)
  <2>1. PICK i \in 1..Len(aio[t].flying), ok \in BOOLEAN :
          unsynced' = unsynced \cup (IF ok /\ aio[t].flying[i].op = "write"
                                     THEN {aio[t].flying[i].file} ELSE {})
    BY <1>7 DEF Complete
  <2>2. aio[t].flying \in Seq(Requests) /\ aio[t].flying[i].file < NumFiles
    BY DEF QueueTypes, Queue, QueueInv
  <2>3. aio[t].flying[i] \in Requests
    BY <2>2
  <2>4. aio[t].flying[i].file \in Nat
    BY <2>3 DEF Requests
  <2>5. aio[t].flying[i].file \in 0..NumFiles - 1
    BY <2>2, <2>4, Lengths
  <2> QED
    BY <1>7, <2>1, <2>5 DEF Complete
<1>8. CASE Fsync(t) \/ FinalFsync(t)
  BY <1>8 DEF Fsync, FinalFsync
<1>9. CASE Drain(t)
  BY <1>9 DEF Drain, QueueTypes, Queue
<1> QED
  BY <1>1, <1>2, <1>3, <1>4, <1>5, <1>6, <1>7, <1>8, <1>9, <1>10, <1>11 DEF FileStep

(* The queue of operations: at most Backlog, and with a request in hand    *)
(* one less, so that the request still fits.                               *)
LEMMA QueueStep ==
  ASSUME FileTypes, QueueInv, NEW t \in Threads, FileStep(t)
  PROVE  QueueTypes' /\ QueueInv'
<1>n. Backlog \in Nat \ {0} /\ NumFiles \in Nat \ {0}
  BY Lengths
<1>d. DOMAIN aio = Threads /\ pc \in [Threads -> Labels] /\ req \in [Threads -> Requests]
  BY DEF FileTypes, ControlTypes, QueueTypes
<1>q. ASSUME NEW u \in Threads
      PROVE  /\ DOMAIN aio[u] = {"nrequests", "flying", "landed", "bad"}
             /\ aio[u].nrequests \in Nat /\ aio[u].flying \in Seq(Requests)
             /\ aio[u].landed \in Nat /\ aio[u].bad \in BOOLEAN
             /\ Len(aio[u].flying) \in Nat
             /\ aio[u].nrequests = Len(aio[u].flying) + aio[u].landed
             /\ aio[u].nrequests <= Backlog
             /\ pc[u] \notin {"wait", "failed", "killed"} => aio[u].nrequests <= Backlog - 1
             /\ \A i \in 1..Len(aio[u].flying) : aio[u].flying[i].file < NumFiles
             /\ pc[u] \in {"fsync", "wait"} => req[u].file < NumFiles
  <2>1. Queue(aio[u])
    BY DEF FileTypes, QueueTypes
  <2>2. Len(aio[u].flying) \in Nat
    BY <2>1 DEF Queue
  <2> QED
    BY <2>1, <2>2, <1>n DEF Queue, QueueInv
<1>t. /\ aio[t].nrequests \in Nat /\ aio[t].flying \in Seq(Requests) /\ aio[t].landed \in Nat
      /\ aio[t].bad \in BOOLEAN /\ DOMAIN aio[t] = {"nrequests", "flying", "landed", "bad"}
      /\ Len(aio[t].flying) \in Nat /\ aio[t].nrequests = Len(aio[t].flying) + aio[t].landed
      /\ aio[t].nrequests <= Backlog
      /\ pc[t] \notin {"wait", "failed", "killed"} => aio[t].nrequests <= Backlog - 1
      /\ \A i \in 1..Len(aio[t].flying) : aio[t].flying[i].file < NumFiles
      /\ pc[t] \in {"fsync", "wait"} => req[t].file < NumFiles
  BY <1>q
(* Nothing happens to the queues. *)
<1>1. ASSUME aio' = aio,
             \A u \in Threads :
               /\ pc'[u] \in {"wait", "failed", "killed"} \/ pc[u] \notin {"wait", "failed", "killed"}
               /\ pc'[u] \in {"fsync", "wait"} => req'[u].file < NumFiles
      PROVE  QueueTypes' /\ QueueInv'
  <2>1. QueueInv'
    BY <1>1, <1>q, <1>n DEF QueueInv
  <2> QED
    BY <1>1, <2>1 DEF FileTypes, QueueTypes
(* Thread t's own queue changes. *)
<1>2. ASSUME NEW f, NEW n, NEW l, NEW b \in BOOLEAN, f \in Seq(Requests), n \in Nat, l \in Nat,
             DOMAIN aio' = Threads, \A u \in Threads \ {t} : aio'[u] = aio[u] /\ pc'[u] = pc[u],
             DOMAIN aio'[t] = {"nrequests", "flying", "landed", "bad"},
             aio'[t].nrequests = n, aio'[t].flying = f, aio'[t].landed = l, aio'[t].bad = b,
             n = Len(f) + l, n <= Backlog,
             pc'[t] \notin {"wait", "failed", "killed"} => n <= Backlog - 1,
             \A i \in 1..Len(f) : f[i].file < NumFiles,
             pc'[t] \in {"fsync", "wait"} => req[t].file < NumFiles, req' = req
      PROVE  QueueTypes' /\ QueueInv'
  <2>1. QueueTypes'
    <3>1. ASSUME NEW u \in Threads PROVE Queue(aio'[u])
      <4>1. CASE u = t
        BY <1>2, <4>1 DEF Queue
      <4>2. CASE u # t
        BY <1>2, <4>2 DEF FileTypes, QueueTypes
      <4> QED
        BY <4>1, <4>2
    <3> QED
      BY <1>2, <3>1 DEF QueueTypes
  <2>2. ASSUME NEW u \in Threads
        PROVE  /\ aio'[u].nrequests = Len(aio'[u].flying) + aio'[u].landed
               /\ aio'[u].nrequests <= IF pc'[u] \in {"wait", "failed", "killed"}
                                       THEN Backlog ELSE Backlog - 1
               /\ \A i \in 1..Len(aio'[u].flying) : aio'[u].flying[i].file < NumFiles
               /\ pc'[u] \in {"fsync", "wait"} => req'[u].file < NumFiles
    <3>1. CASE u = t
      BY <1>2, <3>1
    <3>2. CASE u # t
      BY <1>2, <3>2, <1>q, <1>n
    <3> QED
      BY <3>1, <3>2
  <2>3. QueueInv'
    BY <2>2 DEF QueueInv
  <2> QED
    BY <2>1, <2>3
<1>3. CASE \/ Leave(t) \/ SeqRequest(t) \/ SeqFsync(t) \/ RndCheck(t) \/ RndPick(t)
  BY <1>3, <1>1, <1>q, <1>d DEF Leave, SeqRequest, SeqFsync, RndCheck, RndPick, More, Goto
<1>4. CASE BumpLoad(t) \/ BumpStore(t) \/ Wrap(t) \/ RndClaim(t) \/ RndCount(t)
  BY <1>4, <1>1, <1>q, <1>d DEF BumpLoad, BumpStore, Wrap, RndClaim, RndCount, Goto
<1>5. CASE Refuse(t) \/ Stray(t)
  BY <1>5, <1>1, <1>q, <1>d DEF Refuse, Stray, Goto, Fail
<1>6. CASE Transfer(t)
  BY <1>6, <1>1, <1>q, <1>d DEF Transfer, AfterData, Goto, Fail
<1>7. CASE Fsync(t)
  BY <1>7, <1>1, <1>q, <1>d DEF Fsync, Goto, Fail
<1>8. CASE FinalFsync(t)
  BY <1>8, <1>1, <1>q, <1>d DEF FinalFsync, Goto
<1>9. CASE Submit(t)
  <2>1. CASE aio' = aio
    BY <1>9, <2>1, <1>1, <1>q, <1>d DEF Submit, Fail, Goto, AfterData
  <2>2. CASE aio' # aio
    <3>1. /\ aio' = [aio EXCEPT ![t].flying = Append(@, req[t]), ![t].nrequests = @ + 1]
          /\ IF aio[t].nrequests + 1 < Backlog THEN AfterData(t) ELSE Goto(t, "wait")
          /\ pc[t] = "execute" /\ req[t].file < NumFiles /\ req' = req
      BY <1>9, <2>2 DEF Submit
    <3> DEFINE f == Append(aio[t].flying, req[t])
    <3>2. /\ f \in Seq(Requests) /\ Len(f) = Len(aio[t].flying) + 1
          /\ \A i \in 1..Len(f) : f[i] = IF i <= Len(aio[t].flying) THEN aio[t].flying[i] ELSE req[t]
      BY <1>t, <1>d
    <3>3. \A i \in 1..Len(f) : f[i].file < NumFiles
      BY <3>1, <3>2, <1>t
    <3> HIDE DEF f
    <3>4. /\ DOMAIN aio' = Threads /\ \A u \in Threads \ {t} : aio'[u] = aio[u] /\ pc'[u] = pc[u]
          /\ DOMAIN aio'[t] = {"nrequests", "flying", "landed", "bad"}
          /\ aio'[t].nrequests = aio[t].nrequests + 1 /\ aio'[t].flying = f
          /\ aio'[t].landed = aio[t].landed /\ aio'[t].bad = aio[t].bad
      BY <3>1, <1>t, <1>d DEF f, AfterData, Goto
    <3>5. /\ pc'[t] \notin {"wait", "failed", "killed"} => aio[t].nrequests + 1 <= Backlog - 1
          /\ aio[t].nrequests + 1 <= Backlog
          /\ pc'[t] \in {"fsync", "wait"} => req[t].file < NumFiles
      BY <3>1, <1>t, <1>n, <1>d DEF AfterData, Goto
    <3>6. /\ aio[t].nrequests + 1 \in Nat /\ aio[t].landed \in Nat /\ aio[t].bad \in BOOLEAN
          /\ aio[t].nrequests + 1 = Len(f) + aio[t].landed
      BY <3>2, <1>t
    <3>7. req' = req
      BY <3>1
    <3>8. f \in Seq(Requests)
      BY <3>2
    <3> QED
      BY <3>3, <3>4, <3>5, <3>6, <3>7, <3>8, <1>2
  <2> QED
    BY <2>1, <2>2
<1>10. CASE Complete(t)
  <2> DEFINE q == aio[t].flying
             rest(i) == SubSeq(q, 1, i - 1) \o SubSeq(q, i + 1, Len(q))
  <2>1. PICK i \in 1..Len(q), ok \in BOOLEAN :
          aio' = [aio EXCEPT ![t].flying = rest(i), ![t].landed = @ + 1, ![t].bad = @ \/ ~ok]
    BY <1>10 DEF Complete
  <2>2. pc' = pc /\ req' = req
    BY <1>10 DEF Complete
  <2>3. PICK f : f = rest(i)
    OBVIOUS
  <2>4. /\ f \in Seq(Requests) /\ Len(f) = Len(q) - 1
        /\ \A j \in 1..Len(f) : f[j] = IF j < i THEN q[j] ELSE q[j + 1]
    BY <2>3, <1>t, TakeOut
  <2>5. aio' = [aio EXCEPT ![t].flying = f, ![t].landed = @ + 1, ![t].bad = @ \/ ~ok]
    BY <2>1, <2>3
  <2> HIDE DEF rest
  <2>6. \A j \in 1..Len(f) : f[j].file < NumFiles
    BY <2>4, <1>t
  <2>7. PICK b \in BOOLEAN : b = (aio[t].bad \/ ~ok)
    BY <1>t
  <2>8. /\ DOMAIN aio' = Threads /\ \A u \in Threads \ {t} : aio'[u] = aio[u] /\ pc'[u] = pc[u]
        /\ DOMAIN aio'[t] = {"nrequests", "flying", "landed", "bad"}
        /\ aio'[t].nrequests = aio[t].nrequests /\ aio'[t].flying = f
        /\ aio'[t].landed = aio[t].landed + 1 /\ aio'[t].bad = b
    BY <2>2, <2>5, <2>7, <1>t, <1>d
  <2>9. /\ pc'[t] \notin {"wait", "failed", "killed"} => aio[t].nrequests <= Backlog - 1
        /\ aio[t].nrequests <= Backlog
        /\ pc'[t] \in {"fsync", "wait"} => req[t].file < NumFiles
        /\ aio[t].nrequests = Len(f) + (aio[t].landed + 1)
    <3>1. Len(f) = Len(q) - 1 /\ Len(q) \in Nat /\ aio[t].landed \in Nat
      BY <2>4, <1>t, LenProperties
    <3>2. aio[t].nrequests = Len(q) + aio[t].landed
      BY <1>t
    <3> HIDE DEF q
    <3>3. aio[t].nrequests = Len(f) + (aio[t].landed + 1)
      BY <3>1, <3>2
    <3>4. /\ pc'[t] \notin {"wait", "failed", "killed"} => aio[t].nrequests <= Backlog - 1
          /\ aio[t].nrequests <= Backlog
          /\ pc'[t] \in {"fsync", "wait"} => req[t].file < NumFiles
      BY <2>2, <1>t, <1>n
    <3> QED
      BY <3>3, <3>4
  <2> QED
    BY <2>2, <2>4, <2>6, <2>8, <2>9, <1>2, <1>t, <1>n
(* Finished operations are counted off. *)
<1>11. ASSUME NEW n \in 0..aio[t].landed, aio' = CountOff(t, n), req' = req,
              \A u \in Threads \ {t} : pc'[u] = pc[u],
              pc'[t] \notin {"wait", "failed", "killed"} => aio[t].nrequests - n <= Backlog - 1,
              pc'[t] \in {"fsync", "wait"} => req[t].file < NumFiles
       PROVE  QueueTypes' /\ QueueInv'
  <2>1. /\ DOMAIN aio' = Threads /\ \A u \in Threads \ {t} : aio'[u] = aio[u] /\ pc'[u] = pc[u]
        /\ DOMAIN aio'[t] = {"nrequests", "flying", "landed", "bad"}
        /\ aio'[t].nrequests = aio[t].nrequests - n /\ aio'[t].flying = aio[t].flying
        /\ aio'[t].landed = aio[t].landed - n /\ aio'[t].bad = aio[t].bad
    BY <1>11, <1>t, <1>d DEF CountOff
  <2>2. /\ aio[t].nrequests - n \in Nat /\ aio[t].landed - n \in Nat
        /\ aio[t].nrequests - n <= Backlog
        /\ aio[t].nrequests - n = Len(aio[t].flying) + (aio[t].landed - n)
    BY <1>t, <1>n
  <2> QED
    BY <2>1, <2>2, <1>2, <1>11, <1>t, <1>n
<1>12. CASE Wait(t)
  <2>1. PICK n \in 0..aio[t].landed :
          /\ aio' = CountOff(t, n) /\ pc[t] = "wait"
          /\ \/ pc' = [pc EXCEPT ![t] = "failed"]
             \/ n > 0 /\ AfterData(t) /\ req[t].file < NumFiles
    BY <1>12, <1>t DEF Wait, Fail, Goto
  <2> QED
    BY <2>1, <1>11, <1>t, <1>d, <1>n, <1>12 DEF AfterData, Goto, Wait
<1>13. CASE Drain(t)
  <2>1. PICK n \in 0..aio[t].landed :
          aio' = CountOff(t, n) /\ pc[t] = "thread_done" /\ pc' = [pc EXCEPT ![t] = "done"]
    BY <1>13, <1>t DEF Drain, Goto
  <2>2. /\ req' = req /\ \A u \in Threads \ {t} : pc'[u] = pc[u]
        /\ pc'[t] = "done" /\ aio[t].nrequests - n <= Backlog - 1
    BY <2>1, <1>13, <1>t, <1>d, <1>n DEF Drain
  <2> QED
    BY <2>1, <2>2, <1>11
<1> QED
  BY <1>3, <1>4, <1>5, <1>6, <1>7, <1>8, <1>9, <1>10, <1>12, <1>13 DEF FileStep

-----------------------------------------------------------------------------
(* Arithmetic of the sequential generator.  The remainder is what is left. *)
LEMMA Division ==
  ASSUME NEW n \in Nat \ {0}, NEW x \in Nat
  PROVE  x = n * (x \div n) + (x % n) /\ x % n \in 0..(n - 1) /\ x \div n \in Nat
  OBVIOUS

(* Quotient and remainder are unique.                                      *)
LEMMA Unique ==
  ASSUME NEW n \in Nat \ {0}, NEW q \in Int, NEW p \in Int,
         NEW r \in 0..(n - 1), NEW s \in 0..(n - 1), n * q + r = n * p + s
  PROVE  q = p /\ r = s
<1>1. ASSUME NEW d \in Nat \ {0} PROVE n * d >= n
  OBVIOUS
<1>2. CASE q < p
  <2>1. p - q \in Nat \ {0}
    BY <1>2
  <2>2. n * (p - q) >= n
    BY <1>1, <2>1
  <2> QED
    BY <2>2
<1>3. CASE p < q
  <2>1. q - p \in Nat \ {0}
    BY <1>3
  <2>2. n * (q - p) >= n
    BY <1>1, <2>1
  <2> QED
    BY <2>2
<1>4. CASE q = p
  BY <1>4
<1> QED
  BY <1>2, <1>3, <1>4

(* What happens to quotient and remainder when one is added.               *)
LEMMA Successor ==
  ASSUME NEW n \in Nat \ {0}, NEW k \in Nat
  PROVE  /\ k % n \in 0..n - 1 /\ k \div n \in Nat
         /\ k % n = n - 1 => (k + 1) % n = 0 /\ (k + 1) \div n = k \div n + 1
         /\ k % n # n - 1 => (k + 1) % n = (k % n) + 1 /\ (k + 1) \div n = k \div n
<1>1. PICK q \in Nat, r \in 0..n - 1 : q = k \div n /\ r = k % n /\ k = n * q + r
  BY Division
<1>2. PICK p \in Nat, s \in 0..n - 1 :
        p = (k + 1) \div n /\ s = (k + 1) % n /\ k + 1 = n * p + s
  BY Division, k + 1 \in Nat
<1>3. n * q + r + 1 = n * p + s
  BY <1>1, <1>2
<1>4. CASE r = n - 1
  <2>1. n * (q + 1) + 0 = n * p + s
    BY <1>3, <1>4
  <2>2. q + 1 = p /\ 0 = s
    BY <2>1, Unique, 0 \in 0..n - 1, q + 1 \in Int, p \in Int
  <2> QED
    BY <1>1, <1>2, <1>4, <2>2
<1>5. CASE r # n - 1
  <2>1. n * q + (r + 1) = n * p + s /\ r + 1 \in 0..n - 1
    BY <1>3, <1>5
  <2>2. q = p /\ r + 1 = s
    BY <2>1, Unique, q \in Int, p \in Int
  <2> QED
    BY <1>1, <1>2, <1>5, <2>2
<1> QED
  BY <1>1, <1>4, <1>5

(* A file takes the requests 0..RequestsPerFile - 1, the last one of what  *)
(* is left of the file.                                                    *)
LEMMA RequestEnds ==
  ASSUME NEW r \in 0..RequestsPerFile - 1
  PROVE  /\ RequestsPerFile \in Nat \ {0}
         /\ r * RequestSize \in 0..FileSize - 1
         /\ r * RequestSize + Least(RequestSize, FileSize - r * RequestSize)
              = IF r = RequestsPerFile - 1 THEN FileSize ELSE (r + 1) * RequestSize
         /\ r # RequestsPerFile - 1 => (r + 1) * RequestSize < FileSize
<1>1. FileSize \in Nat \ {0} /\ RequestSize \in Nat \ {0}
  BY Lengths
<1>2. PICK n \in Nat, m \in 0..RequestSize - 1 :
        n = RequestsPerFile /\ FileSize + RequestSize - 1 = RequestSize * n + m
  BY <1>1, Division, FileSize + RequestSize - 1 \in Nat DEF RequestsPerFile
<1>3. RequestSize * n >= FileSize /\ RequestSize * n - RequestSize < FileSize /\ n \in Nat \ {0}
  BY <1>1, <1>2
<1>4. ASSUME NEW a \in Nat, a <= n - 1 PROVE RequestSize * a < FileSize
  <2>1. RequestSize * a <= RequestSize * (n - 1)
    BY <1>1, <1>3, <1>4
  <2>2. RequestSize * (n - 1) = RequestSize * n - RequestSize
    BY <1>1
  <2> QED
    BY <1>1, <1>3, <2>1, <2>2
<1>5. r \in Nat /\ r <= n - 1 /\ RequestSize * r < FileSize
  BY <1>2, <1>4
<1>6. r * RequestSize \in 0..FileSize - 1
  BY <1>1, <1>5
<1>7. CASE r = n - 1
  <2>1. r * RequestSize = RequestSize * n - RequestSize
    BY <1>1, <1>7
  <2> QED
    BY <1>1, <1>2, <1>3, <1>6, <1>7, <2>1 DEF Least
<1>8. CASE r # n - 1
  <2>1. r + 1 \in Nat /\ r + 1 <= n - 1
    BY <1>5, <1>8
  <2>2. RequestSize * (r + 1) < FileSize
    BY <1>4, <2>1
  <2>3. (r + 1) * RequestSize = r * RequestSize + RequestSize /\ (r + 1) * RequestSize < FileSize
    BY <1>1, <1>5, <2>2
  <2> QED
    BY <1>1, <1>2, <1>3, <1>6, <1>8, <2>3 DEF Least
<1> QED
  BY <1>7, <1>8

(* A file takes at least one request.                                      *)
LEMMA PerFile == RequestsPerFile \in Nat \ {0}
<1>1. FileSize \in Nat \ {0} /\ RequestSize \in Nat \ {0}
  BY Lengths
<1>2. PICK n \in Nat, m \in 0..RequestSize - 1 :
        n = RequestsPerFile /\ FileSize + RequestSize - 1 = RequestSize * n + m
  BY <1>1, Division, FileSize + RequestSize - 1 \in Nat DEF RequestsPerFile
<1> QED
  BY <1>1, <1>2

-----------------------------------------------------------------------------
(* The sequential generator: where it is after reqPerformed data requests, *)
(* what the last one was, and that a series of syncs is not interrupted.   *)

Turn(k) == (k \div RequestsPerFile) % NumFiles
Place(k) == (k % RequestsPerFile) * RequestSize

PlaceInv ==
  /\ position = Place(reqPerformed)
  /\ \/ currentFile = Turn(reqPerformed)
     \/ currentFile = NumFiles /\ Turn(reqPerformed) = 0 /\ position = 0

LastInv ==
  IF prevReq.op = "null" THEN ~warned
  ELSE /\ fopt.validate /\ reqPerformed > 0 /\ (NumFiles > 1 => ~warned)
       /\ prevReq.file = Turn(reqPerformed - 1) /\ prevReq.pos = Place(reqPerformed - 1)
       /\ prevReq.size = Least(RequestSize, FileSize - prevReq.pos)

SyncSeriesInv ==
  /\ fsyncedFile \in 0..NumFiles - 1
  /\ fsyncedFile # 0 => TimeToSync /\ ~Reads

Inside(r) == r.file \in 0..NumFiles - 1 /\ r.pos + r.size <= FileSize

SequentialThreads ==
  \A t \in Threads : /\ pc[t] \notin {"bump", "bumped", "wrap", "pick", "claim", "count"}
                     /\ Inside(req[t])

StreamInv == Sequential => PlaceInv /\ LastInv /\ SyncSeriesInv /\ SequentialThreads

(* The next data request lies right behind the last one.                   *)
LEMMA NextPlace ==
  ASSUME NEW k \in Nat
  PROVE  /\ Place(k) \in 0..FileSize - 1 /\ Turn(k) \in 0..NumFiles - 1
         /\ LET e == Place(k) + Least(RequestSize, FileSize - Place(k))
            IN  /\ e <= FileSize
                /\ e = FileSize =>
                     /\ Place(k + 1) = 0
                     /\ Turn(k + 1) = IF Turn(k) = NumFiles - 1 THEN 0 ELSE Turn(k) + 1
                /\ e # FileSize => Place(k + 1) = e /\ Turn(k + 1) = Turn(k)
<1> DEFINE n == RequestsPerFile
           r == k % n
           q == k \div n
           e == Place(k) + Least(RequestSize, FileSize - Place(k))
<1>1. n \in Nat \ {0} /\ NumFiles \in Nat \ {0} /\ FileSize \in Nat \ {0}
  BY PerFile, Lengths
<1>2. /\ r \in 0..n - 1 /\ q \in Nat
      /\ r = n - 1 => (k + 1) % n = 0 /\ (k + 1) \div n = q + 1
      /\ r # n - 1 => (k + 1) % n = r + 1 /\ (k + 1) \div n = q
  BY <1>1, Successor
<1>3. /\ Place(k) = r * RequestSize /\ Turn(k) = q % NumFiles
      /\ Place(k + 1) = ((k + 1) % n) * RequestSize /\ Turn(k + 1) = ((k + 1) \div n) % NumFiles
  BY DEF Place, Turn
<1> HIDE DEF r, q, n
<1>4. /\ r * RequestSize \in 0..FileSize - 1
      /\ e = IF r = n - 1 THEN FileSize ELSE (r + 1) * RequestSize
      /\ r # n - 1 => (r + 1) * RequestSize < FileSize
  BY <1>2, <1>3, RequestEnds DEF n
<1>5. /\ q % NumFiles \in 0..NumFiles - 1
      /\ (q + 1) % NumFiles = IF q % NumFiles = NumFiles - 1 THEN 0 ELSE (q % NumFiles) + 1
  BY <1>1, <1>2, Successor
<1> HIDE DEF e
<1>6. CASE r = n - 1
  <2>1. /\ (k + 1) % n = 0 /\ (k + 1) \div n = q + 1 /\ e = FileSize
    BY <1>2, <1>4, <1>6
  <2>2. Place(k + 1) = 0
    BY <1>3, <2>1, Lengths
  <2> QED
    BY <1>1, <1>3, <1>4, <1>5, <2>1, <2>2 DEF e
<1>7. CASE r # n - 1
  <2>1. /\ (k + 1) % n = r + 1 /\ (k + 1) \div n = q /\ e = (r + 1) * RequestSize /\ e < FileSize
    BY <1>2, <1>4, <1>7
  <2>2. e <= FileSize /\ e # FileSize /\ Place(k + 1) = e /\ Turn(k + 1) = Turn(k)
    BY <1>1, <1>3, <2>1
  <2>3. Place(k) \in 0..FileSize - 1 /\ Turn(k) \in 0..NumFiles - 1
    BY <1>3, <1>4, <1>5
  <2> QED
    BY <2>2, <2>3 DEF e
<1> QED
  BY <1>6, <1>7

(* A data request is the one that is expected, and check_seq_req is        *)
(* content with it.                                                        *)
LEMMA SeqRequestStream ==
  ASSUME FileTypes, StreamInv, NEW t \in Threads, SeqRequest(t)
  PROVE  StreamInv'
<1> DEFINE k == reqPerformed
           file == IF currentFile = NumFiles THEN 0 ELSE currentFile
           pos == IF currentFile = NumFiles THEN 0 ELSE position
           size == Least(RequestSize, FileSize - pos)
           new == [op |-> IF Reads THEN "read" ELSE "write", file |-> file, pos |-> pos,
                   size |-> size]
<1>1. /\ Sequential /\ PlaceInv /\ LastInv /\ SyncSeriesInv /\ SequentialThreads
      /\ ~(TimeToSync /\ ~Reads)
  BY DEF StreamInv, SeqRequest
<1>2. /\ position' = IF pos + size = FileSize THEN 0 ELSE pos + size
      /\ currentFile' = IF pos + size = FileSize THEN file + 1 ELSE file
      /\ prevReq' = IF fopt.validate THEN new ELSE prevReq
      /\ warned' = (warned \/ (fopt.validate /\ Gap(prevReq, new)))
      /\ reqPerformed' = k + 1 /\ fopt' = fopt
      /\ fsyncedFile' = fsyncedFile
      /\ req' = [req EXCEPT ![t] = new] /\ pc' = [pc EXCEPT ![t] = "execute"]
  BY DEF SeqRequest, Goto
<1>n. /\ k \in Nat /\ NumFiles \in Nat \ {0} /\ FileSize \in Nat \ {0} /\ RequestSize \in Nat \ {0}
      /\ currentFile \in Nat /\ position \in Nat
  BY Lengths DEF FileTypes, SharedTypes
<1>3. /\ Place(k) \in 0..FileSize - 1 /\ Turn(k) \in 0..NumFiles - 1
      /\ LET e == Place(k) + Least(RequestSize, FileSize - Place(k))
         IN  /\ e <= FileSize
             /\ e = FileSize =>
                  /\ Place(k + 1) = 0
                  /\ Turn(k + 1) = IF Turn(k) = NumFiles - 1 THEN 0 ELSE Turn(k) + 1
             /\ e # FileSize => Place(k + 1) = e /\ Turn(k + 1) = Turn(k)
  BY <1>n, NextPlace
<1>4. file = Turn(k) /\ pos = Place(k)
  BY <1>1, <1>3, <1>n DEF PlaceInv
<1>5. size = Least(RequestSize, FileSize - Place(k)) /\ size \in Nat
  BY <1>3, <1>4, <1>n DEF Least
<1>6. /\ new.op # "null" /\ new.file = file /\ new.pos = pos /\ new.size = size
  OBVIOUS
<1> HIDE DEF file, pos, size, new
<1>7. PlaceInv'
  <2>1. position' = Place(k + 1)
    BY <1>2, <1>3, <1>4, <1>5, <1>n
  <2>2. currentFile' = Turn(k + 1) \/ (currentFile' = NumFiles /\ Turn(k + 1) = 0 /\ position' = 0)
    BY <1>2, <1>3, <1>4, <1>5, <1>n
  <2>3. Place(reqPerformed)' = Place(k + 1) /\ Turn(reqPerformed)' = Turn(k + 1)
    BY <1>2 DEF Place, Turn
  <2> QED
    BY <2>1, <2>2, <2>3 DEF PlaceInv
<1>8. LastInv'
  <2>1. CASE ~fopt.validate
    BY <1>1, <1>2, <2>1 DEF LastInv
  <2>2. CASE fopt.validate
    <3>1. prevReq' = new /\ reqPerformed' - 1 = k /\ reqPerformed' > 0 /\ fopt'.validate
      BY <1>2, <1>n, <2>2
    <3>2. Turn(reqPerformed - 1)' = Turn(k) /\ Place(reqPerformed - 1)' = Place(k)
      BY <3>1 DEF Turn, Place
    <3>3. ASSUME NumFiles > 1 PROVE ~warned /\ ~Gap(prevReq, new)
      <4>1. CASE prevReq.op = "null"
        BY <1>1, <4>1 DEF LastInv, Gap
      <4>2. CASE prevReq.op # "null"
        <5> DEFINE j == k - 1
        <5>1. /\ j \in Nat /\ j + 1 = k /\ ~warned /\ prevReq.file = Turn(j) /\ prevReq.pos = Place(j)
              /\ prevReq.size = Least(RequestSize, FileSize - Place(j))
          BY <1>1, <1>n, <3>3, <4>2 DEF LastInv
        <5> HIDE DEF j
        <5>2. /\ Turn(j) \in 0..NumFiles - 1 /\ Place(j) \in 0..FileSize - 1
              /\ LET e == Place(j) + Least(RequestSize, FileSize - Place(j))
                 IN  /\ e = FileSize =>
                          /\ Place(k) = 0
                          /\ Turn(k) = IF Turn(j) = NumFiles - 1 THEN 0 ELSE Turn(j) + 1
                     /\ e # FileSize => Place(k) = e /\ Turn(k) = Turn(j)
          BY <5>1, NextPlace
        <5> QED
          BY <1>4, <1>6, <1>n, <3>3, <5>1, <5>2 DEF Gap
      <4> QED
        BY <4>1, <4>2
    <3> QED
      BY <1>2, <1>4, <1>5, <1>6, <3>1, <3>2, <3>3 DEF LastInv
  <2> QED
    BY <2>1, <2>2
<1>9. SyncSeriesInv'
  <2>1. fsyncedFile = 0
    BY <1>1 DEF SyncSeriesInv
  <2> QED
    BY <1>2, <1>n, <2>1 DEF SyncSeriesInv
<1>10. SequentialThreads'
  <2>1. Inside(new)
    BY <1>3, <1>4, <1>5, <1>6 DEF Inside
  <2> QED
    BY <1>1, <1>2, <2>1 DEF SequentialThreads, Inside, FileTypes, ControlTypes
<1> QED
  BY <1>7, <1>8, <1>9, <1>10 DEF StreamInv

(* A sync request is for the next file in turn, and the series goes on     *)
(* until the last one.                                                     *)
LEMMA SeqFsyncStream ==
  ASSUME FileTypes, StreamInv, NEW t \in Threads, SeqFsync(t)
  PROVE  StreamInv'
<1>1. /\ Sequential /\ PlaceInv /\ LastInv /\ SyncSeriesInv /\ SequentialThreads
      /\ TimeToSync /\ ~Reads
  BY DEF StreamInv, SeqFsync
<1>2. /\ req' = [req EXCEPT ![t] = FsyncOf(fsyncedFile)] /\ pc' = [pc EXCEPT ![t] = "execute"]
      /\ fsyncedFile' = (fsyncedFile + 1) % NumFiles
      /\ isDirty' = (fsyncedFile + 1 # NumFiles)
      /\ UNCHANGED <<fopt, position, currentFile, reqPerformed, prevReq, warned>>
  BY DEF SeqFsync, Goto
<1>3. NumFiles \in Nat \ {0} /\ FileSize \in Nat \ {0} /\ fsyncedFile \in 0..NumFiles - 1
  BY <1>1, Lengths DEF SyncSeriesInv
<1>4. PlaceInv' /\ LastInv'
  BY <1>1, <1>2 DEF PlaceInv, LastInv, Place, Turn
<1>5. fsyncedFile' = IF fsyncedFile = NumFiles - 1 THEN 0 ELSE fsyncedFile + 1
  <2>1. ASSUME NEW n \in Nat \ {0}, NEW x \in 0..n PROVE x % n = IF x = n THEN 0 ELSE x
    OBVIOUS
  <2>2. fsyncedFile + 1 \in 0..NumFiles
    BY <1>3
  <2>3. (fsyncedFile + 1) % NumFiles = IF fsyncedFile + 1 = NumFiles THEN 0 ELSE fsyncedFile + 1
    BY <1>3, <2>1, <2>2
  <2> QED
    BY <1>2, <1>3, <2>3
<1>6. SyncSeriesInv'
  <2>1. fsyncedFile' # 0 => isDirty'
    <3>1. fsyncedFile' # 0 => fsyncedFile + 1 # NumFiles
      BY <1>3, <1>5
    <3> QED
      BY <1>2, <3>1
  <2> QED
    BY <1>1, <1>2, <1>3, <1>5, <2>1 DEF SyncSeriesInv, TimeToSync, Freq, Reads
<1>7. SequentialThreads'
  <2>1. Inside(FsyncOf(fsyncedFile))
    BY <1>3 DEF Inside, FsyncOf
  <2> QED
    BY <1>1, <1>2, <2>1 DEF SequentialThreads, Inside, FileTypes, ControlTypes
<1> QED
  BY <1>4, <1>6, <1>7 DEF StreamInv

(* The other steps do not touch the sequential generator.                  *)
LEMMA OtherStream ==
  ASSUME FileTypes, StreamInv, NEW t \in Threads, FileStep(t), ~SeqRequest(t), ~SeqFsync(t)
  PROVE  StreamInv'
<1> SUFFICES ASSUME Sequential PROVE StreamInv'
  <2>1. fopt' = fopt
    BY DEF FileStep, Leave, RndCheck, BumpLoad, BumpStore, Wrap, RndPick, RndClaim, RndCount,
           Refuse, Stray, Transfer, Submit, Complete, Wait, Fsync, FinalFsync, Drain
  <2> QED
    BY <2>1 DEF StreamInv, Sequential
<1>1. PlaceInv /\ LastInv /\ SyncSeriesInv /\ SequentialThreads
  BY DEF StreamInv
<1>2. /\ Leave(t) \/ Refuse(t) \/ Stray(t) \/ Transfer(t) \/ Submit(t) \/ Complete(t) \/ Wait(t)
         \/ Fsync(t) \/ FinalFsync(t) \/ Drain(t)
  BY <1>1 DEF SequentialThreads, FileStep, RndCheck, BumpLoad, BumpStore, Wrap, RndPick, RndClaim,
              RndCount
<1>3. UNCHANGED <<fopt, generator, req>>
  BY <1>2 DEF Leave, Refuse, Stray, Transfer, Submit, Complete, Wait, Fsync, FinalFsync, Drain
<1>4. PlaceInv' /\ LastInv' /\ SyncSeriesInv'
  BY <1>1, <1>3 DEF generator, PlaceInv, LastInv, SyncSeriesInv, Place, Turn, TimeToSync, Freq, Reads
<1>5. ASSUME NEW u \in Threads
      PROVE  pc'[u] = pc[u] \/ pc'[u] \in {"thread_done", "failed", "killed", "more", "fsync",
                                           "wait", "done"}
  BY <1>2 DEF Leave, Refuse, Stray, Transfer, Submit, Complete, Wait, Fsync, FinalFsync, Drain,
              Goto, Fail, AfterData, FileTypes, ControlTypes
<1>6. SequentialThreads'
  BY <1>1, <1>3, <1>5 DEF SequentialThreads, Inside
<1> QED
  BY <1>4, <1>6 DEF StreamInv

-----------------------------------------------------------------------------
(* Which threads answer for an unsynced file: with --file-fsync-all one    *)
(* that is about to sync it, otherwise one that has not come to it in its  *)
(* own last syncs.                                                         *)
Synchronous == fopt.io # "async" /\ (SyncAtEnd \/ fopt.fsyncAll) /\ ~complained

Answers(t, f) ==
  IF fopt.fsyncAll THEN pc[t] = "fsync" /\ req[t].file = f
  ELSE pc[t] # "done" /\ doneFiles[t] <= f

Begins(t) == pc[t] \notin {"thread_done", "done", "killed"} => doneFiles[t] = 0

SyncInv ==
  /\ \A t \in Threads : Begins(t)
  /\ fopt.io # "async" => \A t \in Threads : aio[t].flying = <<>>
  /\ Synchronous => \A f \in unsynced : \E t \in Threads : Answers(t, f) \/ pc[t] = "killed"

(* A file stays answered for by the thread that makes a step, by another   *)
(* one, or because the process is gone.                                    *)
LEMMA SyncStep ==
  ASSUME FileTypes, QueueInv, SyncInv, NEW t \in Threads, FileStep(t)
  PROVE  SyncInv'
<1>d. /\ pc \in [Threads -> Labels] /\ req \in [Threads -> Requests]
      /\ doneFiles \in [Threads -> 0..NumFiles] /\ DOMAIN aio = Threads
      /\ unsynced \subseteq 0..NumFiles - 1 /\ NumFiles \in Nat \ {0}
  BY Lengths DEF FileTypes, ControlTypes, SharedTypes, QueueTypes
<1>f. fopt' = fopt
  BY DEF FileStep, Leave, SeqRequest, SeqFsync, RndCheck, BumpLoad, BumpStore, Wrap, RndPick,
         RndClaim, RndCount, Refuse, Stray, Transfer, Submit, Complete, Wait, Fsync, FinalFsync, Drain
(* Only the asynchronous mode has operations in the kernel. *)
<1>a. fopt'.io # "async" => \A u \in Threads : aio'[u].flying = <<>>
  <2> SUFFICES ASSUME fopt.io # "async", NEW u \in Threads PROVE aio'[u].flying = <<>>
    BY <1>f
  <2>1. aio[u].flying = <<>> /\ aio[t].flying = <<>>
    BY DEF SyncInv
  <2>2. ~Submit(t) /\ ~Complete(t)
    BY <2>1 DEF Submit, Complete
  <2>3. CASE Wait(t) \/ Drain(t)
    <3>1. PICK n : aio' = CountOff(t, n)
      BY <2>3 DEF Wait, Drain
    <3>2. DOMAIN aio[t] = {"nrequests", "flying", "landed", "bad"}
      BY DEF FileTypes, QueueTypes, Queue
    <3>3. aio'[u].flying = aio[u].flying
      BY <3>1, <3>2, <1>d DEF CountOff
    <3> QED
      BY <2>1, <3>3
  <2>4. CASE ~Wait(t) /\ ~Drain(t)
    <3>1. aio' = aio
      BY <2>2, <2>4 DEF FileStep, Leave, SeqRequest, SeqFsync, RndCheck, BumpLoad, BumpStore, Wrap,
           RndPick, RndClaim, RndCount, Refuse, Stray, Transfer, Fsync, FinalFsync
    <3> QED
      BY <2>1, <3>1
  <2> QED
    BY <2>3, <2>4
(* Thread t goes on, and writes or syncs nothing. *)
<1>1. ASSUME UNCHANGED <<doneFiles, unsynced>>, complained => complained',
             \A u \in Threads \ {t} : pc'[u] = pc[u] /\ req'[u] = req[u],
             pc[t] \notin {"fsync", "thread_done", "done"}, pc'[t] # "done",
             pc[t] = "killed" => pc'[t] = "killed"
      PROVE  SyncInv'
  <2>1. ASSUME NEW u \in Threads PROVE Begins(u)'
    BY <1>1 DEF SyncInv, Begins
  <2>2. ASSUME NEW f \in unsynced, NEW u \in Threads, Answers(u, f) \/ pc[u] = "killed"
        PROVE  Answers(u, f)' \/ pc'[u] = "killed"
    BY <1>1, <1>f, <2>2 DEF Answers
  <2>3. Synchronous' => Synchronous
    BY <1>1, <1>f DEF Synchronous, SyncAtEnd, Reads
  <2> QED
    BY <1>1, <1>a, <2>1, <2>2, <2>3 DEF SyncInv
<1>2. CASE Leave(t) \/ SeqRequest(t) \/ SeqFsync(t) \/ RndCheck(t) \/ RndPick(t)
  BY <1>2, <1>1, <1>d DEF Leave, SeqRequest, SeqFsync, RndCheck, RndPick, More, Goto
<1>3. CASE BumpLoad(t) \/ BumpStore(t) \/ Wrap(t) \/ RndClaim(t) \/ RndCount(t)
  BY <1>3, <1>1, <1>d DEF BumpLoad, BumpStore, Wrap, RndClaim, RndCount, Goto
<1>4. CASE Refuse(t) \/ Submit(t) \/ Wait(t)
  BY <1>4, <1>1, <1>d DEF Refuse, Submit, Wait, Goto, Fail, AfterData
<1>5. CASE Stray(t)
  <2>1. CASE pc' = [u \in Threads |-> "killed"]
    <3>1. /\ unsynced' = unsynced /\ \A u \in Threads : pc'[u] = "killed"
      BY <1>5, <2>1 DEF Stray
    <3>2. \A u \in Threads : Begins(u)'
      BY <3>1 DEF Begins
    <3> QED
      BY <3>1, <3>2, <1>a DEF SyncInv
  <2>2. CASE pc' # [u \in Threads |-> "killed"]
    BY <1>5, <2>2, <1>1, <1>d DEF Stray, Goto, Fail
  <2> QED
    BY <2>1, <2>2
<1>6. CASE Transfer(t)
  <2>1. /\ pc[t] = "execute" /\ UNCHANGED <<doneFiles, req>> /\ (complained => complained')
        /\ \A u \in Threads \ {t} : pc'[u] = pc[u]
        /\ pc'[t] \in {"fsync", "more", "failed"}
    BY <1>6, <1>d DEF Transfer, AfterData, Goto, Fail
  <2>2. CASE unsynced' = unsynced
    BY <2>1, <2>2, <1>1
  <2>3. CASE unsynced' # unsynced
    <3>1. /\ unsynced' = unsynced \cup {req[t].file} /\ req[t].op = "write"
          /\ pc'[t] = IF fopt.fsyncAll THEN "fsync" ELSE "more"
      BY <1>6, <2>3, <1>d DEF Transfer, AfterData, Goto
    <3>2. ASSUME NEW u \in Threads PROVE Begins(u)'
      BY <2>1 DEF SyncInv, Begins
    <3>3. doneFiles[t] = 0 /\ req[t].file \in Nat
      BY <2>1, <1>d DEF SyncInv, Begins, Requests
    <3>4. Answers(t, req[t].file)'
      BY <2>1, <3>1, <3>3, <1>f DEF Answers
    <3>5. ASSUME NEW f \in unsynced, NEW u \in Threads, Answers(u, f) \/ pc[u] = "killed"
          PROVE  Answers(u, f)' \/ pc'[u] = "killed"
      BY <2>1, <3>5, <1>f DEF Answers
    <3>6. Synchronous' => Synchronous
      BY <2>1, <1>f DEF Synchronous, SyncAtEnd, Reads
    <3>7. ASSUME Synchronous', NEW f \in unsynced'
          PROVE  \E u \in Threads : Answers(u, f)' \/ pc'[u] = "killed"
      <4>1. CASE f = req[t].file
        BY <2>1, <3>4, <4>1 DEF Answers
      <4>2. CASE f \in unsynced
        BY <3>5, <3>6, <3>7, <4>2 DEF SyncInv
      <4> QED
        BY <3>1, <4>1, <4>2
    <3> QED
      BY <3>2, <3>7, <1>a DEF SyncInv
  <2> QED
    BY <2>2, <2>3
<1>7. CASE Complete(t)
  <2>1. UNCHANGED <<pc, req, doneFiles, complained>>
    BY <1>7 DEF Complete
  <2>2. \A u \in Threads : Begins(u)'
    BY <2>1 DEF SyncInv, Begins
  <2>3. fopt.io = "async"
    BY <1>7 DEF Complete, SyncInv
  <2> QED
    BY <2>2, <2>3, <1>f, <1>a DEF SyncInv, Synchronous
<1>8. CASE Fsync(t)
  <2>1. /\ pc[t] \in {"execute", "fsync"} /\ UNCHANGED <<doneFiles, req>>
        /\ \A u \in Threads \ {t} : pc'[u] = pc[u]
        /\ \/ unsynced' = unsynced \ {req[t].file} /\ pc'[t] = "more" /\ complained' = complained
           \/ complained' /\ pc'[t] = "failed"
    BY <1>8, <1>d DEF Fsync, Goto, Fail
  <2>2. ASSUME NEW u \in Threads PROVE Begins(u)'
    BY <2>1 DEF SyncInv, Begins
  <2>3. ASSUME Synchronous', NEW f \in unsynced'
        PROVE  \E u \in Threads : Answers(u, f)' \/ pc'[u] = "killed"
    <3>1. /\ Synchronous /\ f \in unsynced /\ f # req[t].file /\ pc'[t] = "more"
      BY <2>1, <2>3, <1>f DEF Synchronous, SyncAtEnd, Reads
    <3>2. PICK u \in Threads : Answers(u, f) \/ pc[u] = "killed"
      BY <3>1 DEF SyncInv
    <3> QED
      BY <2>1, <3>1, <3>2, <1>f DEF Answers
  <2> QED
    BY <2>2, <2>3, <1>a DEF SyncInv
<1>9. CASE FinalFsync(t)
  <2>1. /\ pc[t] = "thread_done" /\ req' = req /\ ~fopt.fsyncAll
        /\ \/ /\ unsynced' = unsynced \ {doneFiles[t]} /\ UNCHANGED <<pc, complained>>
              /\ doneFiles' = [doneFiles EXCEPT ![t] = @ + 1]
           \/ /\ complained' /\ pc' = [pc EXCEPT ![t] = "done"] /\ doneFiles' = doneFiles
    BY <1>9, <1>d DEF FinalFsync, Goto, SyncAtEnd
  <2>2. ASSUME NEW u \in Threads PROVE Begins(u)'
    BY <2>1, <1>d DEF SyncInv, Begins
  <2>3. ASSUME Synchronous', NEW f \in unsynced'
        PROVE  \E u \in Threads : Answers(u, f)' \/ pc'[u] = "killed"
    <3>1. /\ Synchronous /\ f \in unsynced /\ f # doneFiles[t] /\ pc' = pc
          /\ doneFiles' = [doneFiles EXCEPT ![t] = @ + 1]
      BY <2>1, <2>3, <1>f DEF Synchronous, SyncAtEnd, Reads
    <3>2. PICK u \in Threads : Answers(u, f) \/ pc[u] = "killed"
      BY <3>1 DEF SyncInv
    <3>3. f \in Nat /\ doneFiles[t] \in Nat
      BY <3>1, <1>d
    <3> QED
      BY <2>1, <3>1, <3>2, <3>3, <1>f, <1>d DEF Answers
  <2> QED
    BY <2>2, <2>3, <1>a DEF SyncInv
<1>10. CASE Drain(t)
  <2>1. /\ pc[t] = "thread_done" /\ UNCHANGED <<req, doneFiles, unsynced>>
        /\ pc' = [pc EXCEPT ![t] = "done"] /\ (complained => complained')
        /\ SyncAtEnd => doneFiles[t] = NumFiles
    BY <1>10 DEF Drain, Goto
  <2>2. ASSUME NEW u \in Threads PROVE Begins(u)'
    BY <2>1, <1>d DEF SyncInv, Begins
  <2>3. ASSUME Synchronous', NEW f \in unsynced'
        PROVE  \E u \in Threads : Answers(u, f)' \/ pc'[u] = "killed"
    <3>1. Synchronous /\ f \in unsynced /\ f \in 0..NumFiles - 1
      BY <2>1, <2>3, <1>f, <1>d DEF Synchronous, SyncAtEnd, Reads
    <3>2. PICK u \in Threads : Answers(u, f) \/ pc[u] = "killed"
      BY <3>1 DEF SyncInv
    <3>3. u # t
      BY <2>1, <3>1, <3>2, <1>d DEF Answers, Synchronous
    <3> QED
      BY <2>1, <3>2, <3>3, <1>f, <1>d DEF Answers
  <2> QED
    BY <2>2, <2>3, <1>a DEF SyncInv
<1> QED
  BY <1>2, <1>3, <1>4, <1>5, <1>6, <1>7, <1>8, <1>9, <1>10 DEF FileStep

-----------------------------------------------------------------------------
FileInv == FileTypes /\ QueueInv /\ StreamInv /\ SyncInv

(* A run begins with the first request to come and nothing written.        *)
LEMMA FileBegins == Init => FileInv
<1> SUFFICES ASSUME Init PROVE FileInv
  OBVIOUS
<1>1. FileInit
  BY DEF Init
<1>2. FileTypes /\ QueueInv
  BY <1>1, FileStart
<1>3. StreamInv
  <2>1. RequestsPerFile \in Nat \ {0} /\ NumFiles \in Nat \ {0} /\ FileSize \in Nat \ {0}
        /\ RequestSize \in Nat \ {0}
    BY PerFile, Lengths
  <2>2. Place(0) = 0 /\ Turn(0) = 0
    <3>1. ASSUME NEW n \in Nat \ {0} PROVE 0 % n = 0 /\ 0 \div n = 0
      OBVIOUS
    <3> QED
      BY <2>1, <3>1 DEF Place, Turn
  <2>3. PlaceInv /\ LastInv /\ SyncSeriesInv
    BY <1>1, <2>1, <2>2 DEF FileInit, PlaceInv, LastInv, SyncSeriesInv, Null
  <2>4. SequentialThreads
    BY <1>1, <2>1 DEF FileInit, SequentialThreads, Inside, Null
  <2> QED
    BY <2>3, <2>4 DEF StreamInv
<1>4. SyncInv
  BY <1>1 DEF FileInit, SyncInv, Begins
<1> QED
  BY <1>2, <1>3, <1>4 DEF FileInv

(* The file test keeps its invariant, the other programs leave it alone.   *)
LEMMA FileInvariant == Spec => []FileInv
<1>1. FileInv /\ [Next]_vars => FileInv'
  <2> SUFFICES ASSUME FileInv, [Next]_vars PROVE FileInv'
    OBVIOUS
  <2>1. CASE RunFileIo
    <3>1. PICK t \in Threads : FileStep(t)
      BY <2>1 DEF RunFileIo, FileNext, FileStep
    <3>2. FileTypes' /\ QueueInv'
      BY <3>1, ControlStep, SharedStep, QueueStep DEF FileInv, FileTypes
    <3>3. StreamInv'
      BY <3>1, SeqRequestStream, SeqFsyncStream, OtherStream DEF FileInv
    <3>4. SyncInv'
      BY <3>1, SyncStep DEF FileInv
    <3> QED
      BY <3>2, <3>3, <3>4 DEF FileInv
  <2>2. CASE UNCHANGED fileVars
    <3> USE <2>2 DEF fileVars, generator
    <3>1. FileTypes' /\ QueueInv'
      BY DEF FileInv, FileTypes, ControlTypes, SharedTypes, QueueTypes, QueueInv
    <3>2. PlaceInv' = PlaceInv /\ LastInv' = LastInv /\ SyncSeriesInv' = SyncSeriesInv
          /\ SequentialThreads' = SequentialThreads /\ Sequential' = Sequential
      BY DEF PlaceInv, LastInv, SyncSeriesInv, SequentialThreads, Sequential, Place, Turn,
             TimeToSync, Freq, Reads, Inside
    <3>3. SyncInv'
      BY DEF FileInv, SyncInv, Begins, Synchronous, SyncAtEnd, Reads, Answers
    <3> QED
      BY <3>1, <3>2, <3>3 DEF FileInv, StreamInv
  <2> QED
    BY <2>1, <2>2 DEF Next, RunMemory, RunTests, vars
<1> QED
  BY <1>1, FileBegins, PTL DEF Spec

(* The types of TypeOK, with the bound on the operations in the kernel.    *)
LEMMA FileTypesSuffice == FileInv => FileTypeOK
<1> SUFFICES ASSUME FileInv PROVE FileTypeOK
  OBVIOUS
<1>1. ASSUME NEW t \in Threads
      PROVE  /\ pc[t] \in Labels
             /\ aio[t].nrequests = Len(aio[t].flying) + aio[t].landed
             /\ aio[t].nrequests <= IF pc[t] \in {"wait", "failed", "killed"}
                                    THEN Backlog ELSE Backlog - 1
             /\ doneFiles[t] \in 0..NumFiles
  BY DEF FileInv, FileTypes, ControlTypes, QueueInv
<1>2. Sequential => \A t \in Threads : req[t].file < NumFiles /\ req[t].pos + req[t].size <= FileSize
  BY Lengths DEF FileInv, StreamInv, SequentialThreads, Inside
<1> QED
  BY <1>1, <1>2 DEF FileInv, FileTypes, ControlTypes, SharedTypes, FileTypeOK, Labels

(* file_get_seq_request hands out the blocks of the files one after the    *)
(* other, whichever threads ask and however the last request of a file is  *)
(* cut, check_seq_req is content unless there is a single file, and a      *)
(* series of syncs is not interrupted.                                     *)
THEOREM SequentialCorrect == Spec => []SequentialStream
<1>1. FileInv => SequentialStream
  <2> SUFFICES ASSUME FileInv, Sequential
               PROVE  /\ prevReq.op # "null" =>
                           /\ NumFiles > 1 => ~warned
                           /\ [file |-> prevReq.file, pos |-> prevReq.pos] = Expected(reqPerformed)
                      /\ fsyncedFile # 0 => TimeToSync
    BY DEF SequentialStream
  <2> QED
    BY DEF FileInv, StreamInv, LastInv, SyncSeriesInv, Expected, Turn, Place
<1> QED
  BY <1>1, FileInvariant, PTL

(* After file_thread_done of every thread each write of a synchronous or   *)
(* mapped run has been followed by a sync of its file, although threads    *)
(* sync while others still write.                                          *)
THEOREM WritesCorrect == Spec => []WritesSynced
<1>1. FileInv => WritesSynced
  <2> SUFFICES ASSUME FileInv, \A t \in Threads : pc[t] = "done", Synchronous, NEW f \in unsynced
               PROVE  FALSE
    BY DEF WritesSynced, Synchronous
  <2>1. PICK t \in Threads : Answers(t, f) \/ pc[t] = "killed"
    BY DEF FileInv, SyncInv
  <2> QED
    BY <2>1 DEF Answers
<1> QED
  BY <1>1, FileInvariant, PTL
=============================================================================
