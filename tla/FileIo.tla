------------------------------- MODULE FileIo -------------------------------
(***************************************************************************)
(* The run phase of the file I/O test (tests/fileio/sb_fileio.c): worker   *)
(* threads take requests from generators that share their state, execute   *)
(* them synchronously, on a mapping or through a queue of asynchronous     *)
(* operations, and sync the files periodically and at the end.  The        *)
(* sequential generator holds a mutex; the random one only unlocks it.     *)
(* Contents are left out, lengths are in small units.                      *)
(***************************************************************************)
EXTENDS Integers, Sequences, FiniteSets

CONSTANTS Threads,
          FileOptions, \* command lines: mode, io, freq, fsyncAll, fsyncEnd, validate, events
          NumFiles,    \* --file-num
          TotalSize,   \* --file-total-size
          BlockSize,   \* --file-block-size
          RequestSize, \* block size times --file-merged-requests
          Backlog      \* --file-async-backlog

FileSize == TotalSize \div NumFiles

ASSUME FileAssumption == /\ NumFiles \in Nat \ {0} /\ BlockSize \in Nat \ {0}
                         /\ RequestSize \in Nat \ {0} /\ Backlog \in Nat \ {0}
                         /\ TotalSize \in Nat /\ FileSize > 0

VARIABLES
  fopt,         \* the command line
  pc, req,      \* of each thread: where it is and its request
  seen,         \* of each thread: a shared counter it has loaded
  block,        \* buffer_file_id and buffer_pos of each thread
  aio,          \* of each thread: nrequests, and the kernel's side of them
  doneFiles,    \* of each thread: files synced by its thread_done
  position, currentFile,   \* of the sequential generator
  fsyncedFile, isDirty, reqPerformed,
  prevReq,      \* the last data request, kept in validation mode
  warned,       \* check_seq_req has found a gap
  unsynced,     \* files with a completed write that no sync has followed
  issued,       \* events started
  failed,       \* sb_globals.error
  complained    \* a fatal message was logged

generator == <<position, currentFile, fsyncedFile, isDirty, reqPerformed, prevReq, warned>>
fileVars == <<fopt, pc, req, seen, block, aio, doneFiles, generator, unsynced, issued,
              failed, complained>>

Sequential == fopt.mode \in {"seqwr", "seqrewr", "seqrd"}
Reads == fopt.mode \in {"seqrd", "rndrd"}
Freq == IF fopt.fsyncAll THEN 0 ELSE fopt.freq
Least(a, b) == IF a < b THEN a ELSE b

Null == [op |-> "null", file |-> 0, pos |-> 0, size |-> 0]
FsyncOf(file) == [op |-> "fsync", file |-> file, pos |-> 0, size |-> 0]
BlockOf(pos) == [file |-> pos \div FileSize, pos |-> pos % FileSize]
Blocks == {BlockOf(i * BlockSize) : i \in 0..(TotalSize - 1) \div BlockSize}

Nowhere == [file |-> NumFiles + 1, pos |-> 0]

\* parse_arguments leaves the threads' blocks uninitialised; only the validation
\* mode of the random tests reads them
FileInit ==
  /\ fopt \in FileOptions
  /\ pc = [t \in Threads |-> "more"] /\ req = [t \in Threads |-> Null]
  /\ seen = [t \in Threads |-> 0]
  /\ block \in [Threads -> IF fopt.validate /\ ~Sequential THEN Blocks \cup {Nowhere} ELSE {Nowhere}]
  /\ aio = [t \in Threads |-> [nrequests |-> 0, flying |-> <<>>, landed |-> 0, bad |-> FALSE]]
  /\ doneFiles = [t \in Threads |-> 0]
  /\ position = 0 /\ currentFile = 0 /\ fsyncedFile = 0 /\ isDirty = FALSE
  /\ reqPerformed = 0 /\ prevReq = Null /\ warned = FALSE
  /\ unsynced = {} /\ issued = 0 /\ failed = FALSE /\ complained = FALSE

Goto(t, label) == pc' = [pc EXCEPT ![t] = label]

\* A fatal error ends the thread's event loop and raises sb_globals.error
Fail(t) == Goto(t, "failed") /\ failed' = TRUE /\ complained' = TRUE

\* sb_more_events: the limit, or the time or another thread's failure
More(t) == pc[t] = "more" /\ ~failed /\ issued < fopt.events

Leave(t) ==
  /\ pc[t] = "more"
  /\ Goto(t, "thread_done")
  /\ UNCHANGED <<fopt, req, seen, block, aio, doneFiles, generator, unsynced, issued, failed, complained>>

-----------------------------------------------------------------------------
\* file_get_seq_request, under the mutex

TimeToSync == Freq # 0 /\ isDirty /\ reqPerformed % Freq = 0

\* check_seq_req
Gap(old, new) ==
  /\ old.op # "null"
  /\ \/ new.file - old.file \notin {0, 1} /\ ~(new.file = 0 /\ old.file = NumFiles - 1)
     \/ new.file = old.file /\ new.pos # old.pos + old.size
     \/ new.file # old.file /\ (old.pos + old.size # FileSize \/ new.pos # 0)

SeqRequest(t) ==
  /\ Sequential /\ More(t) /\ ~(TimeToSync /\ ~Reads)
  /\ LET rewind == currentFile = NumFiles
         file == IF rewind THEN 0 ELSE currentFile
         pos == IF rewind THEN 0 ELSE position
         size == Least(RequestSize, FileSize - pos)
         new == [op |-> IF Reads THEN "read" ELSE "write", file |-> file, pos |-> pos, size |-> size]
         atEnd == pos + size = FileSize
     IN /\ req' = [req EXCEPT ![t] = new]
        /\ position' = IF atEnd THEN 0 ELSE pos + size
        /\ currentFile' = IF atEnd THEN file + 1 ELSE file
        /\ warned' = (warned \/ (fopt.validate /\ Gap(prevReq, new)))
        /\ prevReq' = IF fopt.validate THEN new ELSE prevReq
  /\ reqPerformed' = reqPerformed + 1
  /\ isDirty' = (isDirty \/ ~Reads)
  /\ issued' = issued + 1 /\ Goto(t, "execute")
  /\ UNCHANGED <<fopt, seen, block, aio, doneFiles, fsyncedFile, unsynced, failed, complained>>

(* Mutant: one file too few before the files count as synced. *)
SeqFsyncStopsEarly(t) ==
  /\ Sequential /\ More(t) /\ TimeToSync /\ ~Reads
  /\ req' = [req EXCEPT ![t] = FsyncOf(fsyncedFile)]
  /\ fsyncedFile' = (fsyncedFile + 1) % NumFiles
  /\ isDirty' = (fsyncedFile + 1 < NumFiles - 1)
  /\ issued' = issued + 1 /\ Goto(t, "execute")
  /\ UNCHANGED <<fopt, seen, block, aio, doneFiles, position, currentFile, reqPerformed, prevReq,
                 warned, unsynced, failed, complained>>

SeqFsync(t) ==
  /\ Sequential /\ More(t) /\ TimeToSync /\ ~Reads
  /\ req' = [req EXCEPT ![t] = FsyncOf(fsyncedFile)]
  /\ fsyncedFile' = (fsyncedFile + 1) % NumFiles
  /\ isDirty' = (fsyncedFile + 1 # NumFiles)
  /\ issued' = issued + 1 /\ Goto(t, "execute")
  /\ UNCHANGED <<fopt, seen, block, aio, doneFiles, position, currentFile, reqPerformed, prevReq,
                 warned, unsynced, failed, complained>>

-----------------------------------------------------------------------------
\* file_get_rnd_request, without a lock: one step per access of shared state

\* Is it time to sync?
RndCheck(t) ==
  /\ ~Sequential /\ More(t)
  /\ issued' = issued + 1
  /\ IF TimeToSync
     THEN Goto(t, "bump") /\ req' = [req EXCEPT ![t] = FsyncOf(fsyncedFile)]
     ELSE Goto(t, "pick") /\ UNCHANGED req
  /\ UNCHANGED <<fopt, seen, block, aio, doneFiles, generator, unsynced, failed, complained>>

\* fsynced_file++: a load, or the value read before, and a store
BumpLoad(t) ==
  /\ pc[t] = "bump"
  /\ \E v \in {req[t].file, fsyncedFile} : seen' = [seen EXCEPT ![t] = v]
  /\ Goto(t, "bumped")
  /\ UNCHANGED <<fopt, req, block, aio, doneFiles, generator, unsynced, issued, failed, complained>>

BumpStore(t) ==
  /\ pc[t] = "bumped"
  /\ fsyncedFile' = seen[t] + 1
  /\ Goto(t, "wrap")
  /\ UNCHANGED <<fopt, req, seen, block, aio, doneFiles, position, currentFile, isDirty,
                 reqPerformed, prevReq, warned, unsynced, issued, failed, complained>>

\* The comparison reads the counter again or the value just stored
Wrap(t) ==
  /\ pc[t] = "wrap"
  /\ \E v \in {fsyncedFile, seen[t] + 1} :
       IF v = NumFiles
       THEN fsyncedFile' = 0 /\ isDirty' = FALSE
       ELSE UNCHANGED <<fsyncedFile, isDirty>>
  /\ Goto(t, "execute")
  /\ UNCHANGED <<fopt, req, seen, block, aio, doneFiles, position, currentFile, reqPerformed,
                 prevReq, warned, unsynced, issued, failed, complained>>

\* A block; in validation mode one that no other thread has
RndPick(t) ==
  /\ pc[t] = "pick"
  /\ \E b \in Blocks, op \in CASE fopt.mode = "rndrd" -> {"read"}
                               [] fopt.mode = "rndwr" -> {"write"}
                               [] OTHER -> {"read", "write"} :
       /\ fopt.validate => \A u \in Threads \ {t} : block[u] # b
       /\ req' = [req EXCEPT ![t] = [op |-> op, file |-> b.file, pos |-> b.pos,
                                     size |-> Least(BlockSize, FileSize - b.pos)]]
  /\ Goto(t, "claim")
  /\ UNCHANGED <<fopt, seen, block, aio, doneFiles, generator, unsynced, issued, failed, complained>>

RndClaim(t) ==
  /\ pc[t] = "claim"
  /\ block' = [block EXCEPT ![t] = [file |-> req[t].file, pos |-> req[t].pos]]
  /\ seen' = [seen EXCEPT ![t] = reqPerformed]
  /\ Goto(t, "count")
  /\ UNCHANGED <<fopt, req, aio, doneFiles, generator, unsynced, issued, failed, complained>>

\* The store of req_performed++, and the dirty mark
RndCount(t) ==
  /\ pc[t] = "count"
  /\ reqPerformed' = seen[t] + 1
  /\ isDirty' = (isDirty \/ req[t].op = "write")
  /\ Goto(t, "execute")
  /\ UNCHANGED <<fopt, req, seen, block, aio, doneFiles, position, currentFile, fsyncedFile,
                 prevReq, warned, unsynced, issued, failed, complained>>

-----------------------------------------------------------------------------
\* file_execute_event

\* The request is refused if its file is greater than the number of files ...
Refuse(t) ==
  /\ pc[t] = "execute" /\ req[t].file > NumFiles
  /\ Fail(t)
  /\ UNCHANGED <<fopt, req, seen, block, aio, doneFiles, generator, unsynced, issued>>

\* ... and if it is equal, whatever lies behind the array is the descriptor or the
\* mapping: an error, an operation on something else, or the end of the process
Stray(t) ==
  /\ pc[t] = "execute" /\ req[t].file = NumFiles
  /\ \/ Fail(t)
     \/ Goto(t, "more") /\ UNCHANGED <<failed, complained>>
     \/ pc' = [u \in Threads |-> "killed"] /\ UNCHANGED <<failed, complained>>
  /\ UNCHANGED <<fopt, req, seen, block, aio, doneFiles, generator, unsynced, issued>>

IsData(r) == r.op \in {"read", "write"}
AfterData(t) == Goto(t, IF req[t].op = "write" /\ fopt.fsyncAll THEN "fsync" ELSE "more")

\* A read or a write, and its failure
Transfer(t) ==
  /\ pc[t] = "execute" /\ req[t].file < NumFiles
  /\ IsData(req[t]) /\ fopt.io # "async"
  /\ \/ /\ AfterData(t)
        /\ unsynced' = unsynced \cup (IF req[t].op = "write" THEN {req[t].file} ELSE {})
        /\ UNCHANGED <<failed, complained>>
     \/ Fail(t) /\ UNCHANGED unsynced
  /\ UNCHANGED <<fopt, req, seen, block, aio, doneFiles, generator, issued>>

\* file_submit_or_wait
(* Mutant: the request is not counted. *)
SubmitUncounted(t) ==
  /\ pc[t] = "execute" /\ req[t].file < NumFiles
  /\ IsData(req[t]) /\ fopt.io = "async"
  /\ aio' = [aio EXCEPT ![t].flying = Append(@, req[t])]
  /\ IF aio[t].nrequests < Backlog THEN AfterData(t) ELSE Goto(t, "wait")
  /\ UNCHANGED <<fopt, req, seen, block, doneFiles, generator, unsynced, issued, failed, complained>>

Submit(t) ==
  /\ pc[t] = "execute" /\ req[t].file < NumFiles
  /\ IsData(req[t]) /\ fopt.io = "async"
  /\ \/ /\ aio' = [aio EXCEPT ![t].flying = Append(@, req[t]), ![t].nrequests = @ + 1]
        /\ IF aio[t].nrequests + 1 < Backlog THEN AfterData(t) ELSE Goto(t, "wait")
        /\ UNCHANGED <<failed, complained>>
     \/ Fail(t) /\ UNCHANGED aio
  /\ UNCHANGED <<fopt, req, seen, block, doneFiles, generator, unsynced, issued>>

\* The kernel completes an operation, well or not
Complete(t) ==
  /\ \E i \in 1..Len(aio[t].flying) :
       LET r == aio[t].flying[i]
           rest == SubSeq(aio[t].flying, 1, i - 1) \o SubSeq(aio[t].flying, i + 1, Len(aio[t].flying))
       IN \E ok \in BOOLEAN :
            /\ aio' = [aio EXCEPT ![t].flying = rest, ![t].landed = @ + 1, ![t].bad = @ \/ ~ok]
            /\ unsynced' = unsynced \cup (IF ok /\ r.op = "write" THEN {r.file} ELSE {})
  /\ UNCHANGED <<fopt, pc, req, seen, block, doneFiles, generator, issued, failed, complained>>

\* file_wait: the results are counted off, up to the first bad one
CountOff(t, n) == [aio EXCEPT ![t].nrequests = @ - n, ![t].landed = @ - n]

Wait(t) ==
  /\ pc[t] = "wait" /\ aio[t].landed > 0
  /\ IF aio[t].bad
     THEN Fail(t) /\ \E n \in 0..aio[t].landed - 1 : aio' = CountOff(t, n)
     ELSE aio' = CountOff(t, aio[t].landed) /\ AfterData(t) /\ UNCHANGED <<failed, complained>>
  /\ UNCHANGED <<fopt, req, seen, block, doneFiles, generator, unsynced, issued>>

\* file_fsync, for a request or after each write
Fsync(t) ==
  /\ \/ pc[t] = "execute" /\ req[t].op = "fsync" /\ req[t].file < NumFiles
     \/ pc[t] = "fsync"
  /\ \/ /\ unsynced' = unsynced \ {req[t].file}
        /\ Goto(t, "more") /\ UNCHANGED <<failed, complained>>
     \/ Fail(t) /\ UNCHANGED unsynced
  /\ UNCHANGED <<fopt, req, seen, block, aio, doneFiles, generator, issued>>

-----------------------------------------------------------------------------
\* file_thread_done, whose result nobody looks at

SyncAtEnd == fopt.fsyncEnd /\ ~fopt.fsyncAll /\ ~Reads

(* Mutant: the last file is left out. *)
SyncsAllButLast(t) ==
  /\ pc[t] = "thread_done" /\ SyncAtEnd /\ doneFiles[t] < NumFiles
  /\ unsynced' = IF doneFiles[t] < NumFiles - 1 THEN unsynced \ {doneFiles[t]} ELSE unsynced
  /\ doneFiles' = [doneFiles EXCEPT ![t] = @ + 1]
  /\ UNCHANGED <<fopt, pc, req, seen, block, aio, generator, issued, failed, complained>>

FinalFsync(t) ==
  /\ pc[t] = "thread_done" /\ SyncAtEnd /\ doneFiles[t] < NumFiles
  /\ \/ /\ unsynced' = unsynced \ {doneFiles[t]}
        /\ doneFiles' = [doneFiles EXCEPT ![t] = @ + 1]
        /\ UNCHANGED <<pc, complained>>
     \/ complained' = TRUE /\ Goto(t, "done") /\ UNCHANGED <<unsynced, doneFiles>>
  /\ UNCHANGED <<fopt, req, seen, block, aio, generator, issued, failed>>

Drain(t) ==
  /\ pc[t] = "thread_done" /\ (SyncAtEnd => doneFiles[t] = NumFiles)
  /\ aio[t].landed = aio[t].nrequests
  /\ \E n \in IF aio[t].bad THEN 0..aio[t].landed - 1 ELSE {aio[t].landed} : aio' = CountOff(t, n)
  /\ complained' = (complained \/ aio[t].bad)
  /\ Goto(t, "done")
  /\ UNCHANGED <<fopt, req, seen, block, doneFiles, generator, unsynced, issued, failed>>

FileNext ==
  \E t \in Threads :
    \/ Leave(t) \/ SeqRequest(t) \/ SeqFsync(t)
    \/ RndCheck(t) \/ BumpLoad(t) \/ BumpStore(t) \/ Wrap(t) \/ RndPick(t) \/ RndClaim(t) \/ RndCount(t)
    \/ Refuse(t) \/ Stray(t) \/ Transfer(t) \/ Submit(t) \/ Complete(t) \/ Wait(t)
    \/ Fsync(t) \/ FinalFsync(t) \/ Drain(t)

-----------------------------------------------------------------------------
\* Each thread has as many operations in the kernel as it has counted, never
\* more than --file-async-backlog, and fewer between two requests; the files of
\* the sequential generator exist.
FileTypeOK ==
  /\ fopt \in FileOptions
  /\ \A t \in Threads :
       /\ pc[t] \in {"more", "bump", "bumped", "wrap", "pick", "claim", "count", "execute",
                     "fsync", "wait", "thread_done", "done", "failed", "killed"}
       /\ aio[t].nrequests = Len(aio[t].flying) + aio[t].landed
       /\ aio[t].nrequests <= IF pc[t] \in {"wait", "failed", "killed"} THEN Backlog ELSE Backlog - 1
       /\ doneFiles[t] \in 0..NumFiles
  /\ Sequential => /\ position \in 0..FileSize - 1 /\ currentFile \in 0..NumFiles
                   /\ \A t \in Threads : req[t].file < NumFiles /\ req[t].pos + req[t].size <= FileSize
  /\ isDirty \in BOOLEAN /\ unsynced \subseteq 0..NumFiles - 1

\* Where the k-th data request of a sequential run must lie if the requests
\* cover file after file without a gap or an overlap, again and again.
RequestsPerFile == (FileSize + RequestSize - 1) \div RequestSize
Expected(k) ==
  [file |-> ((k - 1) \div RequestsPerFile) % NumFiles,
   pos |-> ((k - 1) % RequestsPerFile) * RequestSize]

\* The sequential generator hands out exactly those requests, whichever threads
\* ask; its own validation agrees, save that it mistakes the rewind of a single
\* file for a gap; and once a series of syncs has begun no data request comes
\* before every file had its turn.
SequentialStream ==
  Sequential =>
    /\ prevReq.op # "null" =>
         /\ NumFiles > 1 => ~warned
         /\ [file |-> prevReq.file, pos |-> prevReq.pos] = Expected(reqPerformed)
    /\ fsyncedFile # 0 => TimeToSync

\* When the threads have ended without a fatal message, every write of a
\* synchronous or mapped run has been followed by a sync of its file if the
\* command line asks for syncs at the end or after each write.
WritesSynced ==
  /\ \A t \in Threads : pc[t] = "done"
  /\ ~complained /\ fopt.io # "async" /\ (SyncAtEnd \/ fopt.fsyncAll)
  => unsynced = {}

\* sb_fileio.c of the validation mode: "we have to make sure the block is not
\* being used by another thread".
BlocksExclusive ==
  fopt.validate /\ ~Sequential =>
    \A t, u \in Threads :
      /\ t # u /\ pc[t] = "execute" /\ pc[u] = "execute"
      /\ IsData(req[t]) /\ IsData(req[u])
      => <<req[t].file, req[t].pos>> # <<req[u].file, req[u].pos>>

=============================================================================
