----------------------------- MODULE EventQueue -----------------------------
(***************************************************************************)
(* The event loop of sysbench.c: the worker threads run thread_run, which  *)
(* asks sb_more_events before every event; with --rate an event generator  *)
(* thread queues arrival times that sb_more_events takes; the main thread  *)
(* ends the warm-up, joins the workers and cancels the generator.          *)
(*                                                                         *)
(* The ring is the bounded FIFO queue of module FifoQueue, whose promise   *)
(* module CkRing shows the lock-free code to keep.  The clock is the flag  *)
(* "expired" (sb_exec_timer has reached --time); an arrival time is the    *)
(* number of the event it belongs to.                                      *)
(***************************************************************************)
EXTENDS Integers, Sequences, FiniteSets

CONSTANTS Workers,    \* the worker threads
          QueueLen,   \* MAX_QUEUE_LEN, the length of queue_array and of the ring
          MaxGen,     \* bound: events generated before the workers are joined
          MaxCount,   \* bound: executed counts no further than this
          Options,    \* the command lines: [rate, timed, warmup : BOOLEAN, limit : Nat]
          NULL        \* the null pointer

Slots == 0..(QueueLen - 1)

ASSUME QueueAssumption ==
  /\ IsFiniteSet(Workers)
  /\ QueueLen \in Nat \ {0, 1}
  /\ MaxGen \in Nat /\ MaxCount \in Nat
  /\ Options \subseteq [rate : BOOLEAN, timed : BOOLEAN, warmup : BOOLEAN, limit : Nat]
  /\ NULL \notin Slots

VARIABLES
  opt,          \* the options of this run
  error,        \* sb_globals.error
  expired,      \* sb_exec_timer has passed --time
  limit,        \* sb_globals.max_events, 0 while it is disabled
  nevents,      \* sb_globals.nevents, the tickets handed out
  executed,     \* SB_CNT_EVENT since the last checkpoint
  ring,         \* queue_ring: the slots of queue_array whose addresses are queued
  queue_array,  \* arrival times, by slot
  concurrency,  \* sb_globals.concurrency
  waiting,      \* workers blocked on queue_cond
  pc, rc, ptr, stamp,  \* each worker: position, result, event pointer, time read
  ev,           \* history: the number of the event a worker dequeued, 0 for none
  gpc, gi,      \* the generator's position and its loop index
  enqueued,     \* events the generator has queued
  mpc,          \* the main thread's position
  crashed       \* a null pointer was dereferenced

globals == <<opt, error, expired, limit, nevents, executed>>
queueVars == <<ring, queue_array, concurrency, waiting>>
workerVars == <<pc, rc, ptr, stamp, ev>>
generatorVars == <<gpc, gi, enqueued>>
vars == <<globals, queueVars, workerVars, generatorVars, mpc, crashed>>

Init ==
  /\ opt \in Options
  /\ error = FALSE /\ expired = FALSE /\ crashed = FALSE
  /\ limit = IF opt.warmup THEN 0 ELSE opt.limit
  /\ nevents = 0 /\ executed = 0 /\ concurrency = 0 /\ enqueued = 0
  /\ ring = <<>> /\ waiting = {}
  /\ queue_array = [i \in Slots |-> 0]
  /\ pc = [w \in Workers |-> "check"]
  /\ rc = [w \in Workers |-> 0]
  /\ ptr = [w \in Workers |-> NULL]
  /\ stamp = [w \in Workers |-> 0]
  /\ ev = [w \in Workers |-> 0]
  /\ gpc = IF opt.rate THEN "check" ELSE "off"
  /\ gi = 0
  /\ mpc = IF opt.warmup THEN "warmup" ELSE "join"

OutOfTime == opt.timed /\ expired

(* What a step of each thread leaves alone; a crash ends them all. *)
WorkerStep    == ~crashed /\ UNCHANGED <<generatorVars, mpc, crashed>>
GeneratorStep == ~crashed /\ UNCHANGED <<workerVars, mpc, crashed>>
MainStep      == ~crashed /\ UNCHANGED <<queueVars, workerVars, generatorVars, crashed>>

Goto(w, label) == pc' = [pc EXCEPT ![w] = label]

-----------------------------------------------------------------------------
(* A worker inside sb_more_events.  error and expired never go back, so    *)
(* reading them one after the other is the same as reading them at once.   *)

(* Mutant: the time limit is not looked at before an event. *)
IgnoresTime(w) ==
  /\ WorkerStep
  /\ pc[w] = "check"
  /\ Goto(w, IF error THEN "left" ELSE "ticket")
  /\ UNCHANGED <<globals, queueVars, rc, ptr, stamp, ev>>

CheckStop(w) ==
  /\ WorkerStep
  /\ pc[w] = "check"
  /\ Goto(w, IF error \/ OutOfTime THEN "left" ELSE "ticket")
  /\ UNCHANGED <<globals, queueVars, rc, ptr, stamp, ev>>

(* Mutant: the ticket is compared with > instead of >=. *)
OneTicketTooMany(w) ==
  /\ WorkerStep
  /\ pc[w] = "ticket"
  /\ IF limit = 0
       THEN UNCHANGED nevents /\ Goto(w, IF opt.rate THEN "dequeue" ELSE "event")
       ELSE /\ nevents' = nevents + 1
            /\ Goto(w, IF nevents > limit THEN "left"
                       ELSE IF opt.rate THEN "dequeue" ELSE "event")
  /\ ptr' = [ptr EXCEPT ![w] = NULL]
  /\ UNCHANGED <<opt, error, expired, limit, executed, queueVars, rc, stamp, ev>>

(* max_events is loaded first; the atomic fetch-and-add that may follow    *)
(* decides on the value loaded, which changes only from 0.                 *)
TakeTicket(w) ==
  /\ WorkerStep
  /\ pc[w] = "ticket"
  /\ IF limit = 0
       THEN UNCHANGED nevents /\ Goto(w, IF opt.rate THEN "dequeue" ELSE "event")
       ELSE /\ nevents' = nevents + 1
            /\ Goto(w, IF nevents >= limit THEN "left"
                       ELSE IF opt.rate THEN "dequeue" ELSE "event")
  /\ ptr' = [ptr EXCEPT ![w] = NULL]
  /\ UNCHANGED <<opt, error, expired, limit, executed, queueVars, rc, stamp, ev>>

(* Mutant: the slot is copied after the head has been advanced. *)
CopiesNextSlot(w) ==
  /\ WorkerStep
  /\ pc[w] = "dequeue" /\ ring # <<>>
  /\ ptr' = IF Len(ring) > 1 THEN [ptr EXCEPT ![w] = ring[2]] ELSE ptr
  /\ ring' = Tail(ring)
  /\ ev' = [ev EXCEPT ![w] = enqueued - Len(ring) + 1]
  /\ Goto(w, "enter")
  /\ UNCHANGED <<globals, queue_array, concurrency, waiting, rc, stamp>>

(* The worker whose compare-and-swap wins takes the head.  Workers that    *)
(* had copied the same entry lose and go on, but the copy stays in ptr.    *)
Dequeue(w) ==
  /\ WorkerStep
  /\ pc[w] = "dequeue" /\ ring # <<>>
  /\ \E losers \in SUBSET {x \in Workers \ {w} : pc[x] = "dequeue"} :
       ptr' = [x \in Workers |-> IF x \in losers \cup {w} THEN Head(ring) ELSE ptr[x]]
  /\ ring' = Tail(ring)
  /\ ev' = [ev EXCEPT ![w] = enqueued - Len(ring) + 1]
  /\ Goto(w, "enter")
  /\ UNCHANGED <<globals, queue_array, concurrency, waiting, rc, stamp>>

FindEmpty(w) ==
  /\ WorkerStep
  /\ pc[w] = "dequeue" /\ ring = <<>>
  /\ Goto(w, "empty")
  /\ UNCHANGED <<globals, queueVars, rc, ptr, stamp, ev>>

(* The loop condition after an empty dequeue: on a global error the loop   *)
(* ends as if an event had been taken.                                     *)
TestError(w) ==
  /\ WorkerStep
  /\ pc[w] = "empty"
  /\ Goto(w, IF error THEN "enter" ELSE "sleep")
  /\ UNCHANGED <<globals, queueVars, rc, ptr, stamp, ev>>

(* queue_mutex protects nothing but this wait: no one signals under it.    *)
Sleep(w) ==
  /\ WorkerStep
  /\ pc[w] = "sleep"
  /\ waiting' = waiting \cup {w}
  /\ Goto(w, "waiting")
  /\ UNCHANGED <<globals, ring, queue_array, concurrency, rc, ptr, stamp, ev>>

Recheck(w) ==
  /\ WorkerStep
  /\ pc[w] = "waiting" /\ w \notin waiting
  /\ Goto(w, IF error \/ OutOfTime THEN "left" ELSE "dequeue")
  /\ UNCHANGED <<globals, queueVars, rc, ptr, stamp, ev>>

Enter(w) ==
  /\ WorkerStep
  /\ pc[w] = "enter"
  /\ concurrency' = concurrency + 1
  /\ Goto(w, "stamp")
  /\ UNCHANGED <<globals, ring, queue_array, waiting, rc, ptr, stamp, ev>>

ReadStamp(w) ==
  /\ WorkerStep
  /\ pc[w] = "stamp" /\ ptr[w] # NULL
  /\ stamp' = [stamp EXCEPT ![w] = queue_array[ptr[w]]]
  /\ Goto(w, "event")
  /\ UNCHANGED <<globals, queueVars, rc, ptr, ev>>

-----------------------------------------------------------------------------
(* A worker inside thread_run.  sb_more_events has said yes before rc is   *)
(* looked at; next_event may have nothing left (SB_REQ_TYPE_NULL).         *)

LeaveLoop(w) ==
  /\ WorkerStep
  /\ pc[w] = "event"
  /\ Goto(w, "left")
  /\ UNCHANGED <<globals, queueVars, rc, ptr, stamp, ev>>

StartEvent(w) ==
  /\ WorkerStep
  /\ pc[w] = "event" /\ rc[w] = 0
  /\ Goto(w, "execute")
  /\ UNCHANGED <<globals, queueVars, rc, ptr, stamp, ev>>

ExecuteEvent(w) ==
  /\ WorkerStep
  /\ pc[w] = "execute"
  /\ \E r \in {0, 1} : rc' = [rc EXCEPT ![w] = r]
  /\ Goto(w, "stop")
  /\ UNCHANGED <<globals, queueVars, ptr, stamp, ev>>

(* Mutant: a finished event stays counted in the concurrency. *)
StaysConcurrent(w) ==
  /\ WorkerStep
  /\ pc[w] = "stop"
  /\ executed' = IF executed < MaxCount THEN executed + 1 ELSE executed
  /\ ev' = [ev EXCEPT ![w] = 0]
  /\ Goto(w, "check")
  /\ UNCHANGED <<opt, error, expired, limit, nevents, queueVars, rc, ptr, stamp>>

StopEvent(w) ==
  /\ WorkerStep
  /\ pc[w] = "stop"
  /\ executed' = IF executed < MaxCount THEN executed + 1 ELSE executed
  /\ concurrency' = IF opt.rate THEN concurrency - 1 ELSE concurrency
  /\ ev' = [ev EXCEPT ![w] = 0]
  /\ Goto(w, "check")
  /\ UNCHANGED <<opt, error, expired, limit, nevents,
                 ring, queue_array, waiting, rc, ptr, stamp>>

(* The end of worker_thread. *)
FinishWorker(w) ==
  /\ WorkerStep
  /\ pc[w] = "left"
  /\ error' = (error \/ rc[w] # 0)
  /\ Goto(w, "done")
  /\ UNCHANGED <<opt, expired, limit, nevents, executed, queueVars, rc, ptr, stamp, ev>>

(* ptr is still NULL: reading the arrival time ends the process. *)
Crash(w) ==
  /\ ~crashed
  /\ pc[w] = "stamp" /\ ptr[w] = NULL
  /\ crashed' = TRUE
  /\ UNCHANGED <<globals, queueVars, workerVars, generatorVars, mpc>>

(* POSIX lets a condition wait return without a signal. *)
WakeSpuriously(w) ==
  /\ WorkerStep
  /\ w \in waiting
  /\ waiting' = waiting \ {w}
  /\ UNCHANGED <<globals, ring, queue_array, concurrency, workerVars>>

-----------------------------------------------------------------------------
(* The event generator, eventgen_thread_proc.  It may be behind its        *)
(* schedule and not sleep at all.                                          *)

CheckTime ==
  /\ GeneratorStep
  /\ gpc = "check"
  /\ IF OutOfTime
       THEN gpc' = "broadcast"
       ELSE /\ enqueued < MaxGen \/ mpc = "cancel"
            /\ gpc' \in {"nanosleep", "arrive"}
  /\ UNCHANGED <<globals, queueVars, gi, enqueued>>

Nanosleep ==
  /\ GeneratorStep
  /\ gpc = "nanosleep"
  /\ gpc' = "arrive"
  /\ UNCHANGED <<globals, queueVars, gi, enqueued>>

Arrive ==
  /\ GeneratorStep
  /\ gpc = "arrive"
  /\ queue_array' = [queue_array EXCEPT ![gi] = enqueued + 1]
  /\ gpc' = "enqueue"
  /\ UNCHANGED <<globals, ring, concurrency, waiting, gi, enqueued>>

(* Mutant: queue_array is reused as early as the ring's entries are. *)
ReusesSlotEarly(i) == IF i + 1 = QueueLen - 1 THEN 0 ELSE i + 1

(* i = (i+1) % MAX_QUEUE_LEN, for an i that is in range. *)
NextSlot(i) == IF i + 1 = QueueLen THEN 0 ELSE i + 1

(* Mutant: the ring takes as many entries as it has slots. *)
EnqueueIntoLastSlot ==
  /\ GeneratorStep
  /\ gpc = "enqueue" /\ Len(ring) < QueueLen
  /\ ring' = Append(ring, gi)
  /\ enqueued' = enqueued + 1
  /\ gpc' = "signal"
  /\ UNCHANGED <<globals, queue_array, concurrency, waiting, gi>>

(* The ring holds one entry less than it has slots. *)
Enqueue ==
  /\ GeneratorStep
  /\ gpc = "enqueue" /\ Len(ring) < QueueLen - 1
  /\ ring' = Append(ring, gi)
  /\ enqueued' = enqueued + 1
  /\ gpc' = "signal"
  /\ UNCHANGED <<globals, queue_array, concurrency, waiting, gi>>

QueueFull ==
  /\ GeneratorStep
  /\ gpc = "enqueue" /\ Len(ring) >= QueueLen - 1
  /\ error' = TRUE
  /\ gpc' = "broadcast"
  /\ UNCHANGED <<opt, expired, limit, nevents, executed, queueVars, gi, enqueued>>

Signal ==
  /\ GeneratorStep
  /\ gpc = "signal"
  /\ IF waiting = {} THEN UNCHANGED waiting
                     ELSE \E w \in waiting : waiting' = waiting \ {w}
  /\ gi' = NextSlot(gi)
  /\ gpc' = "check"
  /\ UNCHANGED <<globals, ring, queue_array, concurrency, enqueued>>

Broadcast ==
  /\ GeneratorStep
  /\ gpc = "broadcast"
  /\ waiting' = {}
  /\ gpc' = "done"
  /\ UNCHANGED <<globals, ring, queue_array, concurrency, gi, enqueued>>

(* The main thread's pthread_cancel takes effect in nanosleep. *)
Cancelled ==
  /\ GeneratorStep
  /\ gpc = "nanosleep" /\ mpc = "cancel"
  /\ gpc' = "cancelled"
  /\ UNCHANGED <<globals, queueVars, gi, enqueued>>

-----------------------------------------------------------------------------
(* The main thread in run_test, past the worker barrier.                   *)

EnableLimit ==
  /\ MainStep
  /\ mpc = "warmup"
  /\ limit' = opt.limit
  /\ mpc' = "checkpoint"
  /\ UNCHANGED <<opt, error, expired, nevents, executed>>

Checkpoint ==
  /\ MainStep
  /\ mpc = "checkpoint"
  /\ executed' = 0
  /\ mpc' = "join"
  /\ UNCHANGED <<opt, error, expired, limit, nevents>>

JoinWorkers ==
  /\ MainStep
  /\ mpc = "join" /\ \A w \in Workers : pc[w] = "done"
  /\ mpc' = "cancel"
  /\ UNCHANGED globals

(* sb_exec_timer reaches --time. *)
Expire ==
  /\ ~crashed /\ opt.timed /\ ~expired
  /\ expired' = TRUE
  /\ UNCHANGED <<opt, error, limit, nevents, executed,
                 queueVars, workerVars, generatorVars, mpc, crashed>>

-----------------------------------------------------------------------------
Worker(w) ==
  \/ CheckStop(w) \/ TakeTicket(w) \/ Dequeue(w) \/ FindEmpty(w) \/ TestError(w)
  \/ Sleep(w) \/ Recheck(w) \/ Enter(w) \/ ReadStamp(w) \/ Crash(w) \/ LeaveLoop(w)
  \/ StartEvent(w) \/ ExecuteEvent(w) \/ StopEvent(w) \/ FinishWorker(w)

Generator == \/ CheckTime \/ Nanosleep \/ Arrive \/ Enqueue \/ QueueFull
             \/ Signal \/ Broadcast \/ Cancelled

Main == EnableLimit \/ Checkpoint \/ JoinWorkers

Next == \/ \E w \in Workers : Worker(w) \/ WakeSpuriously(w)
        \/ Generator \/ Main \/ Expire

Spec == Init /\ [][Next]_vars

(* Every runnable thread is scheduled; spurious wake-ups and the arrival   *)
(* of the time limit are not relied on.                                    *)
FairSpec == /\ Spec
            /\ \A w \in Workers : WF_vars(Worker(w))
            /\ WF_vars(Generator)
            /\ WF_vars(Main)

-----------------------------------------------------------------------------
InQueueCode == {"dequeue", "empty", "sleep", "waiting", "enter", "stamp"}
InEvent     == {"event", "execute", "stop"}
WorkerPoints == {"check", "ticket", "left", "done"} \cup InQueueCode \cup InEvent
GeneratorPoints == {"off", "check", "nanosleep", "arrive", "enqueue", "signal",
                    "broadcast", "done", "cancelled"}

(* The types of the variables; the ring never holds QueueLen entries, nor  *)
(* more than were queued.                                                  *)
TypeOK ==
  /\ opt \in Options
  /\ error \in BOOLEAN /\ expired \in BOOLEAN /\ crashed \in BOOLEAN
  /\ limit \in Nat /\ nevents \in Nat /\ executed \in Nat /\ enqueued \in Nat
  /\ ring \in Seq(Slots) /\ Len(ring) <= QueueLen - 1 /\ Len(ring) <= enqueued
  /\ queue_array \in [Slots -> Nat]
  /\ concurrency \in Int
  /\ waiting \subseteq {w \in Workers : pc[w] = "waiting"}
  /\ pc \in [Workers -> WorkerPoints]
  /\ rc \in [Workers -> {0, 1}]
  /\ ptr \in [Workers -> Slots \cup {NULL}]
  /\ stamp \in [Workers -> Nat]
  /\ ev \in [Workers -> Nat]
  /\ gpc \in GeneratorPoints
  /\ gi \in Slots
  /\ mpc \in {"warmup", "checkpoint", "join", "cancel"}

(* Arrival times of events still in the queue are the ones they arrived    *)
(* at.  eventgen_thread_proc stores the time of the next event before it   *)
(* knows that the ring has room: that is harmless only because the ring    *)
(* refuses one entry short of the length of queue_array.                   *)
PendingStampsIntact ==
  \A k \in 1..Len(ring) : queue_array[ring[k]] = enqueued - Len(ring) + k

(* The arrival time a worker is about to read in sb_more_events is that of *)
(* the event it took, unless the generator has meanwhile queued so many    *)
(* events that it has come round to the same slot of queue_array.          *)
OwnStamp ==
  \A w \in Workers :
    (pc[w] \in {"enter", "stamp"} /\ ev[w] # 0 /\ enqueued < ev[w] + QueueLen - 1)
      => ptr[w] # NULL /\ queue_array[ptr[w]] = ev[w]

(* --events bounds the events that are counted, whatever the workers'      *)
(* interleaving; with a warm-up, an event that a worker began under the    *)
(* disabled limit may come on top, one for each worker.                    *)
EventLimit ==
  (opt.limit > 0 /\ mpc \in {"join", "cancel"}) =>
    executed <= opt.limit + (IF opt.warmup THEN Cardinality(Workers) ELSE 0)

(* The reported concurrency is the number of workers with an event in hand,*)
(* plus those that left thread_run with one they did not execute (next_    *)
(* event had none, or the loop was already ending with an error).          *)
ConcurrencyAccounted ==
  LET busy == {w \in Workers : pc[w] \in InEvent \cup {"stamp"}}
      gone == {w \in Workers : pc[w] \in {"left", "done"}}
  IN  IF opt.rate
        THEN concurrency \in Cardinality(busy)..Cardinality(busy \cup gone)
        ELSE concurrency = 0

(* Once the time is over or an error is raised, every worker comes to an   *)
(* end of worker_thread or is asleep in the condition wait.                *)
WorkersLeave ==
  (error \/ OutOfTime) ~>
    (crashed \/ \A w \in Workers : pc[w] = "done" \/ w \in waiting)

(* After the join, the generator ends: it is cancelled in nanosleep, sees  *)
(* the time limit, or fills the queue that nobody empties any more.        *)
GeneratorStops == (mpc = "cancel") ~> (gpc \in {"off", "done", "cancelled"})

(* Both threads of the event loop stop: the workers when the time is over  *)
(* or an error is raised, the generator when run_test cancels it.          *)
ThreadsStop == WorkersLeave /\ GeneratorStops

(* What sysbench.c says of the generator's last step, "Wake all waiting    *)
(* threads": once it has ended, no worker is left in the condition wait,   *)
(* from which nothing could wake it any more.                              *)
NoStrandedWorker == gpc = "done" => waiting = {}

(* What sysbench.c says of the rate mode, "we take events from queue": a   *)
(* worker that goes on to an event has taken one.                          *)
EventTakenFromQueue == \A w \in Workers : pc[w] = "stamp" => ev[w] # 0
=============================================================================
