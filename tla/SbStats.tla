------------------------------- MODULE SbStats -------------------------------
(***************************************************************************)
(* The statistics of a run: the workers' timers (sb_timer.h), counters     *)
(* (sb_counter.h) and the shared latency histogram (sb_histogram.c), and   *)
(* the threads that read them while the workers go on: the report thread,  *)
(* the checkpoint thread, the main thread after the warm-up and at the     *)
(* end, and the forced-shutdown handler on top of whichever thread SIGALRM *)
(* interrupts.                                                             *)
(*                                                                         *)
(* An event is a pair of a worker and a number.  A timer's sums are the    *)
(* set of events that went into them, a histogram array the set of events  *)
(* it counts; an array element of a slot is what ck_pr_fas_64 takes at     *)
(* once.  A worker's clock is read twice for each event.  Copying a timer  *)
(* is one step, as its spinlock makes it for every thread.                 *)
(***************************************************************************)
EXTENDS Integers, Sequences, FiniteSets, Functions

CONSTANTS threads,         \* the worker threads, in the order they are read
          NSlots,          \* the number of elements of all interm_slots
          MaxEvents,       \* bound: events of all the workers
          MaxCheckpoints,  \* bound: n_checkpoints
          Options          \* report_interval > 0, n_checkpoints, and the rest as they are

Workers == Range(threads)
Events  == Workers \X (1..MaxEvents)

ASSUME StatsAssumption ==
  /\ threads \in Seq(Workers) /\ threads # <<>> /\ IsInjective(threads)
  /\ Workers \cap {"main", "report", "checkpoints", "handler", "none"} = {}
  /\ NSlots \in Nat \ {0} /\ MaxEvents \in Nat /\ MaxCheckpoints \in Nat
  /\ Options \subseteq [report : BOOLEAN, checkpoints : 0..MaxCheckpoints, warmup : BOOLEAN,
                        histogram : BOOLEAN, force : BOOLEAN]

Reporters  == {"main", "report", "checkpoints", "handler"}
Background == {"report", "checkpoints"}

VARIABLES
  opt,                \* the options of this run
  wpc,                \* the workers' positions
  begun,              \* begun[w]: the number of w's current or last event
  timers,             \* by worker: last start and end on w's clock, events summed up
  timers_copy,        \* the copies checkpoint() makes
  counters,           \* SB_CNT_EVENT by worker
  last_intermediate,  \* the totals of the last reports
  last_cumulative,
  interm_slots, temp_array, cumulative_array, cumulative_nevents,  \* the histogram
  lock,               \* the thread that holds the histogram's lock, or "none"
  reporting,          \* sb_globals.report_interval is not 0
  left,               \* the checkpoints still to come
  released,           \* report_barrier has been passed
  printing,           \* the main thread is in sb_histogram_print
  rpc,                \* the reporters' positions
  idx, sum, last,     \* their locals: loop index, sum, previous total
  interrupted,        \* the thread the forced-shutdown handler runs on, or "none"
  spinlock,           \* the interrupted thread is a worker that has its timer's lock
  unfinished,         \* the workers the handler counts as in a transaction
  counted, closed     \* history: events counted in cumulative reports; the
                      \* events whose timer, histogram entry went into one

workVars  == <<wpc, begun, counters>>
histogram == <<interm_slots, temp_array, cumulative_array, cumulative_nevents, lock>>
totals    == <<last_intermediate, last_cumulative, counted>>
timerVars == <<timers, timers_copy>>
locals    == <<idx, sum, last>>
runVars   == <<reporting, left, released, printing, interrupted, spinlock, unfinished>>
vars == <<opt, workVars, histogram, totals, timerVars, rpc, locals, runVars, closed>>

Init ==
  /\ opt \in Options
  /\ wpc = [w \in Workers |-> "idle"]
  /\ begun = [w \in Workers |-> 0]
  /\ counters = [w \in Workers |-> 0]
  /\ timers = [w \in Workers |-> [start |-> 0, end |-> 0, events |-> {}]]
  /\ timers_copy = timers
  /\ last_intermediate = 0 /\ last_cumulative = 0 /\ counted = 0
  /\ interm_slots = [s \in 1..NSlots |-> {}]
  /\ temp_array = {} /\ cumulative_array = {} /\ cumulative_nevents = 0 /\ lock = "none"
  /\ reporting = opt.report /\ left = opt.checkpoints /\ released = FALSE /\ printing = FALSE
  /\ interrupted = "none" /\ spinlock = FALSE /\ unfinished = {}
  /\ rpc = [r \in Reporters |->
              CASE r = "main"   -> IF opt.warmup THEN "count" ELSE "start"
                [] r = "report" -> IF opt.report THEN "barrier" ELSE "off"
                [] r = "checkpoints" -> IF opt.checkpoints > 0 THEN "barrier" ELSE "off"
                [] OTHER        -> "off"]
  /\ idx = [r \in Reporters |-> 1]
  /\ sum = [r \in Reporters |-> 0] /\ last = sum
  /\ closed = [timer |-> {}, histogram |-> {}]

(* A thread runs unless the handler runs on top of it; exit ends them all. *)
Runs(t) == interrupted # t /\ rpc["handler"] # "exit"

-----------------------------------------------------------------------------
(* A worker: sb_event_start, and the three steps of sb_event_stop.         *)

(* The events that have begun; the model stops at MaxEvents of them.       *)
Begun == {e \in Events : e[2] <= begun[e[1]]}

WorkStep(w, from, to) ==
  /\ Runs(w) /\ wpc[w] = from
  /\ wpc' = [wpc EXCEPT ![w] = to]
  /\ UNCHANGED <<opt, totals, timers_copy, temp_array, cumulative_array, cumulative_nevents,
                 lock, rpc, locals, runVars, closed>>

StartTimer(w) ==
  /\ Cardinality(Begun) < MaxEvents
  /\ begun' = [begun EXCEPT ![w] = @ + 1]
  /\ timers' = [timers EXCEPT ![w].start = 2 * begun'[w] - 1]
  /\ WorkStep(w, "idle", "running")
  /\ UNCHANGED <<counters, interm_slots>>

StopTimer(w) ==
  /\ timers' = [timers EXCEPT ![w].end = 2 * begun[w], ![w].events = @ \cup {begun[w]}]
  /\ WorkStep(w, "running", "stopped")
  /\ UNCHANGED <<begun, counters, interm_slots>>

UpdateHistogram(w) ==
  /\ \E s \in 1..NSlots : interm_slots' = [interm_slots EXCEPT ![s] = @ \cup {<<w, begun[w]>>}]
  /\ WorkStep(w, "stopped", "recorded")
  /\ UNCHANGED <<begun, counters, timers>>

CountEvent(w) ==
  /\ counters' = [counters EXCEPT ![w] = @ + 1]
  /\ WorkStep(w, "recorded", "idle")
  /\ UNCHANGED <<begun, timers, interm_slots>>

EndWorker(w) ==
  /\ WorkStep(w, "idle", "ended")
  /\ UNCHANGED <<begun, counters, timers, interm_slots>>

-----------------------------------------------------------------------------
(* What reporters do.  From(r, here, to): reporter r goes from here to to. *)

From(r, here, to) == /\ Runs(r) /\ rpc[r] = here
                     /\ rpc' = [rpc EXCEPT ![r] = to]
                     /\ UNCHANGED <<opt, workVars>>

Restart(r) == idx' = [idx EXCEPT ![r] = 1] /\ sum' = [sum EXCEPT ![r] = 0]

(* Mutant: the loop runs one round too many. *)
LoopPastTheEnd(r, here, len, after) ==
  /\ From(r, here, IF idx[r] = len + 1 THEN after ELSE here)
  /\ idx' = [idx EXCEPT ![r] = IF @ = len + 1 THEN 1 ELSE @ + 1]

(* One round of a loop of len rounds; the last one leads to after.         *)
Loop(r, here, len, after) ==
  /\ From(r, here, IF idx[r] = len THEN after ELSE here)
  /\ idx' = [idx EXCEPT ![r] = IF @ = len THEN 1 ELSE @ + 1]

(* sb_counters_merge reads one worker's counter after the other.           *)
MergeCounters(r) ==
  /\ Loop(r, "count", Len(threads), "last")
  /\ sum' = [sum EXCEPT ![r] = @ + counters[threads[idx[r]]]]
  /\ UNCHANGED <<histogram, totals, timerVars, last, closed, runVars>>

(* sb_counters_checkpoint reads the last total and then replaces it.       *)
ReadLast(r) ==
  /\ From(r, "last", "replace")
  /\ last' = [last EXCEPT ![r] = IF r = "report" THEN last_intermediate ELSE last_cumulative]
  /\ UNCHANGED <<histogram, totals, timerVars, idx, sum, closed, runVars>>

(* Mutant: the total is not kept for the next report. *)
ReplaceLastForgotten(r) ==
  /\ From(r, "replace", "lock")
  /\ counted' = IF r = "report" THEN counted ELSE counted + sum[r] - last[r]
  /\ last' = [last EXCEPT ![r] = 0]
  /\ Restart(r)
  /\ UNCHANGED <<last_intermediate, last_cumulative, histogram, timerVars, closed, runVars>>

ReplaceLast(r) ==
  /\ From(r, "replace", "lock")
  /\ IF r = "report"
       THEN last_intermediate' = sum[r] /\ UNCHANGED <<last_cumulative, counted>>
       ELSE /\ last_cumulative' = sum[r] /\ UNCHANGED last_intermediate
            /\ counted' = counted + sum[r] - last[r]
  /\ last' = [last EXCEPT ![r] = 0]
  /\ Restart(r)
  /\ UNCHANGED <<histogram, timerVars, closed, runVars>>

(* A thread that has the lock is refused it a second time (EDEADLK) and    *)
(* goes on all the same; the handler runs in the thread it interrupts.     *)
Lock(r) ==
  /\ From(r, "lock", "slots")
  /\ lock \in {"none", r} \/ (r = "handler" /\ lock = interrupted)
  /\ lock' = IF lock = "none" THEN r ELSE lock
  /\ UNCHANGED <<interm_slots, temp_array, cumulative_array, cumulative_nevents,
                 totals, timerVars, locals, closed, runVars>>

(* The report thread collects in temp_array, the others add to             *)
(* cumulative_array.                                                       *)
FetchSlot(r) ==
  LET fetched == interm_slots[idx[r]]
      before  == IF idx[r] > 1 THEN sum[r] ELSE IF r = "report" THEN 0 ELSE cumulative_nevents
  IN  /\ Loop(r, "slots", NSlots, IF r = "report" THEN "add" ELSE "nevents")
      /\ interm_slots' = [interm_slots EXCEPT ![idx[r]] = {}]
      /\ sum' = [sum EXCEPT ![r] = before + Cardinality(fetched)]
      /\ IF r = "report"
           THEN /\ temp_array' = fetched \cup (IF idx[r] > 1 THEN temp_array ELSE {})
                /\ UNCHANGED cumulative_array
           ELSE /\ cumulative_array' = cumulative_array \cup fetched
                /\ UNCHANGED temp_array
      /\ UNCHANGED <<cumulative_nevents, lock, totals, timerVars, last, closed, runVars>>

(* Mutant: the temporary array replaces the cumulative one. *)
AddToCumulativeReplaces ==
  /\ From("report", "add", "add_nevents")
  /\ cumulative_array' = temp_array
  /\ UNCHANGED <<interm_slots, temp_array, cumulative_nevents, lock, totals, timerVars,
                 locals, closed, runVars>>

(* sb_histogram_get_pct_intermediate, after the percentile of temp_array.  *)
AddToCumulative ==
  /\ From("report", "add", "add_nevents")
  /\ cumulative_array' = cumulative_array \cup temp_array
  /\ UNCHANGED <<interm_slots, temp_array, cumulative_nevents, lock, totals, timerVars,
                 locals, closed, runVars>>

AddNevents ==
  /\ From("report", "add_nevents", "unlock")
  /\ cumulative_nevents' = cumulative_nevents + sum["report"]
  /\ Restart("report")
  /\ UNCHANGED <<interm_slots, temp_array, cumulative_array, lock, totals, timerVars,
                 last, closed, runVars>>

(* The end of merge_intermediate_into_cumulative. *)
StoreNevents(r) ==
  /\ From(r, "nevents", IF r = "main" /\ printing THEN "print" ELSE "percentile")
  /\ cumulative_nevents' = sum[r]
  /\ Restart(r)
  /\ UNCHANGED <<interm_slots, temp_array, cumulative_array, lock, totals, timerVars,
                 last, closed, runVars>>

(* sb_histogram_get_pct_checkpoint: the percentile, and the reset.         *)
ResetArray(r) ==
  /\ From(r, "percentile", "reset")
  /\ closed' = [closed EXCEPT !.histogram = @ \cup cumulative_array]
  /\ cumulative_array' = {}
  /\ UNCHANGED <<interm_slots, temp_array, cumulative_nevents, lock, totals, timerVars,
                 locals, runVars>>

(* Mutant: the number of events is not reset with the array. *)
ResetNeventsForgotten(r) ==
  /\ From(r, "reset", "unlock")
  /\ UNCHANGED <<histogram, totals, timerVars, locals, closed, runVars>>

ResetNevents(r) ==
  /\ From(r, "reset", "unlock")
  /\ cumulative_nevents' = 0
  /\ UNCHANGED <<interm_slots, temp_array, cumulative_array, lock, totals, timerVars,
                 locals, closed, runVars>>

(* sb_histogram_print keeps the lock if there is nothing to print.         *)
PrintHistogram ==
  /\ From("main", "print", IF cumulative_array = {} THEN "count" ELSE "unlock")
  /\ printing' = (cumulative_array # {})
  /\ UNCHANGED <<histogram, totals, timerVars, locals, closed,
                 reporting, left, released, interrupted, spinlock, unfinished>>

(* Mutant: the lock is kept. *)
UnlockForgotten(r) ==
  /\ From(r, "unlock", IF r = "report" THEN "sleep"
                       ELSE IF r = "main" /\ printing THEN "count" ELSE "timers")
  /\ printing' = (printing /\ r # "main")
  /\ UNCHANGED <<histogram, totals, timerVars, locals, closed,
                 reporting, left, released, interrupted, spinlock, unfinished>>

Unlock(r) ==
  /\ From(r, "unlock", IF r = "report" THEN "sleep"
                       ELSE IF r = "main" /\ printing THEN "count" ELSE "timers")
  /\ lock' = "none"
  /\ printing' = (printing /\ r # "main")
  /\ UNCHANGED <<interm_slots, temp_array, cumulative_array, cumulative_nevents, totals,
                 timerVars, locals, closed,
                 reporting, left, released, interrupted, spinlock, unfinished>>

(* Where a reporter goes after checkpoint(). *)
Checkpointed(r) == CASE r = "main"        -> IF released THEN "done" ELSE "start"
                     [] r = "checkpoints" -> "sleep"
                     [] r = "handler"     -> "unfinished"

(* sb_timer_checkpoint, under the timer's spinlock.  start and end stay.   *)
(* Mutant: the timer is copied, and not reset. *)
CopyTimerOnly(r) ==
  LET w == threads[idx[r]]
  IN  /\ Loop(r, "timers", Len(threads), Checkpointed(r))
      /\ timers_copy' = [timers_copy EXCEPT ![w] = timers[w]]
      /\ closed' = [closed EXCEPT !.timer = @ \cup ({w} \X timers[w].events)]
      /\ UNCHANGED <<timers, histogram, totals, sum, last, runVars>>

CopyTimer(r) ==
  LET w == threads[idx[r]]
  IN  /\ Loop(r, "timers", Len(threads), Checkpointed(r))
      /\ ~(interrupted = w /\ spinlock)
      /\ timers_copy' = [timers_copy EXCEPT ![w] = timers[w]]
      /\ timers' = [timers EXCEPT ![w].events = {}]
      /\ closed' = [closed EXCEPT !.timer = @ \cup ({w} \X timers[w].events)]
      /\ UNCHANGED <<histogram, totals, sum, last, runVars>>

-----------------------------------------------------------------------------
(* The reporters' own ways.  What they keep while they report is above.    *)

Books == <<histogram, totals, timerVars, locals, closed>>

(* The main thread comes to report_barrier, after the warm-up if any. *)
StartReports ==
  /\ Runs("main") /\ rpc["main"] = "start"
  /\ rpc' = [r \in Reporters |-> IF r = "main" THEN "join"
                                 ELSE IF rpc[r] = "barrier" THEN "late" ELSE rpc[r]]
  /\ released' = TRUE
  /\ UNCHANGED <<opt, workVars, Books,
                 reporting, left, printing, interrupted, spinlock, unfinished>>

RaiseFlag(b) == From(b, "late", "sleep") /\ UNCHANGED <<Books, runVars>>

(* A report falls due; the last checkpoint may be one that is overdue. *)
WakeReport ==
  /\ From("report", "sleep", "count")
  /\ reporting
  /\ UNCHANGED <<Books, runVars>>

WakeCheckpoint ==
  /\ From("checkpoints", "sleep", "count")
  /\ left > 0 /\ left' = left - 1
  /\ UNCHANGED <<Books, reporting, released, printing, interrupted, spinlock, unfinished>>

LastCheckpoint == From("checkpoints", "sleep", "ended") /\ UNCHANGED <<Books, runVars>>

(* Mutant: the workers are not waited for. *)
JoinWorkersNot == From("main", "join", "silence") /\ UNCHANGED <<Books, runVars>>

JoinWorkers ==
  /\ From("main", "join", "silence")
  /\ \A w \in Workers : wpc[w] = "ended"
  /\ UNCHANGED <<Books, runVars>>

(* The interval is reset, and the alarm turned off. *)
Silence ==
  /\ From("main", "silence", "cancel_report")
  /\ reporting' = FALSE
  /\ UNCHANGED <<Books, left, released, printing, interrupted, spinlock, unfinished>>

(* A thread that has not raised its flag is left alone. *)
Cancel(b, here, next) ==
  /\ Runs("main") /\ rpc["main"] = here
  /\ \/ rpc[b] \in {"off", "late"} /\ rpc' = [rpc EXCEPT !["main"] = next]
     \/ /\ rpc[b] \in {"sleep", "ended"} /\ interrupted # b
        /\ rpc' = [rpc EXCEPT !["main"] = next, ![b] = "joined"]
  /\ UNCHANGED <<opt, workVars, Books>>

CancelReport == /\ Cancel("report", "cancel_report", "cancel_checkpoints")
                /\ UNCHANGED runVars

CancelCheckpoints ==
  /\ Cancel("checkpoints", "cancel_checkpoints", IF opt.histogram THEN "lock" ELSE "count")
  /\ printing' = opt.histogram
  /\ UNCHANGED <<reporting, left, released, interrupted, spinlock, unfinished>>

(* SIGALRM comes to a thread of the process; to a worker perhaps before it *)
(* unlocks the timer that it has just started or stopped.                  *)
Alive(t) == \/ t \in Workers /\ wpc[t] # "ended"
            \/ t = "main"
            \/ t \in Background /\ rpc[t] \notin {"off", "ended", "joined"}

ForcedShutdown ==
  /\ opt.force /\ interrupted = "none"
  /\ ~released \/ rpc["main"] \in {"join", "silence"}
  /\ \E t \in Workers \cup {"main"} \cup Background : Alive(t) /\ interrupted' = t
  /\ spinlock' \in (IF interrupted' \in Workers /\ wpc[interrupted'] \in {"running", "stopped"}
                     THEN BOOLEAN ELSE {FALSE})
  /\ rpc' = [rpc EXCEPT !["handler"] = "count"]
  /\ UNCHANGED <<opt, workVars, Books, reporting, left, released, printing, unfinished>>

(* Mutant: the operands of the difference are swapped. *)
TimerRunningSwapped(t) == t.end > t.start

(* TIMESPEC_DIFF is unsigned: it is positive unless both times are equal.  *)
TimerRunning(t) == t.start # t.end

CountUnfinished ==
  /\ From("handler", "unfinished", "exit")
  /\ unfinished' = {w \in Workers : TimerRunning(timers_copy[w])}
  /\ UNCHANGED <<Books, reporting, left, released, printing, interrupted, spinlock>>

-----------------------------------------------------------------------------
Worker(w) == \/ StartTimer(w) \/ StopTimer(w) \/ UpdateHistogram(w)
             \/ CountEvent(w) \/ EndWorker(w)

Aggregate(r) == MergeCounters(r) \/ ReadLast(r) \/ ReplaceLast(r)

Checkpoint(r) == \/ Aggregate(r) \/ Lock(r) \/ FetchSlot(r) \/ StoreNevents(r)
                 \/ ResetArray(r) \/ ResetNevents(r) \/ Unlock(r) \/ CopyTimer(r)

Intermediate == \/ Aggregate("report") \/ Lock("report") \/ FetchSlot("report")
                \/ AddToCumulative \/ AddNevents \/ Unlock("report")

Report      == RaiseFlag("report") \/ WakeReport \/ Intermediate
Checkpoints == RaiseFlag("checkpoints") \/ WakeCheckpoint \/ Checkpoint("checkpoints")
                 \/ LastCheckpoint
Main        == Checkpoint("main") \/ StartReports \/ JoinWorkers \/ Silence
                 \/ CancelReport \/ CancelCheckpoints \/ PrintHistogram
Handler     == Checkpoint("handler") \/ CountUnfinished

Next == \/ \E w \in Workers : Worker(w)
        \/ Main \/ Report \/ Checkpoints \/ ForcedShutdown \/ Handler

Spec == Init /\ [][Next]_vars

(* Runnable threads are scheduled.  Reporters sleep between their reports, *)
(* so that whoever waits for the histogram's lock gets it in the end.      *)
FairSpec ==
  /\ Spec
  /\ \A w \in Workers : WF_vars(Worker(w))
  /\ WF_vars(Main) /\ WF_vars(Report) /\ WF_vars(Checkpoints) /\ WF_vars(Handler)
  /\ \A r \in Reporters : SF_vars(Lock(r))
  /\ SF_vars(CancelReport) /\ SF_vars(CancelCheckpoints)

-----------------------------------------------------------------------------
WorkerPoints == {"idle", "running", "stopped", "recorded", "ended"}
ReporterPoints ==
  {"off", "barrier", "late", "sleep", "ended", "joined", "start", "join", "silence",
   "cancel_report", "cancel_checkpoints", "count", "last", "replace", "lock", "slots", "add",
   "add_nevents", "nevents", "percentile", "reset", "print", "unlock", "timers",
   "unfinished", "exit", "done"}
Timer == [start : 0..(2 * MaxEvents), end : 0..(2 * MaxEvents), events : SUBSET (1..MaxEvents)]

(* The types; the loops stay inside the arrays they run over.              *)
TypeOK ==
  /\ opt \in Options
  /\ wpc \in [Workers -> WorkerPoints]
  /\ begun \in [Workers -> 0..MaxEvents] /\ counters \in [Workers -> 0..MaxEvents]
  /\ timers \in [Workers -> Timer] /\ timers_copy \in [Workers -> Timer]
  /\ last_intermediate \in Nat /\ last_cumulative \in Nat /\ counted \in Int
  /\ interm_slots \in [1..NSlots -> SUBSET Events]
  /\ temp_array \subseteq Events /\ cumulative_array \subseteq Events
  /\ cumulative_nevents \in Nat
  /\ lock \in Reporters \cup {"none"}
  /\ left \in 0..MaxCheckpoints
  /\ reporting \in BOOLEAN /\ released \in BOOLEAN /\ printing \in BOOLEAN
  /\ rpc \in [Reporters -> ReporterPoints]
  /\ \A r \in Reporters : /\ rpc[r] \in {"count", "timers"} => idx[r] \in 1..Len(threads)
                          /\ rpc[r] = "slots" => idx[r] \in 1..NSlots
  /\ sum \in [Reporters -> Nat] /\ last \in [Reporters -> Nat]
  /\ interrupted \in Workers \cup Reporters \cup {"none"}
  /\ spinlock \in BOOLEAN /\ unfinished \subseteq Workers
  /\ closed \in [timer : SUBSET Events, histogram : SUBSET Events]

(* Every finished event goes into the sums of exactly one checkpoint,      *)
(* whichever threads take checkpoints and whenever.                        *)
TimersBooked == INSTANCE EventLedger WITH
  open <- UNION {{w} \X timers[w].events : w \in Workers},
  closed <- closed.timer

EveryTimeReportedOnce == TimersBooked!Spec

(* No latency is lost from the histogram, or seen by two checkpoints,      *)
(* between the workers' lock-free updates, the report thread's temporary   *)
(* array and the checkpoints.                                              *)
Collected == IF rpc["report"] = "add" \/ (rpc["report"] = "slots" /\ idx["report"] > 1)
               THEN temp_array ELSE {}

HistogramBooked == INSTANCE EventLedger WITH
  open <- (UNION Range(interm_slots)) \cup Collected \cup cumulative_array,
  closed <- closed.histogram

EveryLatencyReportedOnce == HistogramBooked!Spec

(* A percentile is taken over as many events as the array holds, so that   *)
(* the search for it ends inside the array; except in a handler that       *)
(* interrupts a thread with the histogram's lock and goes on without.      *)
PercentileFits ==
  /\ \A r \in Reporters : (rpc[r] = "percentile" /\ lock = r /\ interrupted # r)
       => cumulative_nevents = Cardinality(cumulative_array)
  /\ rpc["report"] = "add" => sum["report"] = Cardinality(temp_array)

(* A checkpoint counts no event whose time is not in its own sums, or in   *)
(* those of an earlier one: the workers book in the opposite order to the  *)
(* checkpoint's reading.                                                   *)
InCheckpoint(r) == rpc[r] \in {"lock", "slots", "nevents", "percentile", "reset", "unlock",
                               "timers"}

(* A checkpoint thread that run_test did not cancel. *)
LeftAlone == /\ released /\ rpc["main"] \notin {"join", "silence", "cancel_report",
                                              "cancel_checkpoints"}
             /\ rpc["checkpoints"] \notin {"off", "late", "joined"}

CountedIsTimed ==
  (interrupted = "none" /\ ~LeftAlone /\ \A r \in Reporters \ {"report"} : ~InCheckpoint(r)) =>
    counted <= Cardinality(closed.timer) /\ counted <= Cardinality(closed.histogram)

(* When the final report is out, no checkpoint thread was left alone and   *)
(* no alarm came, the three books agree on what the workers did.           *)
FinalBooksAgree ==
  (rpc["main"] = "done" /\ interrupted = "none" /\ ~LeftAlone) =>
    /\ closed.timer = {e \in Events : e[2] <= counters[e[1]]}
    /\ closed.histogram = closed.timer
    /\ counted = Cardinality(closed.timer)

(* A forced shutdown loses no transaction: one that a worker had begun by  *)
(* the time its timer was copied is in a checkpoint's sums, or the worker  *)
(* is counted among those that have not finished.                          *)
UnfinishedComplete ==
  rpc["handler"] = "exit" =>
    \A e \in Events : 2 * e[2] - 1 <= timers_copy[e[1]].start =>
                        e \in closed.timer \/ e[1] \in unfinished

(* The final report is made: no lock of the histogram is waited for in     *)
(* vain, although sb_histogram_print may keep it; except in a handler that *)
(* interrupts a worker with its timer's spinlock, and spins on it forever. *)
FinalReportMade ==
  <>(rpc["main"] = "done" \/ rpc["handler"] = "exit"
       \/ spinlock)

(* sysbench.c of the forced shutdown: "print a counter of still running    *)
(* transactions".                                                          *)
UnfinishedAreRunning ==
  \A w \in unfinished : timers_copy[w].start > timers_copy[w].end
=============================================================================
