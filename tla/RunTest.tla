------------------------------- MODULE RunTest -------------------------------
(***************************************************************************)
(* The life of a benchmark run: run_test of sysbench.c in the main thread, *)
(* the workers (worker_thread), the three background threads (intermediate *)
(* reports, event generator, checkpoint reports) and the SIGALRM handlers. *)
(*                                                                         *)
(* Each barrier is the rendezvous that module SbBarrier shows sb_barrier.c *)
(* to implement: all threads leave it in one step.  What goes on between   *)
(* workers and generator during the run is the subject of EventQueue; here *)
(* a worker runs, and sometimes holds the spinlock of its timer.           *)
(***************************************************************************)
EXTENDS Naturals, Sequences, FiniteSets, Functions

CONSTANTS threads,    \* the array of worker threads, joined in this order
          Options     \* the command lines this module tells apart

Workers    == Range(threads)
Background == {"report", "eventgen", "checkpoints"}   \* in the order of creation
Reporters  == {"report", "checkpoints"}               \* use report_barrier

(* Which background threads are wanted; whether Lua hooks can fail in the  *)
(* reporting threads; --warmup-time, --thread-init-timeout and             *)
(* --forced-shutdown.                                                      *)
OptionNames == Background \cup {"lua", "warmup", "initTimeout", "force"}

ASSUME RunAssumption ==
  /\ threads \in Seq(Workers) /\ threads # <<>> /\ IsInjective(threads)
  /\ Workers \cap (Background \cup {"main", "none"}) = {}
  /\ Options \subseteq [OptionNames -> BOOLEAN]

VARIABLES
  opt,              \* the options of this run
  exit,             \* how the process ended, "no" while it runs
  error,            \* sb_globals.error
  reporting,        \* sb_globals.report_interval is not 0
  threads_running,  \* sb_globals.threads_running
  started,          \* threads_started_callback has started the timers
  reported,         \* the main thread has begun the final report
  alarm,            \* the pending alarm and its handler: "off", "init", "force"
  handler,          \* the thread that runs sigalrm_forced_shutdown_handler
  forced,           \* sb_globals.forced_shutdown_in_progress
  mpc, who,         \* main: its position, the background thread it deals with
  joined,           \* main: how many workers it has joined
  worker, outcome,  \* the workers' positions and what became of them
  bg,               \* the background threads' positions
  created,          \* the flags report_thread_created, ...
  cancelled         \* pthread_cancel has been called

signals  == <<alarm, handler, forced>>
mainVars == <<mpc, who, joined, reported>>
workVars == <<worker, outcome>>
backVars == <<bg, created, cancelled>>
shared   == <<error, reporting, threads_running, started>>
vars == <<opt, exit, shared, signals, mainVars, workVars, backVars>>

Init ==
  /\ opt \in Options
  /\ exit = "no" /\ error = FALSE /\ started = FALSE /\ reported = FALSE
  /\ reporting = opt["report"]
  /\ threads_running = 0 /\ joined = 0
  /\ alarm = "off" /\ handler = "none" /\ forced = FALSE
  /\ mpc = "prepare" /\ who = "report"
  /\ worker = [w \in Workers |-> "none"]
  /\ outcome = [w \in Workers |-> "pending"]
  /\ bg = [b \in Background |-> "none"]
  /\ created = [b \in Background |-> FALSE]
  /\ cancelled = [b \in Background |-> FALSE]

(* A thread takes steps until the process ends or a signal handler runs    *)
(* on top of it.                                                           *)
Runs(t) == exit = "no" /\ handler # t

MainStep    == Runs("main") /\ UNCHANGED <<opt, workVars>>
WorkStep(w) == Runs(w) /\ UNCHANGED <<opt, exit, reporting, threads_running, started,
                                      signals, mainVars, backVars>>
BackStep(b) == Runs(b) /\ UNCHANGED <<opt, exit, reporting, threads_running, started,
                                      signals, mainVars, workVars>>

At(label)   == mpc = label
Goto(label) == mpc' = label

-----------------------------------------------------------------------------
(* The main thread creates the background threads and the workers.         *)

NextThread == [report |-> "eventgen", eventgen |-> "checkpoints", checkpoints |-> "report"]

(* To the next background thread, or past the last one. *)
Advance(here, after) ==
  /\ who' = NextThread[who]
  /\ Goto(IF who = "checkpoints" THEN after ELSE here)

(* The test's init and prepare, and the two barriers. *)
Prepare ==
  /\ MainStep /\ At("prepare")
  /\ Goto("create")
  /\ UNCHANGED <<exit, shared, signals, who, joined, reported, backVars>>

CreateBackground ==
  /\ MainStep /\ At("create")
  /\ bg' = IF opt[who] THEN [bg EXCEPT ![who] = "init"] ELSE bg
  /\ Advance("create", "create_workers")
  /\ UNCHANGED <<exit, shared, signals, joined, reported, created, cancelled>>

CreateWorkers ==
  /\ Runs("main") /\ At("create_workers")
  /\ \E i \in 1..Len(threads) :
       /\ worker[threads[i]] = "none"
       /\ \A j \in 1..(i - 1) : worker[threads[j]] # "none"
       /\ worker' = [worker EXCEPT ![threads[i]] = "init"]
       /\ Goto(IF i = Len(threads) THEN "arm" ELSE "create_workers")
  /\ UNCHANGED <<opt, exit, shared, signals, who, joined, reported, outcome, backVars>>

(* Leave run_test with an error: the process ends whatever is running.     *)
Fail == /\ exit' = "failure"
        /\ UNCHANGED <<shared, signals, mainVars, backVars>>

CreationFails ==
  /\ MainStep
  /\ At("prepare") \/ (At("create") /\ opt[who]) \/ At("create_workers")
  /\ Fail

ArmInitTimeout ==
  /\ MainStep /\ At("arm")
  /\ alarm' = IF opt["initTimeout"] THEN "init" ELSE "off"
  /\ Goto("worker_barrier")
  /\ UNCHANGED <<exit, shared, handler, forced, who, joined, reported, backVars>>

(* The last thread at worker_barrier runs threads_started_callback.        *)
AllAtWorkerBarrier ==
  /\ exit = "no" /\ At("worker_barrier")
  /\ \A w \in Workers : worker[w] = "barrier"
  /\ opt["eventgen"] => bg["eventgen"] \in {"barrier", "doomed"}

(* Mutant: the callback does not set the number of running threads. *)
StartsUncounted ==
  /\ AllAtWorkerBarrier /\ ~error
  /\ started' = TRUE
  /\ Goto("started")
  /\ worker' = [w \in Workers |-> IF outcome[w] = "init_failed" THEN "ended" ELSE "run"]
  /\ bg' = [bg EXCEPT !["eventgen"] = CASE @ = "barrier" -> "released"
                                        [] @ = "doomed"  -> "ended"
                                        [] OTHER         -> @]
  /\ UNCHANGED <<opt, exit, error, reporting, threads_running, signals, who, joined,
                 reported, outcome, created, cancelled>>

StartThreads ==
  /\ AllAtWorkerBarrier /\ ~error
  /\ threads_running' = Len(threads)
  /\ started' = TRUE
  /\ Goto("started")
  /\ worker' = [w \in Workers |-> IF outcome[w] = "init_failed" THEN "ended" ELSE "run"]
  /\ bg' = [bg EXCEPT !["eventgen"] = CASE @ = "barrier" -> "released"
                                        [] @ = "doomed"  -> "ended"
                                        [] OTHER         -> @]
  /\ UNCHANGED <<opt, exit, error, reporting, signals, who, joined, reported,
                 outcome, created, cancelled>>

StartFails ==
  /\ AllAtWorkerBarrier /\ error
  /\ Goto("init_failed")
  /\ worker' = [w \in Workers |-> "ended"]
  /\ bg' = IF opt["eventgen"] THEN [bg EXCEPT !["eventgen"] = "ended"] ELSE bg
  /\ UNCHANGED <<opt, exit, shared, signals, who, joined, reported,
                 outcome, created, cancelled>>

InitializationFailed == MainStep /\ At("init_failed") /\ Fail

-----------------------------------------------------------------------------
(* The main thread after the start.                                        *)

ArmForcedShutdown ==
  /\ MainStep /\ At("started")
  /\ alarm' = IF opt["force"] THEN "force" ELSE "off"
  /\ Goto(IF opt["warmup"] THEN "warmup" ELSE "report_barrier")
  /\ UNCHANGED <<exit, shared, handler, forced, who, joined, reported, backVars>>

(* checkpoint() first takes counters and histogram, then each timer with   *)
(* its spinlock.                                                           *)
WarmUp ==
  /\ MainStep
  /\ \/ At("warmup")       /\ Goto("warmup_count")
     \/ At("warmup_count") /\ Goto("warmup_timers")
     \/ At("warmup_timers") /\ Goto("report_barrier")
  /\ UNCHANGED <<exit, shared, signals, who, joined, reported, backVars>>

StartReports ==
  /\ MainStep /\ At("report_barrier")
  /\ \A b \in Reporters : opt[b] => bg[b] = "barrier"
  /\ bg' = [b \in Background |-> IF b \in Reporters /\ opt[b] THEN "released" ELSE bg[b]]
  /\ Goto("join")
  /\ UNCHANGED <<exit, shared, signals, who, joined, reported, created, cancelled>>

JoinWorker ==
  /\ MainStep /\ At("join")
  /\ worker[threads[joined + 1]] = "ended"
  /\ joined' = joined + 1
  /\ threads_running' = threads_running - 1
  /\ Goto(IF joined' = Len(threads) THEN "stop_timers" ELSE "join")
  /\ UNCHANGED <<exit, error, reporting, started, signals, who, reported, backVars>>

(* sb_timer_stop holds the spinlock of the global timer it stops. *)
StopTimers ==
  /\ MainStep /\ At("stop_timers")
  /\ Goto("silence")
  /\ UNCHANGED <<exit, shared, signals, who, joined, reported, backVars>>

(* Mutant: the interval is not reset, and only the cancellation is relied on. *)
LeavesReportsOn ==
  /\ MainStep /\ At("silence")
  /\ Goto("alarm_off")
  /\ UNCHANGED <<exit, shared, signals, who, joined, reported, backVars>>

SilenceReports ==
  /\ MainStep /\ At("silence")
  /\ reporting' = FALSE
  /\ Goto("alarm_off")
  /\ UNCHANGED <<exit, error, threads_running, started, signals, who, joined, reported, backVars>>

AlarmOff ==
  /\ MainStep /\ At("alarm_off")
  /\ alarm' = "off"
  /\ Goto("cleanup")
  /\ UNCHANGED <<exit, shared, handler, forced, who, joined, reported, backVars>>

Cleanup ==
  /\ MainStep /\ At("cleanup")
  /\ Goto("cancel")
  /\ UNCHANGED <<exit, shared, signals, who, joined, reported, backVars>>

CleanupFails == MainStep /\ At("cleanup") /\ Fail

Cancel ==
  /\ MainStep /\ At("cancel") /\ created[who]
  /\ cancelled' = [cancelled EXCEPT ![who] = TRUE]
  /\ Goto("join_background")
  /\ UNCHANGED <<exit, shared, signals, who, joined, reported, bg, created>>

(* A thread that has not raised its flag, or does not exist, is left alone.*)
SkipCancel ==
  /\ MainStep /\ At("cancel") /\ ~created[who]
  /\ Advance("cancel", "result")
  /\ UNCHANGED <<exit, shared, signals, joined, reported, backVars>>

(* Mutant: a cancelled thread is not waited for. *)
DoesNotJoin ==
  /\ MainStep /\ At("join_background")
  /\ Advance("cancel", "result")
  /\ UNCHANGED <<exit, shared, signals, joined, reported, backVars>>

JoinBackground ==
  /\ MainStep /\ At("join_background") /\ bg[who] = "ended"
  /\ Advance("cancel", "result")
  /\ UNCHANGED <<exit, shared, signals, joined, reported, backVars>>

FinalReport ==
  /\ MainStep
  /\ \/ At("result") /\ ~error /\ reported' = TRUE /\ Goto("final_count")
     \/ At("result") /\ error /\ Goto("return") /\ UNCHANGED reported
     \/ At("final_count") /\ Goto("final_timers") /\ UNCHANGED reported
     \/ At("final_timers") /\ Goto("return") /\ UNCHANGED reported
  /\ UNCHANGED <<exit, shared, signals, who, joined, backVars>>

Return ==
  /\ MainStep /\ At("return")
  /\ exit' = IF error THEN "failure" ELSE "success"
  /\ UNCHANGED <<shared, signals, mainVars, backVars>>

-----------------------------------------------------------------------------
(* A worker.                                                               *)

WorkerInit(w) ==
  /\ WorkStep(w) /\ worker[w] = "init"
  /\ worker' = [worker EXCEPT ![w] = "barrier"]
  /\ UNCHANGED <<error, outcome>>

(* Mutants: the error flag is not raised before the barrier; the barrier   *)
(* is left out.                                                            *)
InitFailsUnnoticed(w) ==
  /\ WorkStep(w) /\ worker[w] = "init"
  /\ outcome' = [outcome EXCEPT ![w] = "init_failed"]
  /\ worker' = [worker EXCEPT ![w] = "barrier"]
  /\ UNCHANGED error

InitFailsAndLeaves(w) ==
  /\ WorkStep(w) /\ worker[w] = "init"
  /\ error' = TRUE
  /\ outcome' = [outcome EXCEPT ![w] = "init_failed"]
  /\ worker' = [worker EXCEPT ![w] = "ended"]

(* A failure is made known before the barrier, and the barrier is entered  *)
(* nevertheless.                                                           *)
WorkerInitFails(w) ==
  /\ WorkStep(w) /\ worker[w] = "init"
  /\ error' = TRUE
  /\ outcome' = [outcome EXCEPT ![w] = "init_failed"]
  /\ worker' = [worker EXCEPT ![w] = "barrier"]

(* thread_init, or later the test, may never come back. *)
WorkerHangs(w) ==
  /\ WorkStep(w)
  /\ \/ worker[w] = "init" /\ worker' = [worker EXCEPT ![w] = "init_hangs"]
     \/ worker[w] = "run"  /\ worker' = [worker EXCEPT ![w] = "run_hangs"]
  /\ UNCHANGED <<error, outcome>>

(* sb_timer_start and sb_timer_stop hold the spinlock of the worker's timer. *)
WorkerTimer(w) ==
  /\ WorkStep(w)
  /\ \/ worker[w] = "run"   /\ worker' = [worker EXCEPT ![w] = "timer"]
     \/ worker[w] = "timer" /\ worker' = [worker EXCEPT ![w] = "run"]
  /\ UNCHANGED <<error, outcome>>

WorkerDone(w) ==
  /\ WorkStep(w) /\ worker[w] = "run"
  /\ outcome' = [outcome EXCEPT ![w] = "ok"]
  /\ worker' = [worker EXCEPT ![w] = "ended"]
  /\ UNCHANGED error

(* Mutant: the result of thread_run is dropped. *)
FailsUnnoticed(w) ==
  /\ WorkStep(w) /\ worker[w] = "run"
  /\ outcome' = [outcome EXCEPT ![w] = "failed"]
  /\ worker' = [worker EXCEPT ![w] = "ended"]
  /\ UNCHANGED error

WorkerFails(w) ==
  /\ WorkStep(w) /\ worker[w] = "run"
  /\ error' = TRUE
  /\ outcome' = [outcome EXCEPT ![w] = "failed"]
  /\ worker' = [worker EXCEPT ![w] = "ended"]

-----------------------------------------------------------------------------
(* The background threads.                                                 *)

BackGoto(b, label) == bg' = [bg EXCEPT ![b] = label]

(* Mutant: the reporting threads do not wait for the main thread. *)
StartsReportingAtOnce(b) ==
  /\ BackStep(b) /\ bg[b] = "init"
  /\ BackGoto(b, IF b \in Reporters THEN "released" ELSE "barrier")
  /\ UNCHANGED <<error, created, cancelled>>

BackgroundInit(b) ==
  /\ BackStep(b) /\ bg[b] = "init"
  /\ BackGoto(b, "barrier")
  /\ UNCHANGED <<error, created, cancelled>>

(* A reporting thread returns at once; the generator without its mutex or  *)
(* condition variable still comes to the barrier.                          *)
BackgroundInitFails(b) ==
  /\ BackStep(b) /\ bg[b] = "init"
  /\ \/ b \in Reporters /\ opt["lua"] /\ BackGoto(b, "failed")
     \/ b = "eventgen" /\ BackGoto(b, "doomed")
  /\ UNCHANGED <<error, created, cancelled>>

RaiseFlag(b) ==
  /\ BackStep(b) /\ bg[b] = "released"
  /\ created' = [created EXCEPT ![b] = TRUE]
  /\ BackGoto(b, "sleep")
  /\ UNCHANGED <<error, cancelled>>

(* report_intermediate looks at report_interval first. *)
Report ==
  /\ BackStep("report")
  /\ \/ bg["report"] = "sleep" /\ ~cancelled["report"] /\ reporting /\ BackGoto("report", "report")
     \/ bg["report"] = "report" /\ BackGoto("report", "sleep")
  /\ UNCHANGED <<error, created, cancelled>>

CheckpointReport ==
  /\ BackStep("checkpoints")
  /\ \/ bg["checkpoints"] = "sleep" /\ ~cancelled["checkpoints"] /\ BackGoto("checkpoints", "count")
     \/ bg["checkpoints"] = "count" /\ BackGoto("checkpoints", "timers")
     \/ bg["checkpoints"] = "timers" /\ BackGoto("checkpoints", "sleep")
  /\ UNCHANGED <<error, created, cancelled>>

(* The last checkpoint is done, or the generator sees the time limit. *)
BackgroundEnds(b) ==
  /\ BackStep(b) /\ b # "report" /\ bg[b] = "sleep"
  /\ BackGoto(b, "ended")
  /\ UNCHANGED <<error, created, cancelled>>

GeneratorFails ==
  /\ BackStep("eventgen") /\ bg["eventgen"] = "sleep"
  /\ error' = TRUE
  /\ BackGoto("eventgen", "ended")
  /\ UNCHANGED <<created, cancelled>>

(* nanosleep is where a cancellation takes effect. *)
BackgroundCancelled(b) ==
  /\ BackStep(b) /\ bg[b] = "sleep" /\ cancelled[b]
  /\ BackGoto(b, "ended")
  /\ UNCHANGED <<error, created, cancelled>>

-----------------------------------------------------------------------------
(* SIGALRM.                                                                *)

InitTimeout ==
  /\ exit = "no" /\ alarm = "init"
  /\ exit' = "timeout"
  /\ UNCHANGED <<opt, shared, signals, mainVars, workVars, backVars>>

Alive(t) == \/ t = "main"
            \/ t \in Workers /\ worker[t] \notin {"none", "ended"}
            \/ t \in Background /\ bg[t] \notin {"none", "ended", "failed"}

(* The signal is delivered to any thread of the process. *)
ForcedShutdown ==
  /\ exit = "no" /\ alarm = "force"
  /\ \E t \in {"main"} \cup Workers \cup Background : Alive(t) /\ handler' = t
  /\ alarm' = "off"
  /\ forced' = TRUE
  /\ UNCHANGED <<opt, exit, shared, mainVars, workVars, backVars>>

(* The spinlocks that the handler's own thread holds beneath it. *)
HoldsSpinlock(t) == \/ t = "main" /\ mpc \in {"warmup_timers", "stop_timers", "final_timers"}
                    \/ t \in Workers /\ worker[t] = "timer"
                    \/ t = "checkpoints" /\ bg[t] = "timers"

HandlerStuck == handler # "none" /\ HoldsSpinlock(handler)

HandlerExits ==
  /\ exit = "no" /\ handler # "none" /\ ~HandlerStuck
  /\ exit' = "forced"
  /\ UNCHANGED <<opt, shared, signals, mainVars, workVars, backVars>>

(* The handler writes to the log, which is a cancellation point as well. *)
HandlerCancelled ==
  /\ exit = "no" /\ ~HandlerStuck
  /\ handler \in Background /\ cancelled[handler]
  /\ BackGoto(handler, "ended")
  /\ handler' = "none"
  /\ UNCHANGED <<opt, exit, shared, alarm, forced, mainVars, workVars, created, cancelled>>

-----------------------------------------------------------------------------
Main == \/ Prepare \/ CreateBackground \/ CreateWorkers \/ CreationFails \/ ArmInitTimeout
        \/ StartThreads \/ StartFails \/ InitializationFailed \/ ArmForcedShutdown
        \/ WarmUp \/ StartReports \/ JoinWorker \/ StopTimers \/ SilenceReports
        \/ AlarmOff \/ Cleanup \/ CleanupFails \/ Cancel \/ SkipCancel
        \/ JoinBackground \/ FinalReport \/ Return

InitEnds(w) == WorkerInit(w) \/ WorkerInitFails(w)
RunEnds(w)  == WorkerDone(w) \/ WorkerFails(w)
Worker(w)   == InitEnds(w) \/ WorkerTimer(w) \/ RunEnds(w) \/ WorkerHangs(w)

Thread(b) == BackgroundInit(b) \/ BackgroundInitFails(b) \/ RaiseFlag(b)
               \/ BackgroundEnds(b) \/ BackgroundCancelled(b)
BackgroundSteps == \/ \E b \in Background : Thread(b)
                   \/ Report \/ CheckpointReport \/ GeneratorFails

Signal == InitTimeout \/ ForcedShutdown \/ HandlerExits \/ HandlerCancelled

Next == \/ Main \/ BackgroundSteps \/ Signal
        \/ \E w \in Workers : Worker(w)

Spec == Init /\ [][Next]_vars

(* Runnable threads are scheduled and alarms go off.  A worker that does   *)
(* not hang comes to the end of its run: its loop has a time limit, an     *)
(* event limit or an error (EventQueue), however often it is in a timer.   *)
FairSpec ==
  /\ Spec
  /\ WF_vars(Main) /\ WF_vars(Signal)
  /\ \A w \in Workers : WF_vars(InitEnds(w)) /\ WF_vars(WorkerTimer(w)) /\ SF_vars(RunEnds(w))
  /\ \A b \in Background : WF_vars(Thread(b))
  /\ WF_vars(Report) /\ WF_vars(CheckpointReport)

-----------------------------------------------------------------------------
MainPoints == {"prepare", "create", "create_workers", "arm", "worker_barrier", "init_failed", "started",
               "warmup", "warmup_count", "warmup_timers", "report_barrier", "join",
               "stop_timers", "silence", "alarm_off", "cleanup", "cancel", "join_background",
               "result", "final_count", "final_timers", "return"}
WorkerPoints == {"none", "init", "init_hangs", "barrier", "run", "timer", "run_hangs", "ended"}
BackPoints == {"none", "init", "failed", "barrier", "doomed", "released", "sleep",
               "report", "count", "timers", "ended"}

(* The types; threads_running, an unsigned number, is never counted below  *)
(* zero by the joins.                                                      *)
TypeOK ==
  /\ opt \in Options
  /\ exit \in {"no", "success", "failure", "timeout", "forced"}
  /\ error \in BOOLEAN /\ reporting \in BOOLEAN /\ started \in BOOLEAN
  /\ reported \in BOOLEAN /\ forced \in BOOLEAN
  /\ threads_running \in 0..Len(threads) /\ joined \in 0..Len(threads)
  /\ alarm \in {"off", "init", "force"}
  /\ handler \in {"none", "main"} \cup Workers \cup Background
  /\ mpc \in MainPoints /\ who \in Background
  /\ worker \in [Workers -> WorkerPoints]
  /\ outcome \in [Workers -> {"pending", "init_failed", "ok", "failed"}]
  /\ bg \in [Background -> BackPoints]
  /\ created \in [Background -> BOOLEAN] /\ cancelled \in [Background -> BOOLEAN]

(* The timers start, and the run is measured, only when every worker has   *)
(* been initialised: a worker whose thread_init fails is noticed in time.  *)
StartedMeansReady ==
  started => \A w \in Workers : /\ worker[w] \in {"run", "timer", "run_hangs", "ended"}
                                /\ outcome[w] # "init_failed"

(* Two threads take a checkpoint (the warm-up's, a --report-checkpoints    *)
(* report, the final report) at the same time only in a forced shutdown,   *)
(* or when the checkpoint thread was so late to raise its flag that it was *)
(* not cancelled.                                                          *)
CheckpointsAlone ==
  (~forced /\ bg["checkpoints"] \in {"count", "timers"}) =>
    /\ mpc \notin {"warmup_count", "warmup_timers"}
    /\ mpc \in {"final_count", "final_timers"} => ~cancelled["checkpoints"]

(* No intermediate report is in the making when the final one is: either   *)
(* the report thread was cancelled and joined, or it was so late that it   *)
(* finds report_interval reset.                                            *)
QuietAtTheEnd ==
  mpc \in {"result", "final_count", "final_timers", "return"} => bg["report"] # "report"

(* Exit status 0 means that all threads were started and each worker       *)
(* finished its run without an error.                                      *)
SuccessIsReal ==
  exit = "success" => started /\ \A w \in Workers : outcome[w] = "ok"

(* Whoever sees the final statistics of a run sees a run that succeeds,    *)
(* although error is read again afterwards: no thread is left that could   *)
(* set it, except a generator that was late to raise its flag.             *)
ReportedRunSucceeds ==
  (reported /\ error) => opt["eventgen"] /\ ~cancelled["eventgen"]

(* The run ends, unless something hangs that no alarm watches over, or the *)
(* forced shutdown is itself caught in a spinlock of the thread it         *)
(* interrupted.                                                            *)
Unguarded ==
  \/ ~opt["initTimeout"] /\ \E w \in Workers : worker[w] = "init_hangs"
  \/ ~opt["force"] /\ \/ \E w \in Workers : worker[w] = "run_hangs"
                      \/ \E b \in Reporters : bg[b] = "failed"
  \/ HandlerStuck

RunComesToAnEnd == <>(exit # "no" \/ Unguarded)
=============================================================================
