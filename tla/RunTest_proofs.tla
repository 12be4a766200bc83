---------------------------- MODULE RunTest_proofs ----------------------------
(***************************************************************************)
(* What run_test guarantees for any number of workers and any options.     *)
(*                                                                         *)
(* The invariant behind it: the first joined workers of threads[] have     *)
(* ended and are no longer counted as running; a failure of a worker shows *)
(* in error from the step on in which it happens; and whoever has ended    *)
(* after the start has an outcome.                                         *)
(***************************************************************************)
EXTENDS RunTest, TLAPS

BeforeStart == {"prepare", "create", "create_workers", "arm", "worker_barrier", "init_failed"}
AfterJoin   == {"stop_timers", "silence", "alarm_off", "cleanup", "cancel", "join_background",
                "result", "final_count", "final_timers", "return"}

(* The joins go through threads[] from the front. *)
JoinInv ==
  /\ joined > 0 => started
  /\ started => threads_running = Len(threads) - joined
  /\ mpc \notin AfterJoin => joined < Len(threads)
  /\ mpc \in AfterJoin => joined = Len(threads)
  /\ \A i \in 1..joined : worker[threads[i]] = "ended"

(* Positions of the main thread against those of the workers. *)
StartInv ==
  /\ started = (mpc \notin BeforeStart)
  /\ mpc = "init_failed" => error
  /\ ~started /\ mpc # "init_failed" =>
       \A w \in Workers : worker[w] \in {"none", "init", "init_hangs", "barrier"}
  /\ started => \A w \in Workers : worker[w] \in {"run", "timer", "run_hangs", "ended"}

OutcomeInv ==
  \A w \in Workers :
    /\ outcome[w] \in {"init_failed", "failed"} => error
    /\ outcome[w] = "init_failed" => ~started /\ worker[w] \in {"barrier", "ended"}
    /\ started /\ worker[w] = "ended" => outcome[w] # "pending"

RunInv == JoinInv /\ StartInv /\ OutcomeInv /\ SuccessIsReal

-----------------------------------------------------------------------------
(* The array of threads names every worker. *)
LEMMA ThreadsNameWorkers ==
  /\ threads \in Seq(Workers) /\ Len(threads) \in Nat \ {0}
  /\ \A i \in 1..Len(threads) : threads[i] \in Workers
  /\ \A w \in Workers : \E i \in 1..Len(threads) : threads[i] = w
<1>1. threads \in Seq(Workers) /\ Len(threads) \in Nat \ {0}
  BY RunAssumption
<1>2. DOMAIN threads = 1..Len(threads)
  BY <1>1
<1> QED
  BY <1>1, <1>2 DEF Workers, Range
-----------------------------------------------------------------------------
(* Each step of the main thread keeps the types. *)
LEMMA MainTypes ==
  ASSUME TypeOK, JoinInv, StartInv, Main
  PROVE  TypeOK'
<1> USE ThreadsNameWorkers DEF TypeOK, MainPoints, WorkerPoints, BackPoints, MainStep, Runs, At, Goto,
        Advance, NextThread, Fail, signals, mainVars, workVars, backVars, shared, Background
<1>1. CASE Prepare
  BY <1>1 DEF Prepare
<1>2. CASE CreateBackground
  BY <1>2 DEF CreateBackground
<1>3. CASE CreateWorkers
  BY <1>3, SMTT(60) DEF CreateWorkers
<1>4. CASE CreationFails
  BY <1>4, SMTT(60) DEF CreationFails
<1>5. CASE ArmInitTimeout
  BY <1>5 DEF ArmInitTimeout
<1>6. CASE StartThreads
  BY <1>6 DEF StartThreads, AllAtWorkerBarrier
<1>7. CASE StartFails
  BY <1>7 DEF StartFails, AllAtWorkerBarrier
<1>8. CASE InitializationFailed
  BY <1>8 DEF InitializationFailed
<1>9. CASE ArmForcedShutdown
  BY <1>9 DEF ArmForcedShutdown
<1>10. CASE WarmUp
  BY <1>10 DEF WarmUp
<1>11. CASE StartReports
  BY <1>11 DEF StartReports, Reporters
<1>12. CASE JoinWorker
  <2>1. joined < Len(threads) /\ threads_running = Len(threads) - joined
    BY <1>12 DEF JoinWorker, JoinInv, StartInv, BeforeStart, AfterJoin
  <2>2. joined + 1 \in 0..Len(threads) /\ threads_running - 1 \in 0..Len(threads)
    BY <2>1
  <2>3. mpc' \in MainPoints
    BY <1>12 DEF JoinWorker
  <2> QED
    BY <1>12, <2>2, <2>3 DEF JoinWorker
<1>13. CASE StopTimers
  BY <1>13 DEF StopTimers
<1>14. CASE SilenceReports
  BY <1>14 DEF SilenceReports
<1>15. CASE AlarmOff
  BY <1>15 DEF AlarmOff
<1>16. CASE Cleanup
  BY <1>16 DEF Cleanup
<1>17. CASE CleanupFails
  BY <1>17, SMTT(60) DEF CleanupFails
<1>18. CASE Cancel
  BY <1>18 DEF Cancel
<1>19. CASE SkipCancel
  BY <1>19 DEF SkipCancel
<1>20. CASE JoinBackground
  BY <1>20 DEF JoinBackground
<1>21. CASE FinalReport
  <2>1. reported' \in BOOLEAN /\ mpc' \in MainPoints
    BY <1>21 DEF FinalReport
  <2> QED
    BY <1>21, <2>1 DEF FinalReport
<1>22. CASE Return
  BY <1>22 DEF Return
<1> QED
  BY <1>1, <1>2, <1>3, <1>4, <1>5, <1>6, <1>7, <1>8, <1>9, <1>10, <1>11, <1>12, <1>13, <1>14, <1>15, <1>16, <1>17, <1>18, <1>19, <1>20, <1>21, <1>22 DEF Main

(* Each step of a worker, of a background thread or of a signal keeps them.*)
LEMMA OtherTypes ==
  ASSUME TypeOK, BackgroundSteps \/ Signal \/ \E w \in Workers : Worker(w)
  PROVE  TypeOK'
<1> USE DEF TypeOK, WorkerPoints, BackPoints, WorkStep, BackStep, Runs, BackGoto,
        signals, mainVars, workVars, backVars, shared, Background
<1>1. ASSUME NEW w \in Workers, Worker(w) PROVE TypeOK'
  <2>1. CASE InitEnds(w)
    BY <1>1, <2>1 DEF InitEnds, WorkerInit, WorkerInitFails
  <2>2. CASE WorkerTimer(w)
    BY <1>1, <2>2 DEF WorkerTimer
  <2>3. CASE RunEnds(w)
    BY <1>1, <2>3 DEF RunEnds, WorkerDone, WorkerFails
  <2>4. CASE WorkerHangs(w)
    BY <1>1, <2>4 DEF WorkerHangs
  <2> QED
    BY <1>1, <2>1, <2>2, <2>3, <2>4 DEF Worker
<1>2. ASSUME NEW b \in Background, Thread(b) PROVE TypeOK'
  <2>1. CASE BackgroundInit(b) \/ BackgroundInitFails(b)
    BY <2>1 DEF BackgroundInit, BackgroundInitFails
  <2>2. CASE RaiseFlag(b)
    BY <2>2 DEF RaiseFlag
  <2>3. CASE BackgroundEnds(b) \/ BackgroundCancelled(b)
    BY <2>3 DEF BackgroundEnds, BackgroundCancelled
  <2> QED
    BY <1>2, <2>1, <2>2, <2>3 DEF Thread
<1>3. CASE Report
  BY <1>3 DEF Report
<1>4. CASE CheckpointReport
  BY <1>4 DEF CheckpointReport
<1>5. CASE GeneratorFails
  BY <1>5 DEF GeneratorFails
<1>6. CASE InitTimeout
  BY <1>6 DEF InitTimeout
<1>7. CASE ForcedShutdown
  BY <1>7 DEF ForcedShutdown
<1>8. CASE HandlerExits
  BY <1>8 DEF HandlerExits
<1>9. CASE HandlerCancelled
  BY <1>9 DEF HandlerCancelled
<1> QED
  BY <1>1, <1>2, <1>3, <1>4, <1>5, <1>6, <1>7, <1>8, <1>9 DEF BackgroundSteps, Signal

-----------------------------------------------------------------------------
(* Each step of the main thread preserves the invariant. *)
LEMMA MainInv ==
  ASSUME TypeOK, RunInv, Main
  PROVE  RunInv'
<1> USE ThreadsNameWorkers DEF TypeOK, RunInv, JoinInv, StartInv, OutcomeInv, SuccessIsReal,
        BeforeStart, AfterJoin, MainStep, Runs, At, Goto, Advance, Fail,
        signals, mainVars, workVars, backVars, shared
<1>1. CASE Prepare
  BY <1>1 DEF Prepare
<1>2. CASE CreateBackground
  BY <1>2 DEF CreateBackground
<1>3. CASE CreateWorkers
  <2>a. mpc = "create_workers" /\ UNCHANGED <<exit, error, started, joined, outcome>> /\ exit = "no"
    BY <1>3 DEF CreateWorkers
  <2>b. ~started
    BY <2>a
  <2>1. joined = 0 /\ ~started /\ joined' = 0 /\ ~started'
    BY <2>a, <2>b
  <2>2. \A w \in Workers : worker'[w] \in {worker[w], "init"}
    BY <1>3 DEF CreateWorkers
  <2>3. JoinInv' /\ StartInv'
    BY <1>3, <2>1, <2>2 DEF CreateWorkers
  <2>4. OutcomeInv' /\ SuccessIsReal'
    <3>1. \A w \in Workers : worker'[w] = worker[w] \/ worker[w] = "none"
      BY <1>3 DEF CreateWorkers
    <3> QED
      BY <1>3, <2>1, <3>1 DEF CreateWorkers
  <2> QED
    BY <2>3, <2>4
<1>4. CASE CreationFails
  BY <1>4 DEF CreationFails
<1>5. CASE ArmInitTimeout
  BY <1>5 DEF ArmInitTimeout
<1>6. CASE StartThreads
  <2>1. joined = 0 /\ joined' = 0 /\ started' /\ threads_running' = Len(threads)
    BY <1>6 DEF StartThreads, AllAtWorkerBarrier
  <2>2. \A w \in Workers : outcome[w] \notin {"init_failed", "failed"} /\ worker'[w] = "run"
    BY <1>6 DEF StartThreads, AllAtWorkerBarrier
  <2>3. mpc' = "started" /\ UNCHANGED <<exit, error, outcome>> /\ exit = "no"
    BY <1>6 DEF StartThreads, AllAtWorkerBarrier
  <2>4. JoinInv'
    BY <2>1, <2>3
  <2>5. StartInv' /\ OutcomeInv' /\ SuccessIsReal'
    BY <2>1, <2>2, <2>3
  <2> QED
    BY <2>4, <2>5
<1>7. CASE StartFails
  <2>a. mpc = "worker_barrier" /\ UNCHANGED <<started, joined>>
    BY <1>7 DEF StartFails, AllAtWorkerBarrier
  <2>b. ~started
    BY <2>a
  <2>1. joined = 0 /\ joined' = 0 /\ ~started /\ started' = FALSE
    BY <2>a, <2>b
  <2>2. \A w \in Workers : worker'[w] = "ended"
    BY <1>7 DEF StartFails, AllAtWorkerBarrier
  <2>3. mpc' = "init_failed" /\ UNCHANGED <<exit, error, outcome>> /\ exit = "no" /\ error
    BY <1>7 DEF StartFails, AllAtWorkerBarrier
  <2>4. JoinInv'
    BY <2>1, <2>3
  <2>5. StartInv'
    BY <2>1, <2>2, <2>3
  <2>6. OutcomeInv'
    BY <2>1, <2>2, <2>3
  <2>7. SuccessIsReal'
    BY <2>3
  <2> QED
    BY <2>4, <2>5, <2>6, <2>7
<1>8. CASE InitializationFailed
  BY <1>8 DEF InitializationFailed
<1>9. CASE ArmForcedShutdown
  BY <1>9 DEF ArmForcedShutdown
<1>10. CASE WarmUp
  BY <1>10 DEF WarmUp
<1>11. CASE StartReports
  BY <1>11 DEF StartReports
<1>12. CASE JoinWorker
  <2>1. /\ mpc = "join" /\ started /\ joined < Len(threads)
        /\ threads_running = Len(threads) - joined
    BY <1>12 DEF JoinWorker
  <2>2. /\ joined' = joined + 1 /\ threads_running' = threads_running - 1
        /\ worker[threads[joined + 1]] = "ended"
        /\ mpc' = IF joined + 1 = Len(threads) THEN "stop_timers" ELSE "join"
        /\ UNCHANGED <<exit, error, started, worker, outcome>> /\ exit = "no"
    BY <1>12 DEF JoinWorker
  <2>3. \A i \in 1..joined' : worker'[threads[i]] = "ended"
    <3> SUFFICES ASSUME NEW i \in 1..(joined + 1) PROVE worker[threads[i]] = "ended"
      BY <2>2
    <3>1. i \in 1..joined \/ i = joined + 1
      OBVIOUS
    <3> QED
      BY <2>2, <3>1
  <2>4. threads_running' = Len(threads) - joined' /\ joined' > 0 /\ joined' <= Len(threads)
    BY <2>1, <2>2
  <2>5. JoinInv'
    BY <2>1, <2>2, <2>3, <2>4
  <2>6. StartInv' /\ OutcomeInv' /\ SuccessIsReal'
    BY <2>1, <2>2
  <2> QED
    BY <2>5, <2>6
<1>13. CASE StopTimers
  BY <1>13 DEF StopTimers
<1>14. CASE SilenceReports
  BY <1>14 DEF SilenceReports
<1>15. CASE AlarmOff
  BY <1>15 DEF AlarmOff
<1>16. CASE Cleanup
  BY <1>16 DEF Cleanup
<1>17. CASE CleanupFails
  BY <1>17 DEF CleanupFails
<1>18. CASE Cancel
  BY <1>18 DEF Cancel
<1>19. CASE SkipCancel
  BY <1>19 DEF SkipCancel
<1>20. CASE JoinBackground
  BY <1>20 DEF JoinBackground
<1>21. CASE FinalReport
  BY <1>21 DEF FinalReport
<1>22. CASE Return
  BY <1>22 DEF Return
<1> QED
  BY <1>1, <1>2, <1>3, <1>4, <1>5, <1>6, <1>7, <1>8, <1>9, <1>10, <1>11, <1>12, <1>13, <1>14, <1>15, <1>16, <1>17, <1>18, <1>19, <1>20, <1>21, <1>22 DEF Main

(* What a step of worker w leaves alone, and what it does to w.            *)
WorkerFrame(w) ==
  /\ UNCHANGED <<exit, joined, mpc, started, threads_running>> /\ exit = "no"
  /\ error => error'
  /\ \A v \in Workers \ {w} : worker'[v] = worker[v] /\ outcome'[v] = outcome[v]

WorkerEffect(w) ==
  /\ worker[w] \in {"init", "run", "timer"}
  /\ worker[w] = "init" => worker'[w] \in {"barrier", "init_hangs"}
  /\ worker[w] # "init" => worker'[w] \in {"run", "timer", "run_hangs", "ended"}
  /\ outcome'[w] # outcome[w] =>
       /\ outcome'[w] \in {"init_failed", "failed"} => error'
       /\ outcome'[w] = "init_failed" => worker[w] = "init" /\ worker'[w] = "barrier"
       /\ outcome'[w] # "init_failed" => worker'[w] = "ended"
  /\ worker'[w] = "ended" => outcome'[w] \in {"ok", "failed"}

LEMMA WorkerFacts ==
  ASSUME TypeOK, NEW w \in Workers, Worker(w)
  PROVE  WorkerFrame(w) /\ WorkerEffect(w)
<1>1. worker \in [Workers -> WorkerPoints] /\ DOMAIN outcome = Workers
  BY DEF TypeOK
<1> USE <1>1 DEF WorkerFrame, WorkerEffect, WorkStep, Runs, signals, mainVars
<1>2. CASE WorkerInit(w)
  BY <1>2 DEF WorkerInit
<1>3. CASE WorkerInitFails(w)
  BY <1>3 DEF WorkerInitFails
<1>4. CASE WorkerTimer(w)
  BY <1>4 DEF WorkerTimer
<1>5. CASE WorkerDone(w)
  BY <1>5 DEF WorkerDone
<1>6. CASE WorkerFails(w)
  BY <1>6 DEF WorkerFails
<1>7. CASE WorkerHangs(w)
  BY <1>7 DEF WorkerHangs
<1> QED
  BY <1>2, <1>3, <1>4, <1>5, <1>6, <1>7 DEF Worker, InitEnds, RunEnds

LEMMA OtherInv ==
  ASSUME TypeOK, RunInv, BackgroundSteps \/ Signal \/ \E w \in Workers : Worker(w)
  PROVE  RunInv'
<1> USE ThreadsNameWorkers DEF TypeOK, RunInv, JoinInv, StartInv, OutcomeInv, SuccessIsReal,
        BeforeStart, AfterJoin, WorkStep, BackStep, Runs, BackGoto,
        signals, mainVars, workVars, backVars, shared
<1>1. ASSUME NEW w \in Workers, Worker(w) PROVE RunInv'
  <2>1. WorkerFrame(w) /\ WorkerEffect(w)
    BY <1>1, WorkerFacts
  <2> USE DEF WorkerFrame, WorkerEffect
  <2>4. JoinInv'
    <3>1. ASSUME NEW i \in 1..joined PROVE worker'[threads[i]] = "ended"
      <4>1. threads[i] \in Workers /\ worker[threads[i]] = "ended"
        <5>1. i \in 1..Len(threads)
          BY <3>1
        <5> QED
          BY <3>1, <5>1
      <4>2. threads[i] # w
        BY <2>1, <4>1
      <4> QED
        BY <2>1, <4>1, <4>2
    <3> QED
      BY <2>1, <3>1
  <2>5. StartInv'
    BY <2>1
  <2>6. OutcomeInv'
    BY <2>1
  <2> QED
    BY <2>1, <2>4, <2>5, <2>6
<1>2. CASE BackgroundSteps
  <2>1. UNCHANGED <<exit, joined, mpc, started, threads_running, worker, outcome>>
    BY <1>2 DEF BackgroundSteps, Thread, BackgroundInit, BackgroundInitFails, RaiseFlag,
                BackgroundEnds, BackgroundCancelled, Report, CheckpointReport, GeneratorFails
  <2>2. error => error'
    BY <1>2 DEF BackgroundSteps, Thread, BackgroundInit, BackgroundInitFails, RaiseFlag,
                BackgroundEnds, BackgroundCancelled, Report, CheckpointReport, GeneratorFails
  <2>3. JoinInv' /\ SuccessIsReal'
    BY <2>1
  <2>4. StartInv'
    BY <2>1, <2>2
  <2>5. OutcomeInv'
    BY <2>1, <2>2
  <2> QED
    BY <2>3, <2>4, <2>5
<1>3. CASE Signal
  <2>1. /\ UNCHANGED <<error, joined, mpc, started, threads_running, worker, outcome>>
        /\ exit' # "success" \/ exit' = exit
    BY <1>3 DEF Signal, InitTimeout, ForcedShutdown, HandlerExits, HandlerCancelled
  <2>2. JoinInv' /\ SuccessIsReal'
    BY <2>1
  <2>3. StartInv'
    BY <2>1
  <2>4. OutcomeInv'
    BY <2>1
  <2> QED
    BY <2>2, <2>3, <2>4
<1> QED
  BY <1>1, <1>2, <1>3

LEMMA RunInit == Init => TypeOK /\ RunInv
<1> SUFFICES ASSUME Init PROVE TypeOK /\ RunInv
  OBVIOUS
<1>1. TypeOK
  <2>1. reporting \in BOOLEAN
    <3>1. opt \in [OptionNames -> BOOLEAN] /\ reporting = opt["report"]
      BY RunAssumption DEF Init
    <3>2. "report" \in OptionNames
      BY DEF OptionNames, Background
    <3> QED
      BY <3>1, <3>2
  <2>2. worker \in [Workers -> WorkerPoints] /\ bg \in [Background -> BackPoints]
    BY DEF Init, WorkerPoints, BackPoints
  <2>3. /\ outcome \in [Workers -> {"pending", "init_failed", "ok", "failed"}]
        /\ created \in [Background -> BOOLEAN] /\ cancelled \in [Background -> BOOLEAN]
    BY DEF Init
  <2>4. threads_running \in 0..Len(threads) /\ joined \in 0..Len(threads)
    BY ThreadsNameWorkers DEF Init
  <2>5. mpc \in MainPoints /\ who \in Background
    BY DEF Init, MainPoints, Background
  <2> QED
    BY <2>1, <2>2, <2>3, <2>4, <2>5 DEF Init, TypeOK
<1>2. RunInv
  <2>1. JoinInv
    BY ThreadsNameWorkers DEF Init, JoinInv, AfterJoin
  <2>2. StartInv
    BY DEF Init, StartInv, BeforeStart
  <2>3. OutcomeInv /\ SuccessIsReal
    BY DEF Init, OutcomeInv, SuccessIsReal
  <2> QED
    BY <2>1, <2>2, <2>3 DEF RunInv
<1> QED
  BY <1>1, <1>2

LEMMA RunInvariant == Spec => [](TypeOK /\ RunInv)
<1>1. TypeOK /\ RunInv /\ UNCHANGED vars => (TypeOK /\ RunInv)'
  BY DEF TypeOK, RunInv, JoinInv, StartInv, OutcomeInv, SuccessIsReal,
         vars, shared, signals, mainVars, workVars, backVars
<1>2. TypeOK /\ RunInv /\ Next => (TypeOK /\ RunInv)'
  BY MainTypes, OtherTypes, MainInv, OtherInv DEF Next, RunInv
<1> QED
  BY <1>1, <1>2, RunInit, PTL DEF Spec

-----------------------------------------------------------------------------
(* The variables keep their types; no join counts threads_running below 0. *)
THEOREM RunTypeCorrect == Spec => []TypeOK
  BY RunInvariant, PTL

(* The run is started only with every worker initialised.                  *)
THEOREM StartedCorrect == Spec => []StartedMeansReady
<1>1. RunInv => StartedMeansReady
  BY DEF RunInv, StartInv, OutcomeInv, StartedMeansReady
<1> QED
  BY <1>1, RunInvariant, PTL

(* Exit status 0 is returned only when each worker has done its work.      *)
THEOREM SuccessCorrect == Spec => []SuccessIsReal
  BY RunInvariant, PTL DEF RunInv
-----------------------------------------------------------------------------
(* Where the main thread is before it lets the reporting threads go, when  *)
(* it cancels the background threads, and when it is past that.            *)
BeforeReports == BeforeStart \cup {"started", "warmup", "warmup_count", "warmup_timers",
                                   "report_barrier"}
Cancelling    == {"cancel", "join_background"}
Finishing     == {"result", "final_count", "final_timers", "return"}

(* A background thread raises its flag only after it was let go; those for *)
(* reports are let go at report_barrier, the generator at the start.       *)
DormantInv ==
  /\ \A b \in Background : ~opt[b] => bg[b] = "none"
  /\ \A b \in Background : created[b] => bg[b] \in {"sleep", "report", "count", "timers", "ended"}
  /\ \A b \in Background : bg[b] \in {"sleep", "report", "count", "timers"} => created[b]
  /\ mpc \in BeforeStart \ {"init_failed"} =>
       \A b \in Background : bg[b] \in {"none", "init", "failed", "barrier", "doomed"}
  /\ mpc \in BeforeReports =>
       \A b \in Reporters : bg[b] \in {"none", "init", "failed", "barrier"}

(* A thread that was cancelled is waited for until it has ended; a report  *)
(* thread that was not has to find the interval reset.                     *)
CancelInv ==
  /\ \A b \in Background : cancelled[b] =>
       /\ created[b]
       /\ mpc \in Cancelling \cup Finishing
       /\ bg[b] = "ended" \/ (mpc = "join_background" /\ who = b)
  /\ mpc = "join_background" => cancelled[who]
  /\ mpc \notin {"create"} \cup Cancelling => who = "report"
  /\ mpc \in {"alarm_off", "cleanup"} \cup Cancelling \cup Finishing => ~reporting
  /\ mpc \in Finishing \/ (mpc \in Cancelling /\ who # "report") => bg["report"] # "report"

(* The final report is begun without an error.                             *)
ReportInv ==
  /\ reported => mpc \in {"final_count", "final_timers", "return"}
  /\ ReportedRunSucceeds

BackInv == DormantInv /\ CancelInv /\ ReportInv

(* Once the main thread is past the joins, all workers have ended.         *)
LEMMA AllEnded ==
  ASSUME JoinInv, mpc \in AfterJoin
  PROVE  \A w \in Workers : worker[w] = "ended"
BY ThreadsNameWorkers DEF JoinInv

(* Each step of the main thread preserves what is said of the background   *)
(* threads.                                                                *)
LEMMA MainBack ==
  ASSUME TypeOK, RunInv, BackInv, Main
  PROVE  BackInv'
<1> USE DEF TypeOK, BackInv, DormantInv, CancelInv, ReportInv, ReportedRunSucceeds,
        BeforeReports, Cancelling, Finishing, BeforeStart, Reporters, Background,
        MainStep, Runs, At, Goto, Advance, NextThread, Fail,
        signals, mainVars, workVars, backVars, shared
<1>1. CASE Prepare
  BY <1>1 DEF Prepare
<1>2. CASE CreateBackground
  BY <1>2 DEF CreateBackground
<1>3. CASE CreateWorkers
  BY <1>3 DEF CreateWorkers
<1>4. CASE CreationFails
  BY <1>4 DEF CreationFails
<1>5. CASE ArmInitTimeout
  BY <1>5 DEF ArmInitTimeout
<1>6. CASE StartThreads
  BY <1>6 DEF StartThreads, AllAtWorkerBarrier
<1>7. CASE StartFails
  BY <1>7 DEF StartFails, AllAtWorkerBarrier
<1>8. CASE InitializationFailed
  BY <1>8 DEF InitializationFailed
<1>9. CASE ArmForcedShutdown
  BY <1>9 DEF ArmForcedShutdown
<1>10. CASE WarmUp
  BY <1>10 DEF WarmUp
<1>11. CASE StartReports
  BY <1>11 DEF StartReports
<1>12. CASE JoinWorker
  BY <1>12 DEF JoinWorker
<1>13. CASE StopTimers
  BY <1>13 DEF StopTimers
<1>14. CASE SilenceReports
  BY <1>14 DEF SilenceReports
<1>15. CASE AlarmOff
  BY <1>15 DEF AlarmOff
<1>16. CASE Cleanup
  BY <1>16 DEF Cleanup
<1>17. CASE CleanupFails
  BY <1>17 DEF CleanupFails
<1>18. CASE Cancel
  BY <1>18 DEF Cancel
<1>19. CASE SkipCancel
  <2>1. ASSUME who = "report" PROVE BackInv'
    BY <1>19, <2>1 DEF SkipCancel
  <2>2. ASSUME who = "eventgen" PROVE BackInv'
    BY <1>19, <2>2 DEF SkipCancel
  <2>3. ASSUME who = "checkpoints" PROVE BackInv'
    BY <1>19, <2>3 DEF SkipCancel
  <2> QED
    BY <2>1, <2>2, <2>3
<1>20. CASE JoinBackground
  BY <1>20 DEF JoinBackground
<1>21. CASE FinalReport
  BY <1>21 DEF FinalReport
<1>22. CASE Return
  BY <1>22 DEF Return
<1> QED
  BY <1>1, <1>2, <1>3, <1>4, <1>5, <1>6, <1>7, <1>8, <1>9, <1>10, <1>11, <1>12, <1>13, <1>14, <1>15, <1>16, <1>17, <1>18, <1>19, <1>20, <1>21, <1>22 DEF Main

(* A step of a worker can only set error, and not any more once the final  *)
(* report is begun.                                                        *)
LEMMA WorkerBack ==
  ASSUME TypeOK, RunInv, BackInv, NEW w \in Workers, Worker(w)
  PROVE  BackInv'
<1>1. UNCHANGED <<opt, reporting, reported, mpc, who, bg, created, cancelled>>
  BY DEF Worker, InitEnds, RunEnds, WorkerInit, WorkerInitFails, WorkerTimer, WorkerDone,
         WorkerFails, WorkerHangs, WorkStep, mainVars, backVars
<1>2. DormantInv' /\ CancelInv'
  BY <1>1 DEF BackInv, DormantInv, CancelInv
<1>3. ~reported
  <2>1. WorkerEffect(w)
    BY WorkerFacts
  <2>2. worker[w] # "ended"
    BY <2>1 DEF WorkerEffect
  <2>3. mpc \notin AfterJoin
    BY <2>2, AllEnded DEF RunInv
  <2> QED
    BY <2>3 DEF BackInv, ReportInv, AfterJoin
<1>4. ReportInv'
  BY <1>1, <1>3 DEF ReportInv, ReportedRunSucceeds
<1> QED
  BY <1>2, <1>4 DEF BackInv

(* The generator, the alarms and a stutter.                                *)
LEMMA OtherBack ==
  ASSUME TypeOK, RunInv, BackInv, BackgroundSteps \/ Signal
  PROVE  BackInv'
<1> USE DEF TypeOK, BackInv, DormantInv, CancelInv, ReportInv, ReportedRunSucceeds,
        BeforeReports, Cancelling, Finishing, BeforeStart, Reporters, Background,
        BackStep, Runs, BackGoto, signals, mainVars, workVars, backVars, shared
<1>1. ASSUME NEW b \in Background, Thread(b) PROVE BackInv'
  <2>1. CASE BackgroundInit(b)
    BY <2>1 DEF BackgroundInit
  <2>2. CASE BackgroundInitFails(b)
    BY <2>2 DEF BackgroundInitFails
  <2>3. CASE RaiseFlag(b)
    BY <2>3 DEF RaiseFlag
  <2>4. CASE BackgroundEnds(b)
    BY <2>4 DEF BackgroundEnds
  <2>5. CASE BackgroundCancelled(b)
    BY <2>5 DEF BackgroundCancelled
  <2> QED
    BY <1>1, <2>1, <2>2, <2>3, <2>4, <2>5 DEF Thread
<1>2. CASE Report
  BY <1>2 DEF Report
<1>3. CASE CheckpointReport
  BY <1>3 DEF CheckpointReport
<1>4. CASE GeneratorFails
  BY <1>4 DEF GeneratorFails
<1>5. CASE InitTimeout
  BY <1>5 DEF InitTimeout
<1>6. CASE ForcedShutdown
  BY <1>6 DEF ForcedShutdown
<1>7. CASE HandlerExits
  BY <1>7 DEF HandlerExits
<1>8. CASE HandlerCancelled
  BY <1>8 DEF HandlerCancelled
<1> QED
  BY <1>1, <1>2, <1>3, <1>4, <1>5, <1>6, <1>7, <1>8 DEF BackgroundSteps, Signal

(* No background thread runs yet.                                          *)
LEMMA BackStart == Init => BackInv
BY DEF Init, BackInv, DormantInv, CancelInv, ReportInv, ReportedRunSucceeds, BeforeReports,
       Cancelling, Finishing, BeforeStart, Reporters, Background

(* What is known of the background threads holds in every state.           *)
LEMMA BackInvariant == Spec => []BackInv
<1>1. TypeOK /\ RunInv /\ BackInv /\ [Next]_vars => BackInv'
  <2> SUFFICES ASSUME TypeOK, RunInv, BackInv, [Next]_vars PROVE BackInv'
    OBVIOUS
  <2>1. CASE Next
    BY <2>1, MainBack, WorkerBack, OtherBack DEF Next
  <2>2. CASE UNCHANGED vars
    BY <2>2 DEF BackInv, DormantInv, CancelInv, ReportInv, ReportedRunSucceeds,
                vars, shared, signals, mainVars, workVars, backVars
  <2> QED
    BY <2>1, <2>2
<1> QED
  BY <1>1, BackStart, RunInvariant, PTL DEF Spec

(* Outside a forced shutdown the main thread and the checkpoint thread do  *)
(* not take a checkpoint at the same time, unless the checkpoint thread    *)
(* was too late with its flag to be cancelled by run_test.                 *)
THEOREM CheckpointsAloneCorrect == Spec => []CheckpointsAlone
<1>1. BackInv => CheckpointsAlone
  BY DEF BackInv, DormantInv, CancelInv, CheckpointsAlone, BeforeReports, Background, Reporters
<1> QED
  BY <1>1, BackInvariant, PTL

(* report_intermediate is not at work when run_test makes the final report,*)
(* whether the report thread was cancelled or came too late for it.        *)
THEOREM QuietCorrect == Spec => []QuietAtTheEnd
<1>1. BackInv => QuietAtTheEnd
  BY DEF BackInv, CancelInv, QuietAtTheEnd, Finishing
<1> QED
  BY <1>1, BackInvariant, PTL

(* A run whose final statistics run_test prints returns success, unless a  *)
(* generator that was late with its flag fails afterwards.                 *)
THEOREM ReportedRunCorrect == Spec => []ReportedRunSucceeds
  BY BackInvariant, PTL DEF BackInv, ReportInv
=============================================================================
