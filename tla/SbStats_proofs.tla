---------------------------- MODULE SbStats_proofs ----------------------------
(***************************************************************************)
(* The statistics, for any number of workers, of histogram elements, of    *)
(* events and of checkpoints, and any options: the types, the two          *)
(* refinements of the event ledger, the percentiles, the unfinished        *)
(* transactions of a forced shutdown, and the agreement of counts, sums    *)
(* and histogram in the cumulative reports.                                *)
(***************************************************************************)
EXTENDS SbStats, FiniteSetTheorems, TLAPS

(* The types, by the parts of the state that change together.              *)
WorkTypes ==
  /\ wpc \in [Workers -> WorkerPoints]
  /\ begun \in [Workers -> 0..MaxEvents] /\ counters \in [Workers -> 0..MaxEvents]
  /\ \A w \in Workers :
       counters[w] = IF wpc[w] \in {"idle", "ended"} THEN begun[w] ELSE begun[w] - 1

TimerTypes ==
  /\ timers \in [Workers -> Timer] /\ timers_copy \in [Workers -> Timer]
  /\ closed \in [timer : SUBSET Events, histogram : SUBSET Events]

HistogramTypes ==
  /\ interm_slots \in [1..NSlots -> SUBSET Events]
  /\ temp_array \subseteq Events /\ cumulative_array \subseteq Events
  /\ cumulative_nevents \in Nat
  /\ lock \in Reporters \cup {"none"}

TotalTypes == last_intermediate \in Nat /\ last_cumulative \in Nat /\ counted \in Int

RunTypes ==
  /\ opt \in Options /\ left \in 0..MaxCheckpoints
  /\ reporting \in BOOLEAN /\ released \in BOOLEAN /\ printing \in BOOLEAN
  /\ interrupted \in Workers \cup Reporters \cup {"none"}
  /\ spinlock \in BOOLEAN /\ unfinished \subseteq Workers

LocalTypes ==
  /\ rpc \in [Reporters -> ReporterPoints]
  /\ idx \in [Reporters -> Nat] /\ sum \in [Reporters -> Nat] /\ last \in [Reporters -> Nat]
  /\ \A r \in Reporters : /\ rpc[r] \in {"count", "timers"} => idx[r] \in 1..Len(threads)
                          /\ rpc[r] = "slots" => idx[r] \in 1..NSlots
                          /\ rpc[r] \notin {"count", "timers", "slots"} => idx[r] = 1

StatsTypes == /\ WorkTypes /\ TimerTypes /\ HistogramTypes
              /\ TotalTypes /\ RunTypes /\ LocalTypes

(* The handler runs once, and not before the alarm.                        *)
HandlerOff == interrupted = "none" => rpc["handler"] = "off"

(* The types the proofs use are the type invariant, with one more detail.  *)
LEMMA TypesSuffice == StatsTypes => TypeOK
  BY DEF StatsTypes, WorkTypes, TimerTypes, HistogramTypes, TotalTypes, RunTypes,
         LocalTypes, TypeOK

-----------------------------------------------------------------------------
(* What the assumption gives the proofs.                                   *)
LEMMA Constants ==
  /\ Len(threads) \in Nat \ {0} /\ \A i \in 1..Len(threads) : threads[i] \in Workers
  /\ Workers \cap (Reporters \cup {"none"}) = {}
  /\ NSlots \in Nat \ {0} /\ MaxEvents \in Nat /\ MaxCheckpoints \in Nat
  /\ \A o \in Options : /\ o.report \in BOOLEAN /\ o.histogram \in BOOLEAN
                        /\ o.checkpoints \in 0..MaxCheckpoints
  BY StatsAssumption DEF Reporters

(* There are finitely many workers and, in the model, events.              *)
LEMMA EventsFinite == IsFiniteSet(Workers) /\ IsFiniteSet(Events)
<1> DEFINE L == 1..Len(threads)
<1>1. IsFiniteSet(L)
  BY Constants, FS_Interval
<1>2. threads \in Surjection(L, Workers)
  <2>1. threads \in [L -> Workers]
    BY StatsAssumption
  <2>2. Workers = {threads[i] : i \in L}
    BY <2>1 DEF Workers, Range
  <2> QED
    BY <2>1, <2>2 DEF Surjection
<1> HIDE DEF L
<1>3. IsFiniteSet(Workers)
  BY <1>1, <1>2, FS_Surjection
<1>4. IsFiniteSet(1..MaxEvents)
  BY Constants, FS_Interval
<1> QED
  BY <1>3, <1>4, FS_Product DEF Events

(* A worker that may begin an event has begun fewer than MaxEvents.        *)
LEMMA BegunBound ==
  ASSUME WorkTypes, NEW w \in Workers, Cardinality(Begun) < MaxEvents
  PROVE  begun[w] < MaxEvents
<1> SUFFICES ASSUME begun[w] = MaxEvents PROVE FALSE
  BY Constants DEF WorkTypes
<1> DEFINE S == 1..MaxEvents
           T == {w} \X S
           f == [n \in S |-> <<w, n>>]
<1>1. f \in Injection(S, T)
  BY DEF Injection, IsInjective
<1>2. T \subseteq Begun
  BY Constants DEF Begun, Events, WorkTypes
<1>3. IsFiniteSet(Begun)
  BY EventsFinite, FS_Subset DEF Begun
<1>4. IsFiniteSet(T) /\ Cardinality(T) <= Cardinality(Begun)
  BY <1>2, <1>3, FS_Subset
<1>5. Cardinality(S) = MaxEvents /\ IsFiniteSet(S)
  BY Constants, FS_Interval
<1> HIDE DEF S, T, f
<1>6. Cardinality(S) <= Cardinality(T)
  BY <1>1, <1>4, FS_Injection
<1>7. Cardinality(Begun) \in Nat /\ Cardinality(T) \in Nat
  BY <1>3, <1>4, FS_CardinalityType
<1> QED
  BY <1>4, <1>5, <1>6, <1>7, Constants

(* A worker inside an event has begun it.                                  *)
LEMMA InAnEvent ==
  ASSUME WorkTypes, NEW w \in Workers, wpc[w] \notin {"idle", "ended"}
  PROVE  begun[w] \in 1..MaxEvents
<1>1. counters[w] = begun[w] - 1 /\ counters[w] \in 0..MaxEvents /\ begun[w] \in 0..MaxEvents
  BY DEF WorkTypes
<1> QED
  BY <1>1, Constants

-----------------------------------------------------------------------------
(* The steps of Next, sorted by what they change.                          *)
OwnWay ==
  \/ StartReports \/ JoinWorkers \/ Silence \/ CancelReport \/ CancelCheckpoints
  \/ PrintHistogram \/ WakeReport \/ WakeCheckpoint \/ LastCheckpoint
  \/ RaiseFlag("report") \/ RaiseFlag("checkpoints") \/ CountUnfinished

(* A step is a worker's, a reporter's, the handler's start, or a stutter.  *)
LEMMA StepCases ==
  ASSUME [Next]_vars
  PROVE  \/ \E w \in Workers : Worker(w)
         \/ \E r \in Reporters : Aggregate(r) \/ Lock(r) \/ FetchSlot(r) \/ Unlock(r)
         \/ \E r \in Reporters \ {"report"} :
               StoreNevents(r) \/ ResetArray(r) \/ ResetNevents(r) \/ CopyTimer(r)
         \/ AddToCumulative \/ AddNevents \/ OwnWay \/ ForcedShutdown
         \/ UNCHANGED vars
  BY DEF Next, Main, Report, Checkpoints, Handler, Intermediate, Checkpoint, Reporters, OwnWay

-----------------------------------------------------------------------------
(* Everything is empty, and the loops are at their first element.          *)
LEMMA StartTypes == Init => StatsTypes
<1> SUFFICES ASSUME Init PROVE StatsTypes
  OBVIOUS
<1>1. WorkTypes
  BY Constants DEF Init, WorkTypes, WorkerPoints
<1>2. TimerTypes
  BY Constants DEF Init, TimerTypes, Timer
<1>3. HistogramTypes
  BY Constants DEF Init, HistogramTypes
<1>4. TotalTypes
  BY DEF Init, TotalTypes
<1>5. RunTypes
  BY Constants DEF Init, RunTypes
<1>6. LocalTypes
  <2>1. rpc \in [Reporters -> ReporterPoints]
    BY DEF Init, ReporterPoints, Reporters
  <2>2. \A r \in Reporters : rpc[r] # "slots" /\ idx[r] = 1
    BY DEF Init, Reporters
  <2> QED
    BY <2>1, <2>2, Constants DEF Init, LocalTypes
<1> QED
  BY <1>1, <1>2, <1>3, <1>4, <1>5, <1>6 DEF StatsTypes

(* A worker changes its own books and the histogram's elements.            *)
LEMMA WorkerTypes ==
  ASSUME StatsTypes, NEW w \in Workers, Worker(w)
  PROVE  StatsTypes'
<1> USE DEF StatsTypes, WorkStep
<1>1. TotalTypes' /\ RunTypes' /\ LocalTypes'
  BY DEF Worker, StartTimer, StopTimer, UpdateHistogram, CountEvent, EndWorker,
         totals, locals, runVars, TotalTypes, RunTypes, LocalTypes
<1>2. CASE StartTimer(w)
  <2>1. begun[w] < MaxEvents
    BY <1>2, BegunBound DEF StartTimer
  <2>2. WorkTypes'
    BY <1>2, <2>1, Constants DEF StartTimer, WorkTypes, WorkerPoints
  <2>3. 2 * begun'[w] - 1 \in 0..(2 * MaxEvents)
    BY <1>2, <2>1, Constants DEF StartTimer, WorkTypes
  <2>4. TimerTypes'
    BY <1>2, <2>3 DEF StartTimer, TimerTypes, Timer
  <2>5. HistogramTypes'
    BY <1>2 DEF StartTimer, HistogramTypes
  <2> QED
    BY <1>1, <2>2, <2>4, <2>5
<1>3. CASE StopTimer(w)
  <2>1. begun[w] \in 1..MaxEvents /\ 2 * begun[w] \in 0..(2 * MaxEvents)
    BY <1>3, InAnEvent, Constants DEF StopTimer
  <2>2. WorkTypes'
    BY <1>3 DEF StopTimer, WorkTypes, WorkerPoints
  <2>3. TimerTypes'
    BY <1>3, <2>1 DEF StopTimer, TimerTypes, Timer
  <2>4. HistogramTypes'
    BY <1>3 DEF StopTimer, HistogramTypes
  <2> QED
    BY <1>1, <2>2, <2>3, <2>4
<1>4. CASE UpdateHistogram(w)
  <2>1. <<w, begun[w]>> \in Events
    BY <1>4, InAnEvent DEF UpdateHistogram, Events
  <2>2. WorkTypes'
    BY <1>4 DEF UpdateHistogram, WorkTypes, WorkerPoints
  <2>3. TimerTypes'
    BY <1>4 DEF UpdateHistogram, TimerTypes
  <2>4. HistogramTypes'
    BY <1>4, <2>1 DEF UpdateHistogram, HistogramTypes
  <2> QED
    BY <1>1, <2>2, <2>3, <2>4
<1>5. CASE CountEvent(w)
  <2>1. WorkTypes'
    BY <1>5, Constants DEF CountEvent, WorkTypes, WorkerPoints
  <2>2. TimerTypes' /\ HistogramTypes'
    BY <1>5 DEF CountEvent, TimerTypes, HistogramTypes
  <2> QED
    BY <1>1, <2>1, <2>2
<1>6. CASE EndWorker(w)
  <2>1. WorkTypes'
    BY <1>6, Constants DEF EndWorker, WorkTypes, WorkerPoints
  <2>2. TimerTypes' /\ HistogramTypes'
    BY <1>6 DEF EndWorker, TimerTypes, HistogramTypes
  <2> QED
    BY <1>1, <2>1, <2>2
<1> QED
  BY <1>2, <1>3, <1>4, <1>5, <1>6 DEF Worker

(* A reporter's common steps, each with what it changes.                   *)
LEMMA ReporterTypes ==
  ASSUME StatsTypes, NEW r \in Reporters,
         Aggregate(r) \/ Lock(r) \/ FetchSlot(r) \/ StoreNevents(r)
           \/ ResetArray(r) \/ ResetNevents(r) \/ Unlock(r)
  PROVE  StatsTypes'
<1> USE DEF StatsTypes, From
<1>1. WorkTypes'
  BY DEF Aggregate, MergeCounters, ReadLast, ReplaceLast, Lock, FetchSlot, StoreNevents,
         ResetArray, ResetNevents, Unlock, Loop, workVars, WorkTypes
<1>2. CASE MergeCounters(r)
  <2>1. /\ idx[r] \in 1..Len(threads) /\ counters[threads[idx[r]]] \in Nat
    BY <1>2, Constants DEF MergeCounters, Loop, LocalTypes, WorkTypes
  <2>2. LocalTypes'
    BY <1>2, <2>1, Constants DEF MergeCounters, Loop, LocalTypes, ReporterPoints
  <2>3. TimerTypes' /\ HistogramTypes' /\ TotalTypes' /\ RunTypes'
    BY <1>2 DEF MergeCounters, Loop, timerVars, histogram, totals, runVars,
                TimerTypes, HistogramTypes, TotalTypes, RunTypes
  <2> QED
    BY <1>1, <2>2, <2>3
<1>3. CASE ReadLast(r)
  <2>1. LocalTypes'
    BY <1>3, Constants DEF ReadLast, LocalTypes, TotalTypes, ReporterPoints
  <2>2. TimerTypes' /\ HistogramTypes' /\ TotalTypes' /\ RunTypes'
    BY <1>3 DEF ReadLast, timerVars, histogram, totals, runVars,
                TimerTypes, HistogramTypes, TotalTypes, RunTypes
  <2> QED
    BY <1>1, <2>1, <2>2
<1>4. CASE ReplaceLast(r)
  <2>1. LocalTypes'
    BY <1>4, Constants DEF ReplaceLast, Restart, LocalTypes, ReporterPoints
  <2>2. sum[r] \in Nat /\ last[r] \in Nat
    BY DEF LocalTypes
  <2>3. TotalTypes'
    BY <1>4, <2>2 DEF ReplaceLast, TotalTypes
  <2>4. TimerTypes' /\ HistogramTypes' /\ RunTypes'
    BY <1>4 DEF ReplaceLast, timerVars, histogram, runVars,
                TimerTypes, HistogramTypes, RunTypes
  <2> QED
    BY <1>1, <2>1, <2>3, <2>4
<1>5. CASE Lock(r)
  <2>1. LocalTypes'
    BY <1>5, Constants DEF Lock, locals, LocalTypes, ReporterPoints
  <2>2. HistogramTypes'
    BY <1>5 DEF Lock, HistogramTypes
  <2>3. TimerTypes' /\ TotalTypes' /\ RunTypes'
    BY <1>5 DEF Lock, timerVars, totals, runVars, TimerTypes, TotalTypes, RunTypes
  <2> QED
    BY <1>1, <2>1, <2>2, <2>3
<1>6. CASE FetchSlot(r)
  <2>1. /\ idx[r] \in 1..NSlots /\ interm_slots[idx[r]] \subseteq Events
        /\ Cardinality(interm_slots[idx[r]]) \in Nat
    <3>1. idx[r] \in 1..NSlots /\ interm_slots[idx[r]] \subseteq Events
      BY <1>6 DEF FetchSlot, Loop, LocalTypes, HistogramTypes
    <3> QED
      BY <3>1, EventsFinite, FS_Subset, FS_CardinalityType
  <2>2. sum' \in [Reporters -> Nat]
    BY <1>6, <2>1 DEF FetchSlot, LocalTypes, HistogramTypes
  <2>3. LocalTypes'
    BY <1>6, <2>1, <2>2, Constants DEF FetchSlot, Loop, LocalTypes, ReporterPoints
  <2>4. HistogramTypes'
    BY <1>6, <2>1 DEF FetchSlot, HistogramTypes
  <2>5. TimerTypes' /\ TotalTypes' /\ RunTypes'
    BY <1>6 DEF FetchSlot, Loop, timerVars, totals, runVars, TimerTypes, TotalTypes, RunTypes
  <2> QED
    BY <1>1, <2>3, <2>4, <2>5
<1>7. CASE StoreNevents(r)
  <2>1. LocalTypes'
    BY <1>7, Constants DEF StoreNevents, Restart, LocalTypes, ReporterPoints
  <2>2. HistogramTypes'
    BY <1>7 DEF StoreNevents, HistogramTypes, LocalTypes
  <2>3. TimerTypes' /\ TotalTypes' /\ RunTypes'
    BY <1>7 DEF StoreNevents, timerVars, totals, runVars, TimerTypes, TotalTypes, RunTypes
  <2> QED
    BY <1>1, <2>1, <2>2, <2>3
<1>8. CASE ResetArray(r) \/ ResetNevents(r)
  <2>1. LocalTypes'
    BY <1>8, Constants DEF ResetArray, ResetNevents, locals, LocalTypes, ReporterPoints
  <2>2. HistogramTypes'
    BY <1>8 DEF ResetArray, ResetNevents, HistogramTypes
  <2>3. TimerTypes'
    BY <1>8 DEF ResetArray, ResetNevents, timerVars, TimerTypes, HistogramTypes
  <2>4. TotalTypes' /\ RunTypes'
    BY <1>8 DEF ResetArray, ResetNevents, totals, runVars, TotalTypes, RunTypes
  <2> QED
    BY <1>1, <2>1, <2>2, <2>3, <2>4
<1>9. CASE Unlock(r)
  <2>1. LocalTypes'
    BY <1>9, Constants DEF Unlock, locals, LocalTypes, ReporterPoints
  <2>2. HistogramTypes' /\ TimerTypes' /\ TotalTypes' /\ RunTypes'
    BY <1>9 DEF Unlock, timerVars, totals, HistogramTypes, TimerTypes, TotalTypes, RunTypes
  <2> QED
    BY <1>1, <2>1, <2>2
<1> QED
  BY <1>2, <1>3, <1>4, <1>5, <1>6, <1>7, <1>8, <1>9 DEF Aggregate

(* The report thread's own additions to the histogram.                     *)
LEMMA IntermediateTypes ==
  ASSUME StatsTypes, AddToCumulative \/ AddNevents
  PROVE  StatsTypes'
<1> USE DEF StatsTypes, From
<1>1. WorkTypes' /\ TimerTypes' /\ TotalTypes' /\ RunTypes'
  BY DEF AddToCumulative, AddNevents, workVars, timerVars, totals, runVars,
         WorkTypes, TimerTypes, TotalTypes, RunTypes
<1>2. "report" \in Reporters
  BY DEF Reporters
<1>3. sum["report"] \in Nat
  BY <1>2 DEF LocalTypes
<1>4. CASE AddToCumulative
  <2>1. LocalTypes'
    BY <1>2, <1>4, Constants DEF AddToCumulative, locals, LocalTypes, ReporterPoints
  <2>2. HistogramTypes'
    BY <1>4 DEF AddToCumulative, HistogramTypes
  <2> QED
    BY <1>1, <2>1, <2>2
<1>5. CASE AddNevents
  <2>1. LocalTypes'
    BY <1>2, <1>5, Constants DEF AddNevents, Restart, LocalTypes, ReporterPoints
  <2>2. HistogramTypes'
    BY <1>3, <1>5 DEF AddNevents, HistogramTypes
  <2> QED
    BY <1>1, <2>1, <2>2
<1> QED
  BY <1>4, <1>5

(* Copying a timer takes its events and keeps its times.                   *)
LEMMA CopyTypes ==
  ASSUME StatsTypes, NEW r \in Reporters \ {"report"}, CopyTimer(r)
  PROVE  StatsTypes'
<1> USE DEF StatsTypes, From
<1>1. WorkTypes' /\ HistogramTypes' /\ TotalTypes' /\ RunTypes'
  BY DEF CopyTimer, Loop, workVars, histogram, totals, runVars,
         WorkTypes, HistogramTypes, TotalTypes, RunTypes
<1>2. Checkpointed(r) \in {"done", "start", "sleep", "unfinished"}
  BY DEF Checkpointed, Reporters
<1>3. LocalTypes'
  BY <1>2, Constants DEF CopyTimer, Loop, LocalTypes, ReporterPoints
<1>4. TimerTypes'
  <2> DEFINE w == threads[idx[r]]
  <2>1. idx[r] \in 1..Len(threads) /\ w \in Workers
    BY Constants DEF CopyTimer, Loop, LocalTypes
  <2>2. timers[w] \in Timer /\ {w} \X timers[w].events \subseteq Events
    BY <2>1 DEF TimerTypes, Timer, Events
  <2>3. [timers[w] EXCEPT !.events = {}] \in Timer
    BY <2>2 DEF Timer
  <2> HIDE DEF w
  <2>4. /\ timers_copy' = [timers_copy EXCEPT ![w] = timers[w]]
        /\ timers' = [timers EXCEPT ![w] = [timers[w] EXCEPT !.events = {}]]
        /\ closed' = [closed EXCEPT !.timer = @ \cup ({w} \X timers[w].events)]
    BY DEF CopyTimer, w
  <2> QED
    BY <2>1, <2>2, <2>3, <2>4 DEF TimerTypes
<1> QED
  BY <1>1, <1>3, <1>4

(* The reporters' own ways move program counters and the state of the run. *)
LEMMA OwnTypes ==
  ASSUME StatsTypes, HandlerOff, OwnWay \/ ForcedShutdown
  PROVE  StatsTypes'
<1> USE DEF StatsTypes, From, Books, OwnWay
<1>1. WorkTypes' /\ TimerTypes' /\ HistogramTypes' /\ TotalTypes'
  BY DEF StartReports, JoinWorkers, Silence, CancelReport, CancelCheckpoints, Cancel,
         PrintHistogram, WakeReport, WakeCheckpoint, LastCheckpoint, RaiseFlag, ForcedShutdown,
         CountUnfinished, workVars, timerVars, histogram, totals,
         WorkTypes, TimerTypes, HistogramTypes, TotalTypes
<1>2. Reporters = {"main", "report", "checkpoints", "handler"}
  BY DEF Reporters
<1>3. UNCHANGED locals
  BY DEF StartReports, JoinWorkers, Silence, CancelReport, CancelCheckpoints, Cancel,
         PrintHistogram, WakeReport, WakeCheckpoint, LastCheckpoint, RaiseFlag, ForcedShutdown,
         CountUnfinished
<1>4. CASE StartReports
  <2>1. rpc' \in [Reporters -> ReporterPoints]
    BY <1>4 DEF StartReports, LocalTypes, ReporterPoints
  <2>2. \A s \in Reporters : \/ rpc'[s] = rpc[s]
                             \/ rpc'[s] \in {"join", "late"} /\ rpc[s] \in {"start", "barrier"}
    BY <1>4 DEF StartReports
  <2>3. LocalTypes'
    BY <1>3, <2>1, <2>2, Constants DEF LocalTypes, locals
  <2>4. RunTypes'
    BY <1>4 DEF StartReports, RunTypes
  <2> QED
    BY <1>1, <2>3, <2>4
<1>5. CASE JoinWorkers \/ Silence \/ WakeReport \/ LastCheckpoint
             \/ RaiseFlag("report") \/ RaiseFlag("checkpoints")
  <2>1. LocalTypes'
    BY <1>2, <1>3, <1>5, Constants
       DEF JoinWorkers, Silence, WakeReport, LastCheckpoint, RaiseFlag, locals,
           LocalTypes, ReporterPoints
  <2>2. RunTypes'
    BY <1>5 DEF JoinWorkers, Silence, WakeReport, LastCheckpoint, RaiseFlag, runVars, RunTypes
  <2> QED
    BY <1>1, <2>1, <2>2
<1>6. CASE WakeCheckpoint
  <2>1. LocalTypes'
    BY <1>2, <1>3, <1>6, Constants DEF WakeCheckpoint, locals, LocalTypes, ReporterPoints
  <2>2. RunTypes'
    BY <1>6, Constants DEF WakeCheckpoint, RunTypes
  <2> QED
    BY <1>1, <2>1, <2>2
<1>7. CASE CancelReport \/ CancelCheckpoints
  <2>1. LocalTypes'
    BY <1>2, <1>3, <1>7, Constants
       DEF CancelReport, CancelCheckpoints, Cancel, locals, LocalTypes, ReporterPoints
  <2>2. RunTypes'
    BY <1>7, Constants DEF CancelReport, CancelCheckpoints, Cancel, runVars, RunTypes
  <2> QED
    BY <1>1, <2>1, <2>2
<1>8. CASE PrintHistogram
  <2>1. LocalTypes'
    BY <1>2, <1>3, <1>8, Constants DEF PrintHistogram, locals, LocalTypes, ReporterPoints
  <2>2. RunTypes'
    BY <1>8 DEF PrintHistogram, RunTypes
  <2> QED
    BY <1>1, <2>1, <2>2
<1>9. CASE ForcedShutdown
  <2>1. /\ Len(threads) \in Nat \ {0} /\ "handler" \in Reporters
        /\ idx["handler"] = 1
    BY <1>2, <1>9, Constants DEF LocalTypes, HandlerOff, ForcedShutdown
  <2>2. interrupted' \in Workers \cup Reporters
    BY <1>2, <1>9 DEF ForcedShutdown, Background
  <2>3. LocalTypes'
    BY <1>3, <1>9, <2>1 DEF ForcedShutdown, locals, LocalTypes, ReporterPoints
  <2>4. RunTypes'
    BY <1>9, <2>2 DEF ForcedShutdown, RunTypes
  <2> QED
    BY <1>1, <2>3, <2>4
<1>10. CASE CountUnfinished
  <2>1. LocalTypes'
    BY <1>2, <1>3, <1>10, Constants DEF CountUnfinished, locals, LocalTypes, ReporterPoints
  <2>2. RunTypes'
    BY <1>10 DEF CountUnfinished, RunTypes
  <2> QED
    BY <1>1, <2>1, <2>2
<1> QED
  BY <1>4, <1>5, <1>6, <1>7, <1>8, <1>9, <1>10

(* A stuttering step keeps the types.                                      *)
LEMMA TypesStay == StatsTypes /\ UNCHANGED vars => StatsTypes'
  BY DEF StatsTypes, WorkTypes, TimerTypes, HistogramTypes, TotalTypes, RunTypes, LocalTypes,
         vars, workVars, histogram, totals, timerVars, locals, runVars

(* The handler runs only after it has interrupted some thread.             *)
LEMMA HandlerStays ==
  ASSUME StatsTypes, HandlerOff, [Next]_vars
  PROVE  HandlerOff'
<1>r. /\ Reporters = {"main", "report", "checkpoints", "handler"}
      /\ rpc \in [Reporters -> ReporterPoints]
  BY DEF Reporters, StatsTypes, LocalTypes
<1> SUFFICES ASSUME ~ForcedShutdown
             PROVE  /\ interrupted' = interrupted
                    /\ rpc["handler"] = "off" => rpc'["handler"] = "off"
  <2>1. CASE ForcedShutdown
    BY <2>1, Constants DEF ForcedShutdown, HandlerOff, Background, Reporters
  <2> QED
    BY <2>1 DEF HandlerOff
<1> USE <1>r DEF From, Loop
<1>1. CASE \E w \in Workers : Worker(w)
  BY <1>1 DEF Worker, WorkStep, StartTimer, StopTimer, UpdateHistogram, CountEvent, EndWorker,
              runVars
<1>2. CASE \/ \E r \in Reporters : Aggregate(r) \/ Lock(r) \/ FetchSlot(r) \/ Unlock(r)
           \/ \E r \in Reporters \ {"report"} :
                StoreNevents(r) \/ ResetArray(r) \/ ResetNevents(r) \/ CopyTimer(r)
           \/ AddToCumulative \/ AddNevents
  BY <1>2 DEF Aggregate, MergeCounters, ReadLast, ReplaceLast, Lock, FetchSlot,
              StoreNevents, ResetArray, ResetNevents, Unlock, CopyTimer,
              AddToCumulative, AddNevents, runVars
<1>3. CASE OwnWay
  BY <1>3 DEF OwnWay, StartReports, JoinWorkers, Silence, CancelReport, CancelCheckpoints, Cancel,
              PrintHistogram, WakeReport, WakeCheckpoint, LastCheckpoint, RaiseFlag,
              CountUnfinished, runVars
<1>4. CASE UNCHANGED vars
  BY <1>4 DEF vars, runVars
<1> QED
  BY <1>1, <1>2, <1>3, <1>4, StepCases

(* The types hold in every state.                                          *)
LEMMA StatsInvariant == Spec => [](StatsTypes /\ HandlerOff)
<1>1. StatsTypes /\ HandlerOff /\ [Next]_vars => StatsTypes'
  BY StepCases, WorkerTypes, ReporterTypes, CopyTypes, IntermediateTypes, OwnTypes, TypesStay
<1>2. Init => HandlerOff
  BY DEF Init, HandlerOff, Reporters
<1> QED
  BY StartTypes, <1>1, <1>2, HandlerStays, PTL DEF Spec

(* The types hold, so that the loops of sb_counters_merge, of the          *)
(* histogram's merge and of checkpoint() stay inside their arrays, and no  *)
(* worker counts an event it has not begun.                                *)
THEOREM StatsTypeCorrect == Spec => []TypeOK
  BY StatsInvariant, TypesSuffice, PTL

-----------------------------------------------------------------------------
(* The timers' books.                                                      *)

(* An event whose timer has been stopped.                                  *)
Timed(e) == IF wpc[e[1]] = "running" THEN e[2] < begun[e[1]] ELSE e[2] <= begun[e[1]]

TimesInv ==
  /\ \A w \in Workers : \A n \in timers[w].events :
       Timed(<<w, n>>) /\ <<w, n>> \notin closed.timer
  /\ \A e \in closed.timer : Timed(e)

(* Steps that leave the timers and the finished events as they are.        *)
LEMMA TimersStay ==
  ASSUME StatsTypes, [Next]_vars,
         \A w \in Workers : ~StartTimer(w) /\ ~StopTimer(w),
         \A r \in Reporters : ~CopyTimer(r)
  PROVE  /\ timers' = timers /\ timers_copy' = timers_copy /\ closed'.timer = closed.timer
         /\ begun' = begun
         /\ \A w \in Workers : wpc'[w] = "running" <=> wpc[w] = "running"
<1> USE DEF From, Loop
<1>1. CASE \E w \in Workers : Worker(w)
  BY <1>1 DEF Worker, WorkStep, UpdateHistogram, CountEvent, EndWorker, timerVars,
              StatsTypes, WorkTypes
<1>2. CASE \/ \E r \in Reporters : Aggregate(r) \/ Lock(r) \/ FetchSlot(r) \/ Unlock(r)
           \/ \E r \in Reporters \ {"report"} : StoreNevents(r) \/ ResetNevents(r)
           \/ AddToCumulative \/ AddNevents
  BY <1>2 DEF Aggregate, MergeCounters, ReadLast, ReplaceLast, Lock, FetchSlot, StoreNevents,
              ResetNevents, Unlock, AddToCumulative, AddNevents, timerVars, workVars
<1>3. CASE \E r \in Reporters : ResetArray(r)
  BY <1>3 DEF ResetArray, timerVars, workVars, StatsTypes, TimerTypes
<1>4. CASE OwnWay \/ ForcedShutdown
  BY <1>4 DEF OwnWay, StartReports, JoinWorkers, Silence, CancelReport, CancelCheckpoints, Cancel,
              PrintHistogram, WakeReport, WakeCheckpoint, LastCheckpoint, RaiseFlag,
              CountUnfinished, ForcedShutdown, Books, timerVars, workVars
<1>5. CASE UNCHANGED vars
  BY <1>5 DEF vars, timerVars, workVars
<1> QED
  BY <1>1, <1>2, <1>3, <1>4, <1>5, StepCases

(* Taking a timer's events moves them from one book to the other.          *)
LEMMA TakeTimes ==
  ASSUME StatsTypes, NEW r \in Reporters, CopyTimer(r)
  PROVE  \E w \in Workers :
           /\ w = threads[idx[r]]
           /\ timers' = [timers EXCEPT ![w] = [timers[w] EXCEPT !.events = {}]]
           /\ timers'[w].events = {}
           /\ \A v \in Workers \ {w} : timers'[v] = timers[v]
           /\ closed'.timer = closed.timer \cup ({w} \X timers[w].events)
           /\ wpc' = wpc /\ begun' = begun
<1> DEFINE w == threads[idx[r]]
<1>1. w \in Workers
  BY Constants DEF CopyTimer, Loop, From, StatsTypes, LocalTypes
<1>2. /\ timers' = [timers EXCEPT ![w] = [timers[w] EXCEPT !.events = {}]]
      /\ closed' = [closed EXCEPT !.timer = @ \cup ({w} \X timers[w].events)]
      /\ wpc' = wpc /\ begun' = begun
  BY DEF CopyTimer, Loop, From, workVars
<1> HIDE DEF w
<1>3. timers \in [Workers -> Timer] /\ closed \in [timer : SUBSET Events, histogram : SUBSET Events]
  BY DEF StatsTypes, TimerTypes
<1>4. timers'[w].events = {} /\ closed'.timer = closed.timer \cup ({w} \X timers[w].events)
  BY <1>1, <1>2, <1>3 DEF Timer
<1>5. \A v \in Workers \ {w} : timers'[v] = timers[v]
  BY <1>1, <1>2, <1>3
<1> QED
  BY <1>1, <1>2, <1>4, <1>5 DEF w

(* Every step keeps the books of the timers.                               *)
LEMMA TimesStep ==
  ASSUME StatsTypes, TimesInv, [Next]_vars
  PROVE  TimesInv'
<1>t. /\ timers \in [Workers -> Timer] /\ wpc \in [Workers -> WorkerPoints]
      /\ begun \in [Workers -> Nat] /\ closed.timer \subseteq Events
  BY Constants DEF StatsTypes, TimerTypes, WorkTypes
<1>e. \A w \in Workers : timers[w].events \subseteq Nat
  BY <1>t, Constants DEF Timer
<1>1. ASSUME NEW w \in Workers, StartTimer(w) PROVE TimesInv'
  <2>1. /\ wpc' = [wpc EXCEPT ![w] = "running"] /\ begun' = [begun EXCEPT ![w] = @ + 1]
        /\ \A v \in Workers : timers'[v].events = timers[v].events
        /\ closed' = closed /\ wpc[w] = "idle"
    BY <1>1, <1>t DEF StartTimer, WorkStep, Timer
  <2>2. \A e \in Workers \X Nat : Timed(e) => Timed(e)'
    BY <2>1, <1>t DEF Timed
  <2>3. \A v \in Workers : \A n \in timers'[v].events : Timed(<<v, n>>)'
    BY <2>1, <2>2, <1>e DEF TimesInv
  <2>4. \A e \in closed.timer : Timed(e)'
    BY <2>2, <1>t, Constants DEF TimesInv, Events
  <2> QED
    BY <2>1, <2>3, <2>4 DEF TimesInv
<1>2. ASSUME NEW w \in Workers, StopTimer(w) PROVE TimesInv'
  <2>1. /\ wpc' = [wpc EXCEPT ![w] = "stopped"] /\ begun' = begun
        /\ \A v \in Workers \ {w} : timers'[v].events = timers[v].events
        /\ timers'[w].events = timers[w].events \cup {begun[w]}
        /\ closed' = closed /\ wpc[w] = "running"
    BY <1>2, <1>t DEF StopTimer, WorkStep, Timer
  <2>2. \A e \in Workers \X Nat : Timed(e) => Timed(e)'
    BY <2>1, <1>t DEF Timed
  <2>3. Timed(<<w, begun[w]>>)' /\ <<w, begun[w]>> \notin closed.timer
    BY <2>1, <1>t DEF Timed, TimesInv
  <2>4. \A v \in Workers : \A n \in timers'[v].events : Timed(<<v, n>>)' /\ <<v, n>> \notin closed.timer
    BY <2>1, <2>2, <2>3, <1>e DEF TimesInv
  <2>5. \A e \in closed.timer : Timed(e)'
    BY <2>2, <1>t, Constants DEF TimesInv, Events
  <2> QED
    BY <2>1, <2>4, <2>5 DEF TimesInv
<1>3. ASSUME NEW r \in Reporters, CopyTimer(r) PROVE TimesInv'
  BY <1>3, TakeTimes DEF TimesInv, Timed
<1>4. CASE /\ \A w \in Workers : ~StartTimer(w) /\ ~StopTimer(w)
           /\ \A r \in Reporters : ~CopyTimer(r)
  BY <1>4, <1>t, TimersStay DEF TimesInv, Timed, Events
<1> QED
  BY <1>1, <1>2, <1>3, <1>4

(* The books of the timers hold in every state.                            *)
LEMMA TimesInvariant == Spec => []TimesInv
<1>1. Init => TimesInv
  BY DEF Init, TimesInv
<1> QED
  BY <1>1, TimesStep, StatsInvariant, PTL DEF Spec

(* The time of every finished event goes into one report's sums (sb_timer_ *)
(* stop, sb_timer_checkpoint), whichever of the main thread, the           *)
(* checkpoint thread and the forced-shutdown handler take checkpoints, and *)
(* however their walks over the timers interleave.                         *)
THEOREM TimesReportedOnce == Spec => EveryTimeReportedOnce
<1>1. Init => TimersBooked!Init
  BY DEF Init, TimersBooked!Init
<1>2. StatsTypes /\ TimesInv /\ [Next]_vars => [TimersBooked!Next]_(TimersBooked!vars)
  <2> SUFFICES ASSUME StatsTypes, TimesInv, [Next]_vars
               PROVE  [TimersBooked!Next]_(TimersBooked!vars)
    OBVIOUS
  <2>t. /\ timers \in [Workers -> Timer] /\ wpc \in [Workers -> WorkerPoints]
        /\ begun \in [Workers -> 0..MaxEvents] /\ closed.timer \subseteq Events
    BY DEF StatsTypes, TimerTypes, WorkTypes
  <2> USE DEF TimersBooked!vars, TimersBooked!Next
  <2>1. ASSUME NEW w \in Workers, StartTimer(w) PROVE UNCHANGED TimersBooked!vars
    <3>1. \A v \in Workers : timers'[v].events = timers[v].events
      BY <2>1, <2>t DEF StartTimer, Timer
    <3>2. closed' = closed
      BY <2>1 DEF StartTimer, WorkStep
    <3> QED
      BY <3>1, <3>2
  <2>2. ASSUME NEW w \in Workers, StopTimer(w)
        PROVE  \E e \in Events : TimersBooked!Finish(e)
    <3> DEFINE e == <<w, begun[w]>>
    <3>1. /\ \A v \in Workers \ {w} : timers'[v].events = timers[v].events
          /\ timers'[w].events = timers[w].events \cup {begun[w]}
          /\ closed' = closed /\ wpc[w] = "running"
      BY <2>2, <2>t DEF StopTimer, WorkStep, Timer
    <3>2. e \in Events
      BY <3>1, InAnEvent DEF Events, StatsTypes
    <3>3. e \notin closed.timer /\ begun[w] \notin timers[w].events
      BY <3>1, <2>t DEF TimesInv, Timed
    <3>4. (UNION {{v} \X timers[v].events : v \in Workers})'
            = (UNION {{v} \X timers[v].events : v \in Workers}) \cup {e}
      <4>1. \A v \in Workers : {v} \X timers'[v].events
              = ({v} \X timers[v].events) \cup (IF v = w THEN {e} ELSE {})
        BY <3>1
      <4> QED
        BY <4>1
    <3> QED
      BY <3>1, <3>2, <3>3, <3>4 DEF TimersBooked!Finish
  <2>3. ASSUME NEW r \in Reporters, CopyTimer(r)
        PROVE  \E batch \in SUBSET UNION {{w} \X timers[w].events : w \in Workers} :
                 TimersBooked!Report(batch)
    <3>1. PICK w \in Workers :
           /\ timers'[w].events = {}
           /\ \A v \in Workers \ {w} : timers'[v] = timers[v]
           /\ closed'.timer = closed.timer \cup ({w} \X timers[w].events)
      BY <2>3, TakeTimes
    <3>2. (UNION {{v} \X timers[v].events : v \in Workers})'
            = (UNION {{v} \X timers[v].events : v \in Workers}) \ ({w} \X timers[w].events)
      BY <3>1
    <3> QED
      BY <3>1, <3>2 DEF TimersBooked!Report
  <2>4. CASE /\ \A w \in Workers : ~StartTimer(w) /\ ~StopTimer(w)
             /\ \A r \in Reporters : ~CopyTimer(r)
    BY <2>4, TimersStay
  <2> QED
    BY <2>1, <2>2, <2>3, <2>4
<1> QED
  BY <1>1, <1>2, StatsInvariant, TimesInvariant, PTL
     DEF Spec, EveryTimeReportedOnce, TimersBooked!Spec

-----------------------------------------------------------------------------
(* The unfinished transactions of a forced shutdown.                       *)

(* The clock is odd when an event starts and even when one ends, so that a *)
(* timer that was ever started has two different times.                    *)
Clocked(t) == /\ \E k \in Nat : t.end = 2 * k
              /\ t.start = 0 \/ \E k \in Nat : t.start = 2 * k + 1

ClocksInv == \A w \in Workers : Clocked(timers[w]) /\ Clocked(timers_copy[w])

ExitInv == rpc["handler"] = "exit" =>
             \A w \in Workers : TimerRunning(timers_copy[w]) => w \in unfinished

(* Every step keeps what the clocks say of a worker's position.            *)
LEMMA ClocksStep ==
  ASSUME StatsTypes, ClocksInv, [Next]_vars
  PROVE  ClocksInv'
<1>t. /\ timers \in [Workers -> Timer] /\ timers_copy \in [Workers -> Timer]
      /\ begun \in [Workers -> Nat]
  BY Constants DEF StatsTypes, TimerTypes, WorkTypes
<1>1. ASSUME NEW w \in Workers, StartTimer(w) PROVE ClocksInv'
  <2>1. /\ timers'[w].start = 2 * (begun[w] + 1) - 1 /\ timers'[w].end = timers[w].end
        /\ \A v \in Workers \ {w} : timers'[v] = timers[v]
        /\ timers_copy' = timers_copy
    BY <1>1, <1>t DEF StartTimer, WorkStep, Timer
  <2>2. 2 * (begun[w] + 1) - 1 = 2 * begun[w] + 1 /\ begun[w] \in Nat
    BY <1>t
  <2>3. Clocked(timers'[w])
    BY <2>1, <2>2 DEF ClocksInv, Clocked
  <2> QED
    BY <2>1, <2>3 DEF ClocksInv, Clocked
<1>2. ASSUME NEW w \in Workers, StopTimer(w) PROVE ClocksInv'
  <2>1. /\ timers'[w].start = timers[w].start /\ timers'[w].end = 2 * begun[w]
        /\ \A v \in Workers \ {w} : timers'[v] = timers[v]
        /\ timers_copy' = timers_copy /\ begun[w] \in Nat
    BY <1>2, <1>t DEF StopTimer, WorkStep, Timer
  <2>2. Clocked(timers'[w])
    BY <2>1 DEF ClocksInv, Clocked
  <2> QED
    BY <2>1, <2>2 DEF ClocksInv, Clocked
<1>3. ASSUME NEW r \in Reporters, CopyTimer(r) PROVE ClocksInv'
  <2> DEFINE w == threads[idx[r]]
  <2>1. w \in Workers
    BY <1>3, Constants DEF CopyTimer, Loop, From, StatsTypes, LocalTypes
  <2>2. /\ timers_copy' = [timers_copy EXCEPT ![w] = timers[w]]
        /\ timers' = [timers EXCEPT ![w] = [timers[w] EXCEPT !.events = {}]]
    BY <1>3 DEF CopyTimer
  <2> HIDE DEF w
  <2>3. \A v \in Workers : /\ timers'[v].start = timers[v].start /\ timers'[v].end = timers[v].end
                           /\ timers_copy'[v] \in {timers[v], timers_copy[v]}
    BY <2>1, <2>2, <1>t DEF Timer
  <2> QED
    BY <2>3 DEF ClocksInv, Clocked
<1>4. CASE /\ \A w \in Workers : ~StartTimer(w) /\ ~StopTimer(w)
           /\ \A r \in Reporters : ~CopyTimer(r)
  BY <1>4, TimersStay DEF ClocksInv, Clocked
<1> QED
  BY <1>1, <1>2, <1>3, <1>4

(* What the handler counts is what the copied clocks say.                  *)
LEMMA ExitStep ==
  ASSUME StatsTypes, HandlerOff, ExitInv, [Next]_vars
  PROVE  ExitInv'
<1>r. /\ Reporters = {"main", "report", "checkpoints", "handler"}
      /\ rpc \in [Reporters -> ReporterPoints]
  BY DEF Reporters, StatsTypes, LocalTypes
<1> USE <1>r DEF From, Loop, Runs
<1>1. CASE \E w \in Workers : Worker(w)
  BY <1>1 DEF ExitInv, Worker, WorkStep, StartTimer, StopTimer, UpdateHistogram, CountEvent, EndWorker
<1>2. CASE \/ \E r \in Reporters : Aggregate(r) \/ Lock(r) \/ FetchSlot(r) \/ Unlock(r)
           \/ \E r \in Reporters \ {"report"} :
                StoreNevents(r) \/ ResetArray(r) \/ ResetNevents(r) \/ CopyTimer(r)
           \/ AddToCumulative \/ AddNevents
  <2> SUFFICES rpc["handler"] # "exit" /\ rpc'["handler"] # "exit"
    BY DEF ExitInv
  <2>1. ASSUME NEW r \in Reporters, Aggregate(r) \/ Lock(r) \/ Unlock(r)
        PROVE  rpc["handler"] # "exit" /\ rpc'["handler"] # "exit"
    BY <2>1 DEF Aggregate, MergeCounters, ReadLast, ReplaceLast, Lock, Unlock
  <2>2. ASSUME NEW r \in Reporters,
               FetchSlot(r) \/ StoreNevents(r) \/ ResetArray(r) \/ ResetNevents(r)
        PROVE  rpc["handler"] # "exit" /\ rpc'["handler"] # "exit"
    BY <2>2 DEF FetchSlot, StoreNevents, ResetArray, ResetNevents
  <2>3. ASSUME NEW r \in Reporters \ {"report"}, CopyTimer(r)
        PROVE  rpc["handler"] # "exit" /\ rpc'["handler"] # "exit"
    <3>1. Checkpointed(r) # "exit"
      BY DEF Checkpointed
    <3> QED
      BY <2>3, <3>1 DEF CopyTimer
  <2>4. CASE AddToCumulative \/ AddNevents
    BY <2>4 DEF AddToCumulative, AddNevents
  <2> QED
    BY <1>2, <2>1, <2>2, <2>3, <2>4
<1>3. CASE CountUnfinished
  BY <1>3 DEF ExitInv, CountUnfinished, Books, timerVars, TimerRunning
<1>4. CASE OwnWay /\ ~CountUnfinished
  <2> SUFFICES rpc["handler"] # "exit" /\ rpc'["handler"] # "exit"
    BY DEF ExitInv
  <2>1. CASE StartReports
    BY <2>1 DEF StartReports
  <2>2. CASE CancelReport \/ CancelCheckpoints
    BY <2>2 DEF CancelReport, CancelCheckpoints, Cancel
  <2>3. CASE \/ JoinWorkers \/ Silence \/ PrintHistogram \/ WakeReport \/ WakeCheckpoint
             \/ LastCheckpoint \/ RaiseFlag("report") \/ RaiseFlag("checkpoints")
    BY <2>3 DEF JoinWorkers, Silence, PrintHistogram, WakeReport, WakeCheckpoint,
                LastCheckpoint, RaiseFlag
  <2> QED
    BY <1>4, <2>1, <2>2, <2>3 DEF OwnWay
<1>5. CASE ForcedShutdown
  BY <1>5 DEF ExitInv, ForcedShutdown
<1>6. CASE UNCHANGED vars
  BY <1>6 DEF ExitInv, TimerRunning, vars, timerVars, runVars
<1> QED
  BY <1>1, <1>2, <1>3, <1>4, <1>5, <1>6, StepCases

(* A forced shutdown loses no transaction (sigalrm_forced_shutdown_timer_  *)
(* handler): one that had begun when its timer was copied is either in a   *)
(* checkpoint's sums or its worker is counted as unfinished.               *)
THEOREM UnfinishedCorrect == Spec => []UnfinishedComplete
<1>1. Init => ClocksInv /\ ExitInv
  <2>1. 0 = 2 * 0 /\ 0 \in Nat
    OBVIOUS
  <2>2. Init => \A w \in Workers : timers[w].start = 0 /\ timers[w].end = 0 /\ timers_copy = timers
    BY DEF Init
  <2>3. Init => rpc["handler"] = "off"
    BY DEF Init, Reporters
  <2> QED
    BY <2>1, <2>2, <2>3 DEF ClocksInv, Clocked, ExitInv
<1>2. Spec => [](StatsTypes /\ ClocksInv /\ ExitInv)
  BY <1>1, ClocksStep, ExitStep, StatsInvariant, PTL DEF Spec
<1>3. StatsTypes /\ ClocksInv /\ ExitInv => UnfinishedComplete
  <2> SUFFICES ASSUME StatsTypes, ClocksInv, ExitInv, rpc["handler"] = "exit", NEW e \in Events,
                      2 * e[2] - 1 <= timers_copy[e[1]].start
               PROVE  e[1] \in unfinished
    BY DEF UnfinishedComplete
  <2> DEFINE t == timers_copy[e[1]]
  <2>1. e[1] \in Workers /\ e[2] \in Nat /\ e[2] >= 1
    BY Constants DEF Events
  <2>2. t \in Timer /\ Clocked(t)
    BY <2>1 DEF StatsTypes, TimerTypes, ClocksInv
  <2>3. t.start \in Nat /\ t.end \in Nat /\ t.start >= 1
    BY <2>1, <2>2, Constants DEF Timer
  <2> HIDE DEF t
  <2>4. t.start # t.end
    BY <2>2, <2>3 DEF Clocked
  <2> QED
    BY <2>1, <2>4 DEF ExitInv, TimerRunning, t
<1> QED
  BY <1>2, <1>3, PTL

-----------------------------------------------------------------------------
(* The histogram's books.                                                  *)

(* An event whose latency has been put into the histogram.                 *)
Recorded(e) ==
  IF wpc[e[1]] \in {"running", "stopped"} THEN e[2] < begun[e[1]] ELSE e[2] <= begun[e[1]]

(* No event is in two places at once.                                      *)
SlotsInv ==
  \A s \in 1..NSlots : \A e \in interm_slots[s] :
    /\ Recorded(e) /\ e \notin Collected /\ e \notin cumulative_array
    /\ e \notin closed.histogram
    /\ \A t \in (1..NSlots) \ {s} : e \notin interm_slots[t]

ArraysInv ==
  /\ \A e \in Collected : Recorded(e) /\ e \notin cumulative_array /\ e \notin closed.histogram
  /\ \A e \in cumulative_array : Recorded(e) /\ e \notin closed.histogram
  /\ \A e \in closed.histogram : Recorded(e)

LatencyInv == SlotsInv /\ ArraysInv

(* Every element of the array of slots is part of their union.             *)
LEMMA UnionOfSlots ==
  ASSUME NEW f, NEW S, DOMAIN f = S
  PROVE  \A e : e \in UNION Range(f) <=> \E s \in S : e \in f[s]
  BY DEF Range

(* Steps that leave the histogram and the recorded events as they are.     *)
LEMMA LatencyStay ==
  ASSUME StatsTypes, [Next]_vars,
         \A w \in Workers : ~UpdateHistogram(w),
         \A r \in Reporters : ~FetchSlot(r) /\ ~ResetArray(r),
         ~AddToCumulative
  PROVE  /\ interm_slots' = interm_slots /\ Collected' = Collected
         /\ cumulative_array' = cumulative_array /\ closed'.histogram = closed.histogram
         /\ \A e \in Events : Recorded(e) <=> Recorded(e)'
<1>p. /\ Reporters = {"main", "report", "checkpoints", "handler"}
      /\ rpc \in [Reporters -> ReporterPoints] /\ idx \in [Reporters -> Nat]
      /\ rpc["report"] = "lock" => idx["report"] = 1
  BY DEF Reporters, StatsTypes, LocalTypes
<1>w. /\ wpc \in [Workers -> WorkerPoints] /\ begun \in [Workers -> Nat]
      /\ Events = Workers \X (1..MaxEvents) /\ MaxEvents \in Nat
  BY Constants DEF StatsTypes, WorkTypes, Events
<1>c. closed \in [timer : SUBSET Events, histogram : SUBSET Events]
  BY DEF StatsTypes, TimerTypes
<1> USE <1>p, <1>w, <1>c DEF From, Loop
<1>1. CASE \E w \in Workers : Worker(w)
  <2>1. /\ interm_slots' = interm_slots /\ Collected' = Collected
        /\ cumulative_array' = cumulative_array /\ closed' = closed
    BY <1>1 DEF Worker, WorkStep, StartTimer, StopTimer, CountEvent, EndWorker,
                Collected, locals
  <2>2. \A e \in Events : Recorded(e) <=> Recorded(e)'
    BY <1>1 DEF Worker, WorkStep, StartTimer, StopTimer, CountEvent, EndWorker, Recorded
  <2> QED
    BY <2>1, <2>2
<1>2. ASSUME UNCHANGED workVars PROVE \A e \in Events : Recorded(e) <=> Recorded(e)'
  BY <1>2 DEF workVars, Recorded
<1>3. ASSUME NEW r \in Reporters, Aggregate(r) \/ Lock(r) \/ Unlock(r)
      PROVE  /\ interm_slots' = interm_slots /\ Collected' = Collected
             /\ cumulative_array' = cumulative_array /\ closed' = closed /\ UNCHANGED workVars
  <2>1. CASE MergeCounters(r)
    BY <2>1 DEF MergeCounters, histogram, Collected
  <2>2. CASE ReadLast(r)
    BY <2>2 DEF ReadLast, histogram, Collected
  <2>3. CASE ReplaceLast(r)
    <3>1. CASE r = "report"
      BY <2>3, <3>1 DEF ReplaceLast, histogram, Collected
    <3>2. CASE r # "report"
      <4>1. rpc'["report"] = rpc["report"] /\ idx'["report"] = idx["report"]
        BY <2>3, <3>2 DEF ReplaceLast, Restart
      <4> QED
        BY <2>3, <4>1 DEF ReplaceLast, histogram, Collected
    <3> QED
      BY <3>1, <3>2
  <2>4. CASE Lock(r)
    <3>1. UNCHANGED <<workVars, locals, interm_slots, cumulative_array, temp_array, closed>>
      BY <2>4 DEF Lock
    <3>2. CASE r = "report"
      <4>1. rpc["report"] = "lock" /\ rpc'["report"] = "slots"
        BY <2>4, <3>2 DEF Lock
      <4>2. idx'["report"] = 1
        BY <3>1, <4>1 DEF locals
      <4> QED
        BY <3>1, <4>1, <4>2 DEF Collected
    <3>3. CASE r # "report"
      <4>1. rpc'["report"] = rpc["report"]
        BY <2>4, <3>3 DEF Lock
      <4> QED
        BY <3>1, <4>1 DEF Collected, locals
    <3> QED
      BY <3>2, <3>3
  <2>5. CASE Unlock(r)
    BY <2>5 DEF Unlock, locals, Collected
  <2> QED
    BY <1>3, <2>1, <2>2, <2>3, <2>4, <2>5 DEF Aggregate
<1>4. ASSUME NEW r \in Reporters \ {"report"}, StoreNevents(r) \/ ResetNevents(r)
      PROVE  /\ interm_slots' = interm_slots /\ Collected' = Collected
             /\ cumulative_array' = cumulative_array /\ closed' = closed /\ UNCHANGED workVars
  <2>1. CASE StoreNevents(r)
    BY <1>4, <2>1 DEF StoreNevents, Restart, Collected
  <2>2. CASE ResetNevents(r)
    BY <1>4, <2>2 DEF ResetNevents, locals, Collected
  <2> QED
    BY <1>4, <2>1, <2>2
<1>5. ASSUME NEW r \in Reporters \ {"report"}, CopyTimer(r)
      PROVE  /\ interm_slots' = interm_slots /\ Collected' = Collected
             /\ cumulative_array' = cumulative_array /\ closed'.histogram = closed.histogram
             /\ UNCHANGED workVars
  BY <1>5 DEF CopyTimer, histogram, Collected
<1>6. CASE AddNevents
  BY <1>2, <1>6 DEF AddNevents, Restart, Collected
<1>7. CASE OwnWay \/ ForcedShutdown
  <2>1. UNCHANGED <<workVars, Books>>
    BY <1>7 DEF OwnWay, StartReports, JoinWorkers, Silence, CancelReport, CancelCheckpoints,
                Cancel, PrintHistogram, WakeReport, WakeCheckpoint, LastCheckpoint, RaiseFlag,
                CountUnfinished, ForcedShutdown, Books
  <2>2. rpc["report"] \in {"slots", "add"} \/ rpc'["report"] \in {"slots", "add"}
          => rpc'["report"] = rpc["report"]
    <3>1. CASE StartReports
      BY <3>1 DEF StartReports
    <3>2. CASE CancelReport \/ CancelCheckpoints
      BY <3>2 DEF CancelReport, CancelCheckpoints, Cancel
    <3>3. CASE \/ JoinWorkers \/ Silence \/ PrintHistogram \/ WakeReport \/ WakeCheckpoint
               \/ LastCheckpoint \/ RaiseFlag("report") \/ RaiseFlag("checkpoints")
               \/ CountUnfinished \/ ForcedShutdown
      BY <3>3 DEF JoinWorkers, Silence, PrintHistogram, WakeReport, WakeCheckpoint,
                  LastCheckpoint, RaiseFlag, CountUnfinished, ForcedShutdown
    <3> QED
      BY <1>7, <3>1, <3>2, <3>3 DEF OwnWay
  <2> QED
    BY <1>2, <2>1, <2>2 DEF Books, histogram, locals, Collected
<1>8. CASE UNCHANGED vars
  BY <1>2, <1>8 DEF vars, histogram, locals, workVars, Collected
<1> QED
  BY <1>1, <1>2, <1>3, <1>4, <1>5, <1>6, <1>7, <1>8, StepCases

(* An element's events go to the report thread's or the cumulative array.  *)
LEMMA FetchMoves ==
  ASSUME StatsTypes, NEW r \in Reporters, FetchSlot(r)
  PROVE  /\ idx[r] \in 1..NSlots
         /\ interm_slots' = [interm_slots EXCEPT ![idx[r]] = {}]
         /\ r = "report" => /\ Collected' = Collected \cup interm_slots[idx[r]]
                            /\ Collected' = temp_array'
                            /\ cumulative_array' = cumulative_array
         /\ r # "report" => /\ cumulative_array' = cumulative_array \cup interm_slots[idx[r]]
                            /\ Collected' = Collected
         /\ closed' = closed /\ wpc' = wpc /\ begun' = begun
<1>r. /\ "report" \in Reporters /\ rpc \in [Reporters -> ReporterPoints]
      /\ idx \in [Reporters -> Nat] /\ idx[r] \in 1..NSlots /\ NSlots \in Nat
  BY Constants DEF Reporters, StatsTypes, LocalTypes, FetchSlot, From, Loop
<1>1. CASE r = "report"
  <2>1. rpc'["report"] = (IF idx[r] = NSlots THEN "add" ELSE "slots")
        /\ idx'["report"] = (IF idx[r] = NSlots THEN 1 ELSE idx[r] + 1)
    BY <1>r, <1>1 DEF FetchSlot, From, Loop
  <2>2. Collected' = temp_array'
    BY <1>r, <2>1 DEF Collected
  <2>3. temp_array' = interm_slots[idx[r]] \cup Collected
    BY <1>r, <1>1 DEF FetchSlot, From, Loop, Collected
  <2> QED
    BY <1>r, <1>1, <2>2, <2>3 DEF FetchSlot, From, Loop, workVars
<1>2. CASE r # "report"
  BY <1>r, <1>2 DEF FetchSlot, From, Loop, workVars, Collected
<1> QED
  BY <1>1, <1>2

(* The report thread's array goes into the cumulative one, and into no other.*)
LEMMA AddMoves ==
  ASSUME StatsTypes, AddToCumulative
  PROVE  /\ Collected = temp_array /\ Collected' = {} /\ temp_array' = temp_array
         /\ cumulative_array' = cumulative_array \cup Collected
         /\ interm_slots' = interm_slots /\ closed' = closed /\ wpc' = wpc /\ begun' = begun
<1>r. "report" \in Reporters /\ rpc \in [Reporters -> ReporterPoints]
  BY DEF Reporters, StatsTypes, LocalTypes
<1> QED
  BY <1>r DEF AddToCumulative, From, workVars, Collected

(* A reset array is reported, and its events were nowhere else.            *)
LEMMA ResetMoves ==
  ASSUME StatsTypes, NEW r \in Reporters, ResetArray(r)
  PROVE  /\ closed'.histogram = closed.histogram \cup cumulative_array
         /\ cumulative_array' = {} /\ Collected' = Collected
         /\ interm_slots' = interm_slots /\ wpc' = wpc /\ begun' = begun
<1>r. /\ "report" \in Reporters /\ rpc \in [Reporters -> ReporterPoints]
      /\ closed \in [timer : SUBSET Events, histogram : SUBSET Events]
  BY DEF Reporters, StatsTypes, LocalTypes, TimerTypes
<1> QED
  BY <1>r DEF ResetArray, From, workVars, locals, Collected

(* A worker records an event that is in no array yet.                      *)
LEMMA UpdateMoves ==
  ASSUME StatsTypes, NEW w \in Workers, UpdateHistogram(w)
  PROVE  \E s \in 1..NSlots, new \in Events :
           /\ new = <<w, begun[w]>> /\ ~Recorded(new) /\ Recorded(new)'
           /\ interm_slots' = [interm_slots EXCEPT ![s] = @ \cup {new}]
           /\ \A e \in Events : Recorded(e)' <=> Recorded(e) \/ e = new
           /\ Collected' = Collected /\ cumulative_array' = cumulative_array /\ closed' = closed
<1>1. /\ begun[w] \in 1..MaxEvents /\ wpc \in [Workers -> WorkerPoints] /\ MaxEvents \in Nat
      /\ wpc[w] = "stopped" /\ wpc' = [wpc EXCEPT ![w] = "recorded"] /\ begun' = begun
  BY InAnEvent, Constants DEF UpdateHistogram, WorkStep, StatsTypes, WorkTypes
<1>2. PICK s \in 1..NSlots :
        interm_slots' = [interm_slots EXCEPT ![s] = @ \cup {<<w, begun[w]>>}]
  BY DEF UpdateHistogram
<1>3. PICK new \in Events : new = <<w, begun[w]>>
  <2>1. <<w, begun[w]>> \in Events
    BY <1>1 DEF Events
  <2> QED
    BY <2>1
<1>4. ~Recorded(new) /\ Recorded(new)'
  BY <1>1, <1>3 DEF Recorded
<1>5. \A e \in Events : Recorded(e)' <=> Recorded(e) \/ e = new
  BY <1>1, <1>3 DEF Recorded, Events
<1>6. Collected' = Collected /\ cumulative_array' = cumulative_array /\ closed' = closed
  BY DEF UpdateHistogram, WorkStep, locals, Collected
<1> QED
  BY <1>2, <1>3, <1>4, <1>5, <1>6

(* Every step keeps the books of the histogram.                            *)
LEMMA LatencyStep ==
  ASSUME StatsTypes, LatencyInv, [Next]_vars
  PROVE  LatencyInv'
<1>t. /\ interm_slots \in [1..NSlots -> SUBSET Events] /\ cumulative_array \subseteq Events
      /\ Collected \subseteq Events /\ closed.histogram \subseteq Events
  BY DEF StatsTypes, HistogramTypes, TimerTypes, Collected
<1>1. ASSUME NEW w \in Workers, UpdateHistogram(w) PROVE LatencyInv'
  <2>2. PICK s \in 1..NSlots, new \in Events :
          /\ ~Recorded(new) /\ Recorded(new)'
          /\ interm_slots' = [interm_slots EXCEPT ![s] = @ \cup {new}]
          /\ \A e \in Events : Recorded(e) => Recorded(e)'
          /\ Collected' = Collected /\ cumulative_array' = cumulative_array /\ closed' = closed
    BY <1>1, UpdateMoves
  <2>3. \A t \in 1..NSlots : interm_slots'[t] = interm_slots[t] \cup (IF t = s THEN {new} ELSE {})
    BY <2>2, <1>t
  <2>4. ArraysInv'
    BY <2>2, <1>t DEF LatencyInv, ArraysInv
  <2>5. /\ new \notin Collected /\ new \notin cumulative_array /\ new \notin closed.histogram
        /\ \A t \in 1..NSlots : new \notin interm_slots[t]
    BY <2>2 DEF LatencyInv, SlotsInv, ArraysInv
  <2>6. ASSUME NEW t \in 1..NSlots, NEW e \in interm_slots'[t]
        PROVE  /\ Recorded(e)' /\ e \notin Collected /\ e \notin cumulative_array
               /\ e \notin closed.histogram
               /\ \A u \in (1..NSlots) \ {t} : e \notin interm_slots'[u]
    <3>1. CASE e = new
      BY <2>2, <2>3, <2>5, <2>6, <3>1
    <3>2. CASE e # new
      <4>1. e \in interm_slots[t] /\ e \in Events
        BY <2>3, <2>6, <3>2, <1>t
      <4> QED
        BY <2>2, <2>3, <3>2, <4>1 DEF LatencyInv, SlotsInv
    <3> QED
      BY <3>1, <3>2
  <2> QED
    BY <2>2, <2>4, <2>6 DEF LatencyInv, SlotsInv
<1>2. ASSUME NEW r \in Reporters, FetchSlot(r) PROVE LatencyInv'
  <2>1. /\ idx[r] \in 1..NSlots
        /\ interm_slots' = [interm_slots EXCEPT ![idx[r]] = {}]
        /\ \/ /\ Collected' = Collected \cup interm_slots[idx[r]]
              /\ cumulative_array' = cumulative_array
           \/ /\ cumulative_array' = cumulative_array \cup interm_slots[idx[r]]
              /\ Collected' = Collected
        /\ closed' = closed /\ wpc' = wpc /\ begun' = begun
    BY <1>2, FetchMoves
  <2>2. \A s \in 1..NSlots : interm_slots'[s] = IF s = idx[r] THEN {} ELSE interm_slots[s]
    BY <2>1, <1>t
  <2>3. \A e : Recorded(e)' = Recorded(e)
    BY <2>1 DEF Recorded
  <2>4. SlotsInv'
    BY <2>1, <2>2, <2>3 DEF LatencyInv, SlotsInv
  <2>5. ArraysInv'
    BY <2>1, <2>3 DEF LatencyInv, SlotsInv, ArraysInv
  <2> QED
    BY <2>4, <2>5 DEF LatencyInv
<1>3. CASE AddToCumulative
  BY <1>3, <1>t, AddMoves DEF LatencyInv, SlotsInv, ArraysInv, Recorded
<1>4. ASSUME NEW r \in Reporters, ResetArray(r) PROVE LatencyInv'
  BY <1>4, <1>t, ResetMoves DEF LatencyInv, SlotsInv, ArraysInv, Recorded
<1>5. CASE /\ \A w \in Workers : ~UpdateHistogram(w)
           /\ \A r \in Reporters : ~FetchSlot(r) /\ ~ResetArray(r)
           /\ ~AddToCumulative
  <2>1. /\ interm_slots' = interm_slots /\ Collected' = Collected
        /\ cumulative_array' = cumulative_array /\ closed'.histogram = closed.histogram
        /\ \A e \in Events : Recorded(e) => Recorded(e)'
    BY <1>5, LatencyStay
  <2> QED
    BY <2>1, <1>t DEF LatencyInv, SlotsInv, ArraysInv
<1> QED
  BY <1>1, <1>2, <1>3, <1>4, <1>5

(* The books of the histogram hold in every state.                         *)
LEMMA LatencyInvariant == Spec => []LatencyInv
<1>1. Init => LatencyInv
  BY DEF Init, LatencyInv, SlotsInv, ArraysInv, Collected, Reporters
<1> QED
  BY <1>1, LatencyStep, StatsInvariant, PTL DEF Spec

(* Every latency the workers put into the histogram without a lock         *)
(* (sb_histogram_update) is seen by one checkpoint, and by one only,       *)
(* although the elements are emptied one after the other, through the      *)
(* report thread's temporary array or straight into the cumulative one.    *)
THEOREM LatenciesReportedOnce == Spec => EveryLatencyReportedOnce
<1>1. Init => HistogramBooked!Init
  <2> SUFFICES ASSUME Init PROVE HistogramBooked!Init
    OBVIOUS
  <2>1. Collected = {} /\ cumulative_array = {} /\ closed.histogram = {}
    BY DEF Init, Collected, Reporters
  <2>2. UNION Range(interm_slots) = {}
    BY DEF Init, Range
  <2> QED
    BY <2>1, <2>2 DEF HistogramBooked!Init
<1>2. StatsTypes /\ StatsTypes' /\ LatencyInv /\ [Next]_vars
        => [HistogramBooked!Next]_(HistogramBooked!vars)
  <2> SUFFICES ASSUME StatsTypes, StatsTypes', LatencyInv, [Next]_vars
               PROVE  [HistogramBooked!Next]_(HistogramBooked!vars)
    OBVIOUS
  <2> DEFINE slots == UNION Range(interm_slots)
             open == slots \cup Collected \cup cumulative_array
  <2>t. /\ interm_slots \in [1..NSlots -> SUBSET Events]
        /\ interm_slots' \in [1..NSlots -> SUBSET Events]
    BY DEF StatsTypes, HistogramTypes
  <2>u. /\ \A e : e \in slots <=> \E s \in 1..NSlots : e \in interm_slots[s]
        /\ \A e : e \in slots' <=> \E s \in 1..NSlots : e \in interm_slots'[s]
    BY <2>t, UnionOfSlots
  <2> HIDE DEF slots
  <2> SUFFICES \/ \E e \in Events : e \notin open \cup closed.histogram /\ open' = open \cup {e}
                                    /\ closed'.histogram = closed.histogram
               \/ \E batch \in SUBSET open : /\ open' = open \ batch
                                             /\ closed'.histogram = closed.histogram \cup batch
               \/ open' = open /\ closed'.histogram = closed.histogram
    BY DEF slots, HistogramBooked!vars, HistogramBooked!Next, HistogramBooked!Finish,
           HistogramBooked!Report
  <2>1. ASSUME NEW w \in Workers, UpdateHistogram(w)
        PROVE  \E e \in Events : e \notin open \cup closed.histogram /\ open' = open \cup {e}
                                 /\ closed'.histogram = closed.histogram
    <3>1. PICK s \in 1..NSlots, new \in Events :
            /\ ~Recorded(new)
            /\ interm_slots' = [interm_slots EXCEPT ![s] = @ \cup {new}]
            /\ Collected' = Collected /\ cumulative_array' = cumulative_array /\ closed' = closed
      BY <2>1, UpdateMoves
    <3>2. \A t \in 1..NSlots : interm_slots'[t] = interm_slots[t] \cup (IF t = s THEN {new} ELSE {})
      BY <3>1, <2>t
    <3>3. slots' = slots \cup {new}
      BY <3>2, <2>u
    <3>4. new \notin open \cup closed.histogram
      BY <3>1, <2>u DEF LatencyInv, SlotsInv, ArraysInv
    <3> QED
      BY <3>1, <3>3, <3>4
  <2>2. ASSUME NEW r \in Reporters, FetchSlot(r)
        PROVE  open' = open /\ closed'.histogram = closed.histogram
    <3>1. /\ idx[r] \in 1..NSlots
          /\ interm_slots' = [interm_slots EXCEPT ![idx[r]] = {}]
          /\ \/ /\ Collected' = Collected \cup interm_slots[idx[r]]
                /\ cumulative_array' = cumulative_array
             \/ /\ cumulative_array' = cumulative_array \cup interm_slots[idx[r]]
                /\ Collected' = Collected
          /\ closed' = closed
      BY <2>2, FetchMoves
    <3>2. \A s \in 1..NSlots : interm_slots'[s] = IF s = idx[r] THEN {} ELSE interm_slots[s]
      BY <3>1, <2>t
    <3>3. slots' \cup interm_slots[idx[r]] = slots
      BY <3>1, <3>2, <2>u
    <3> QED
      BY <3>1, <3>3
  <2>3. CASE AddToCumulative
    <3>1. slots' = slots
      BY <2>3, AddMoves, <2>u
    <3> QED
      BY <2>3, <3>1, AddMoves
  <2>4. ASSUME NEW r \in Reporters, ResetArray(r)
        PROVE  \E batch \in SUBSET open : /\ open' = open \ batch
                                          /\ closed'.histogram = closed.histogram \cup batch
    <3>1. slots' = slots
      BY <2>4, ResetMoves, <2>u
    <3>2. \A e \in cumulative_array : e \notin slots /\ e \notin Collected
      BY <2>u DEF LatencyInv, SlotsInv, ArraysInv
    <3>3. /\ closed'.histogram = closed.histogram \cup cumulative_array
          /\ cumulative_array' = {} /\ Collected' = Collected
      BY <2>4, ResetMoves
    <3>4. open' = open \ cumulative_array
      BY <3>1, <3>2, <3>3
    <3>5. cumulative_array \subseteq open
      OBVIOUS
    <3> QED
      BY <3>3, <3>4, <3>5
  <2>5. CASE /\ \A w \in Workers : ~UpdateHistogram(w)
             /\ \A r \in Reporters : ~FetchSlot(r) /\ ~ResetArray(r)
             /\ ~AddToCumulative
    <3>1. /\ interm_slots' = interm_slots /\ Collected' = Collected
          /\ cumulative_array' = cumulative_array /\ closed'.histogram = closed.histogram
      BY <2>5, LatencyStay
    <3>2. slots' = slots
      BY <3>1, <2>u
    <3> QED
      BY <3>1, <3>2
  <2> QED
    BY <2>1, <2>2, <2>3, <2>4, <2>5
<1> QED
  BY <1>1, <1>2, StatsInvariant, LatencyInvariant, PTL
     DEF Spec, EveryLatencyReportedOnce, HistogramBooked!Spec

-----------------------------------------------------------------------------
(* The histogram's lock, and the number of events under it.                *)

InSection(r) == rpc[r] \in {"slots", "add", "add_nevents", "nevents", "print",
                            "percentile", "reset", "unlock"}

LockInv ==
  /\ \A r \in Reporters \ {"handler"} : InSection(r) /\ interrupted # r => lock = r
  /\ InSection("handler") => lock = "handler" \/ (lock = interrupted /\ lock # "none")

Agree == cumulative_nevents = Cardinality(cumulative_array)

(* What the thread with the lock knows of the two, point by point.         *)
Section(r) ==
  /\ rpc[r] \notin {"slots", "nevents", "add_nevents", "reset"} => Agree
  /\ rpc[r] = "slots" /\ (r = "report" \/ idx[r] = 1) => Agree
  /\ (rpc[r] = "slots" /\ r # "report" /\ idx[r] > 1) \/ rpc[r] = "nevents"
       => sum[r] = Cardinality(cumulative_array)
  /\ rpc[r] = "add_nevents"
       => cumulative_nevents + sum[r] = Cardinality(cumulative_array)
  /\ rpc[r] = "reset" => cumulative_array = {}

(* The report thread counts what it collects.                              *)
CollectedInv ==
  rpc["report"] = "add" \/ (rpc["report"] = "slots" /\ idx["report"] > 1)
    => sum["report"] = Cardinality(temp_array)

NeventsInv ==
  /\ lock = "none" => Agree
  /\ \A r \in Reporters : lock = r /\ interrupted # r => Section(r)
  /\ rpc["handler"] = "reset" => cumulative_array = {}
  /\ rpc["handler"] = "unlock" => Agree

PercentileInv == LockInv /\ NeventsInv /\ CollectedInv

(* The types of what the lock's proofs read.                               *)
LEMMA Names ==
  ASSUME StatsTypes
  PROVE  /\ Reporters = {"main", "report", "checkpoints", "handler"}
         /\ rpc \in [Reporters -> ReporterPoints] /\ idx \in [Reporters -> Nat]
         /\ sum \in [Reporters -> Nat]
         /\ lock \in Reporters \cup {"none"} /\ "none" \notin Reporters
  BY DEF Reporters, StatsTypes, LocalTypes, HistogramTypes

(* The steps that take the lock, need it, or release it.                   *)
SectionStep ==
  \/ \E r \in Reporters : Lock(r) \/ FetchSlot(r) \/ Unlock(r)
  \/ \E r \in Reporters \ {"report"} : StoreNevents(r) \/ ResetArray(r) \/ ResetNevents(r)
  \/ AddToCumulative \/ AddNevents \/ PrintHistogram

(* All other steps leave what the lock protects, and the threads that have *)
(* the lock or wait for it, as they are.                                   *)
LEMMA OutsideSteps ==
  ASSUME StatsTypes, [Next]_vars, ~SectionStep, ~ForcedShutdown
  PROVE  /\ UNCHANGED <<lock, interrupted, temp_array, cumulative_array, cumulative_nevents>>
         /\ \A s \in Reporters :
              \/ rpc'[s] = rpc[s] /\ idx'[s] = idx[s] /\ sum'[s] = sum[s]
              \/ ~InSection(s) /\ ~InSection(s)'
<1> USE Names DEF From, Loop
<1>1. CASE \E w \in Workers : Worker(w)
  BY <1>1 DEF Worker, WorkStep, StartTimer, StopTimer, UpdateHistogram, CountEvent, EndWorker,
              locals, runVars
<1>2. ASSUME NEW r \in Reporters, Aggregate(r)
      PROVE  /\ UNCHANGED <<lock, interrupted, temp_array, cumulative_array, cumulative_nevents>>
             /\ \A s \in Reporters :
                  \/ rpc'[s] = rpc[s] /\ idx'[s] = idx[s] /\ sum'[s] = sum[s]
                  \/ ~InSection(s) /\ ~InSection(s)'
  <2>1. CASE MergeCounters(r)
    BY <2>1 DEF MergeCounters, histogram, runVars, InSection
  <2>2. CASE ReadLast(r)
    BY <2>2 DEF ReadLast, histogram, runVars, InSection
  <2>3. CASE ReplaceLast(r)
    BY <2>3 DEF ReplaceLast, Restart, histogram, runVars, InSection
  <2> QED
    BY <1>2, <2>1, <2>2, <2>3 DEF Aggregate
<1>3. ASSUME NEW r \in Reporters \ {"report"}, CopyTimer(r)
      PROVE  /\ UNCHANGED <<lock, interrupted, temp_array, cumulative_array, cumulative_nevents>>
             /\ \A s \in Reporters :
                  \/ rpc'[s] = rpc[s] /\ idx'[s] = idx[s] /\ sum'[s] = sum[s]
                  \/ ~InSection(s) /\ ~InSection(s)'
  <2>1. Checkpointed(r) \in {"done", "start", "sleep", "unfinished"}
    BY DEF Checkpointed
  <2> QED
    BY <1>3, <2>1 DEF CopyTimer, histogram, runVars, InSection
<1>4. CASE OwnWay
  <2>1. UNCHANGED <<lock, temp_array, cumulative_array, cumulative_nevents, idx, sum, interrupted>>
    BY <1>4 DEF OwnWay, StartReports, JoinWorkers, Silence, CancelReport, CancelCheckpoints,
                Cancel, PrintHistogram, WakeReport, WakeCheckpoint, LastCheckpoint, RaiseFlag,
                CountUnfinished, Books, histogram, locals, runVars
  <2>2. \A s \in Reporters : rpc'[s] = rpc[s] \/ (~InSection(s) /\ ~InSection(s)')
    <3>1. CASE StartReports
      BY <3>1 DEF StartReports, InSection
    <3>2. CASE CancelReport
      BY <3>2 DEF CancelReport, Cancel, InSection
    <3>3. CASE CancelCheckpoints
      BY <3>3 DEF CancelCheckpoints, Cancel, InSection
    <3>4. CASE \/ JoinWorkers \/ Silence \/ WakeReport \/ WakeCheckpoint
               \/ LastCheckpoint \/ RaiseFlag("report") \/ RaiseFlag("checkpoints")
               \/ CountUnfinished
      BY <3>4 DEF JoinWorkers, Silence, WakeReport, WakeCheckpoint, LastCheckpoint, RaiseFlag,
                  CountUnfinished, InSection
    <3> QED
      BY <1>4, <3>1, <3>2, <3>3, <3>4 DEF OwnWay, SectionStep
  <2> QED
    BY <2>1, <2>2
<1>5. CASE UNCHANGED vars
  BY <1>5 DEF vars, histogram, locals, runVars, InSection
<1> QED
  BY <1>1, <1>2, <1>3, <1>4, <1>5, StepCases DEF SectionStep

(* Only the handler may be in the section without the lock, and then no    *)
(* thread that can run has it.                                             *)
LEMMA Alone ==
  ASSUME StatsTypes, LockInv, NEW r \in Reporters, Runs(r), InSection(r)
  PROVE  /\ lock \in Reporters
         /\ lock = r \/ (r = "handler" /\ lock = interrupted)
         /\ \A s \in Reporters \ {r} : lock = s => interrupted = s
         /\ r # "handler" => ~InSection("handler")
  BY Names DEF LockInv, Runs

(* One step of a reporter in the section leaves the others as they are.    *)
LEMMA OneMoves ==
  ASSUME StatsTypes, NEW r \in Reporters,
         \/ FetchSlot(r) \/ (r # "report" /\ StoreNevents(r)) \/ ResetArray(r) \/ ResetNevents(r)
         \/ r = "report" /\ (AddToCumulative \/ AddNevents)
         \/ r = "main" /\ PrintHistogram
  PROVE  /\ Runs(r) /\ InSection(r) /\ lock' = lock /\ interrupted' = interrupted
         /\ \A s \in Reporters \ {r} :
              rpc'[s] = rpc[s] /\ idx'[s] = idx[s] /\ sum'[s] = sum[s]
<1> USE Names DEF From, Loop, InSection
<1>1. CASE FetchSlot(r)
  BY <1>1 DEF FetchSlot, runVars
<1>2. CASE StoreNevents(r)
  BY <1>2 DEF StoreNevents, Restart, runVars
<1>3. CASE ResetArray(r) \/ ResetNevents(r)
  BY <1>3 DEF ResetArray, ResetNevents, locals, runVars
<1>4. CASE r = "report" /\ (AddToCumulative \/ AddNevents)
  BY <1>4 DEF AddToCumulative, AddNevents, Restart, locals, runVars
<1>5. CASE r = "main" /\ PrintHistogram
  BY <1>5 DEF PrintHistogram, histogram, locals
<1> QED
  BY <1>1, <1>2, <1>3, <1>4, <1>5

(* Every step keeps to the lock.                                           *)
LEMMA LockStep ==
  ASSUME StatsTypes, HandlerOff, LockInv, [Next]_vars
  PROVE  LockInv'
<1> USE Names
<1>1. ASSUME NEW r \in Reporters, Lock(r) PROVE LockInv'
  <2>1. /\ rpc' = [rpc EXCEPT ![r] = "slots"] /\ interrupted' = interrupted
        /\ lock \in {"none", r} \/ (r = "handler" /\ lock = interrupted)
        /\ lock' = IF lock = "none" THEN r ELSE lock
        /\ interrupted # r /\ rpc[r] = "lock"
    BY <1>1 DEF Lock, From, Runs, runVars
  <2>2. r = "handler" => interrupted # "none"
    BY <2>1 DEF HandlerOff
  <2>3. ASSUME NEW s \in Reporters \ {r} PROVE InSection(s)' <=> InSection(s)
    BY <2>1 DEF InSection
  <2>4. CASE lock = "none"
    BY <2>1, <2>2, <2>3, <2>4 DEF LockInv
  <2>5. CASE lock = r
    BY <2>1, <2>2, <2>3, <2>5 DEF LockInv
  <2>6. CASE r = "handler" /\ lock = interrupted /\ lock # "none"
    BY <2>1, <2>2, <2>3, <2>6 DEF LockInv
  <2> QED
    BY <2>1, <2>4, <2>5, <2>6
<1>2. ASSUME NEW r \in Reporters, Unlock(r) PROVE LockInv'
  <2>1. /\ interrupted' = interrupted /\ interrupted # r /\ Runs(r) /\ InSection(r)
        /\ ~InSection(r)'
        /\ \A s \in Reporters \ {r} : InSection(s)' <=> InSection(s)
    BY <1>2 DEF Unlock, From, Runs, InSection
  <2>2. /\ lock = r \/ (r = "handler" /\ lock = interrupted)
        /\ \A s \in Reporters \ {r} : lock = s => interrupted = s
        /\ r # "handler" => ~InSection("handler")
    BY <2>1, Alone
  <2> QED
    BY <2>1, <2>2 DEF LockInv
<1>3. ASSUME NEW r \in Reporters,
             \/ FetchSlot(r) \/ (r # "report" /\ StoreNevents(r)) \/ ResetArray(r) \/ ResetNevents(r)
             \/ r = "report" /\ (AddToCumulative \/ AddNevents)
             \/ r = "main" /\ PrintHistogram
      PROVE  LockInv'
  <2>1. /\ InSection(r) /\ lock' = lock /\ interrupted' = interrupted
        /\ \A s \in Reporters \ {r} : rpc'[s] = rpc[s]
    BY <1>3, OneMoves
  <2> QED
    BY <2>1 DEF LockInv, InSection
<1>4. CASE ForcedShutdown
  <2>1. /\ lock' = lock /\ interrupted = "none" /\ rpc' = [rpc EXCEPT !["handler"] = "count"]
    BY <1>4 DEF ForcedShutdown, Books, histogram
  <2> QED
    BY <2>1 DEF LockInv, InSection
<1>5. CASE ~SectionStep /\ ~ForcedShutdown
  BY <1>5, OutsideSteps DEF LockInv, InSection
<1> QED
  BY <1>1, <1>2, <1>3, <1>4, <1>5 DEF SectionStep

(* Two finite sets with nothing in common are counted together.            *)
LEMMA DisjointUnion ==
  ASSUME NEW S \in SUBSET Events, NEW T \in SUBSET Events, \A e \in S : e \notin T
  PROVE  /\ Cardinality(S \cup T) = Cardinality(S) + Cardinality(T)
         /\ Cardinality(S) \in Nat /\ Cardinality(T) \in Nat
<1>1. IsFiniteSet(S) /\ IsFiniteSet(T) /\ S \cap T = {}
  BY EventsFinite, FS_Subset
<1>2. Cardinality(S) \in Nat /\ Cardinality(T) \in Nat
  BY <1>1, FS_CardinalityType
<1>3. Cardinality(S \cup T) = Cardinality(S) + Cardinality(T) - Cardinality({})
  BY <1>1, FS_Union
<1>4. Cardinality({}) = 0
  BY FS_EmptySet
<1> QED
  BY <1>2, <1>3, <1>4

(* The report thread's own sum is the number of events it has collected.   *)
LEMMA CollectedStep ==
  ASSUME StatsTypes, LatencyInv, CollectedInv, [Next]_vars
  PROVE  CollectedInv'
<1> USE Names
<1>1. ASSUME NEW r \in Reporters \ {"report"},
             \/ FetchSlot(r) \/ StoreNevents(r) \/ ResetArray(r) \/ ResetNevents(r)
             \/ r = "main" /\ PrintHistogram
      PROVE  CollectedInv'
  <2>1. rpc'["report"] = rpc["report"] /\ idx'["report"] = idx["report"] /\ sum'["report"] = sum["report"]
    BY <1>1, OneMoves
  <2>2. temp_array' = temp_array
    BY <1>1 DEF FetchSlot, StoreNevents, ResetArray, ResetNevents, PrintHistogram, histogram
  <2> QED
    BY <2>1, <2>2 DEF CollectedInv
<1>2. CASE FetchSlot("report")
  <2> DEFINE fetched == interm_slots[idx["report"]]
  <2>1. /\ idx["report"] \in 1..NSlots /\ NSlots \in Nat
        /\ Collected' = Collected \cup fetched /\ Collected' = temp_array'
    BY <1>2, FetchMoves, Constants
  <2>2. fetched \subseteq Events /\ Collected \subseteq Events /\ \A e \in Collected : e \notin fetched
    BY <2>1 DEF StatsTypes, HistogramTypes, LatencyInv, SlotsInv, Collected
  <2>3. sum'["report"] = (IF idx["report"] > 1 THEN sum["report"] ELSE 0) + Cardinality(fetched)
    BY <1>2 DEF FetchSlot
  <2>4. (IF idx["report"] > 1 THEN sum["report"] ELSE 0) = Cardinality(Collected)
    BY <1>2, FS_EmptySet DEF FetchSlot, Loop, From, CollectedInv, Collected
  <2> HIDE DEF fetched
  <2>5. Cardinality(Collected \cup fetched) = Cardinality(Collected) + Cardinality(fetched)
    BY <2>2, DisjointUnion
  <2> QED
    BY <2>1, <2>3, <2>4, <2>5 DEF CollectedInv
<1>3. ASSUME NEW r \in Reporters, Lock(r) PROVE CollectedInv'
  <2>1. /\ rpc' = [rpc EXCEPT ![r] = "slots"] /\ rpc[r] = "lock"
        /\ UNCHANGED <<idx, sum, temp_array>>
    BY <1>3 DEF Lock, From, locals
  <2>2. idx[r] = 1
    BY <2>1 DEF StatsTypes, LocalTypes
  <2> QED
    BY <2>1, <2>2 DEF CollectedInv
<1>4. ASSUME NEW r \in Reporters, Unlock(r) PROVE CollectedInv'
  <2>1. /\ rpc'[r] \in {"sleep", "count", "timers"}
        /\ \A s \in Reporters \ {r} : rpc'[s] = rpc[s]
        /\ UNCHANGED <<idx, sum, temp_array>>
    BY <1>4 DEF Unlock, From, locals
  <2> QED
    BY <2>1 DEF CollectedInv
<1>5. CASE AddToCumulative \/ AddNevents
  BY <1>5 DEF AddToCumulative, AddNevents, From, CollectedInv
<1>6. CASE ForcedShutdown
  <2>1. UNCHANGED <<idx, sum, temp_array>> /\ rpc' = [rpc EXCEPT !["handler"] = "count"]
    BY <1>6 DEF ForcedShutdown, Books, histogram, locals
  <2> QED
    BY <2>1 DEF CollectedInv
<1>7. CASE ~SectionStep /\ ~ForcedShutdown
  <2>1. \/ /\ rpc'["report"] = rpc["report"] /\ idx'["report"] = idx["report"]
           /\ sum'["report"] = sum["report"]
        \/ ~InSection("report")'
    BY <1>7, OutsideSteps
  <2>2. temp_array' = temp_array
    BY <1>7, OutsideSteps
  <2> QED
    BY <2>1, <2>2 DEF CollectedInv, InSection
<1> QED
  BY <1>1, <1>2, <1>3, <1>4, <1>5, <1>6, <1>7 DEF SectionStep

(* What a step in the section must show: the reporter's own point, if it   *)
(* has the lock; and the handler's two points, if it is the handler.       *)
LEMMA InSectionStep ==
  ASSUME StatsTypes, LockInv, NeventsInv, NEW r \in Reporters,
         \/ FetchSlot(r) \/ (r # "report" /\ StoreNevents(r)) \/ ResetArray(r) \/ ResetNevents(r)
         \/ r = "report" /\ (AddToCumulative \/ AddNevents)
         \/ r = "main" /\ PrintHistogram,
         lock = r => Section(r)',
         r = "handler" => /\ rpc'[r] = "reset" => cumulative_array' = {}
                          /\ rpc'[r] = "unlock" => Agree'
  PROVE  NeventsInv'
<1> USE Names
<1>1. /\ Runs(r) /\ InSection(r) /\ lock' = lock /\ interrupted' = interrupted
      /\ \A s \in Reporters \ {r} : rpc'[s] = rpc[s]
  BY OneMoves
<1>2. /\ lock \in Reporters
      /\ \A s \in Reporters \ {r} : lock = s => interrupted = s
      /\ r # "handler" => ~InSection("handler")
  BY <1>1, Alone
<1>3. \A s \in Reporters : lock' = s /\ interrupted' # s => Section(s)'
  <2> SUFFICES ASSUME NEW s \in Reporters, lock = s, interrupted # s PROVE Section(s)'
    BY <1>1
  <2>1. s = r
    BY <1>2
  <2> QED
    BY <2>1
<1>4. r # "handler" => rpc'["handler"] \notin {"reset", "unlock"}
  BY <1>1, <1>2 DEF InSection
<1> QED
  BY <1>1, <1>2, <1>3, <1>4 DEF NeventsInv

(* Every step keeps the number of events and the array together.           *)
LEMMA NeventsStep ==
  ASSUME StatsTypes, HandlerOff, LatencyInv, PercentileInv, [Next]_vars
  PROVE  NeventsInv'
<1> USE Names DEF PercentileInv
<1>t. cumulative_nevents \in Nat /\ cumulative_array \subseteq Events
      /\ Cardinality(cumulative_array) \in Nat
  BY EventsFinite, FS_Subset, FS_CardinalityType DEF StatsTypes, HistogramTypes
<1>o. ASSUME NEW r \in Reporters, Runs(r), lock = r PROVE Section(r)
  BY <1>o DEF Runs, NeventsInv
<1>1. ASSUME NEW r \in Reporters \ {"report"}, FetchSlot(r) PROVE NeventsInv'
  <2> DEFINE fetched == interm_slots[idx[r]]
  <2>1. /\ idx[r] \in 1..NSlots /\ NSlots \in Nat /\ fetched \subseteq Events
        /\ cumulative_array' = cumulative_array \cup fetched
        /\ \A e \in cumulative_array : e \notin fetched
    BY <1>1, FetchMoves, Constants DEF StatsTypes, HistogramTypes, LatencyInv, SlotsInv
  <2>2. /\ Runs(r) /\ rpc[r] = "slots" /\ cumulative_nevents' = cumulative_nevents
        /\ sum'[r] = (IF idx[r] > 1 THEN sum[r] ELSE cumulative_nevents) + Cardinality(fetched)
        /\ rpc'[r] = IF idx[r] = NSlots THEN "nevents" ELSE "slots"
        /\ idx'[r] = IF idx[r] = NSlots THEN 1 ELSE idx[r] + 1
    BY <1>1 DEF FetchSlot, Loop, From
  <2> HIDE DEF fetched
  <2>3. Cardinality(cumulative_array') = Cardinality(cumulative_array) + Cardinality(fetched)
    BY <2>1, <1>t, DisjointUnion
  <2>4. lock = r => Section(r)'
    <3> SUFFICES ASSUME lock = r PROVE Section(r)'
      OBVIOUS
    <3>1. Section(r)
      BY <2>2, <1>o
    <3>2. (IF idx[r] > 1 THEN sum[r] ELSE cumulative_nevents) = Cardinality(cumulative_array)
      BY <3>1, <2>1, <2>2 DEF Section, Agree
    <3>3. sum'[r] = Cardinality(cumulative_array')
      BY <3>2, <2>2, <2>3
    <3> QED
      BY <3>3, <2>1, <2>2 DEF Section
  <2>5. rpc'[r] \notin {"reset", "unlock"}
    BY <2>2
  <2> QED
    BY <1>1, <2>4, <2>5, InSectionStep
<1>2. CASE FetchSlot("report")
  <2>1. Runs("report") /\ rpc["report"] = "slots" /\ rpc'["report"] \in {"slots", "add"}
    BY <1>2 DEF FetchSlot, Loop, From
  <2>2. UNCHANGED <<cumulative_array, cumulative_nevents>>
    BY <1>2 DEF FetchSlot
  <2>3. lock = "report" => Section("report")'
    BY <2>1, <2>2, <1>o DEF Section, Agree
  <2> QED
    BY <1>2, <2>3, InSectionStep
<1>3. CASE AddToCumulative
  <2>1. Runs("report") /\ rpc["report"] = "add" /\ rpc'["report"] = "add_nevents"
        /\ UNCHANGED <<cumulative_nevents, sum>>
    BY <1>3 DEF AddToCumulative, From, locals
  <2>2. /\ Collected = temp_array /\ Collected \subseteq Events
        /\ cumulative_array' = cumulative_array \cup Collected
        /\ \A e \in cumulative_array : e \notin Collected
    BY <1>3, AddMoves DEF LatencyInv, ArraysInv, StatsTypes, HistogramTypes
  <2>3. Cardinality(cumulative_array') = Cardinality(cumulative_array) + Cardinality(temp_array)
    BY <2>2, <1>t, DisjointUnion
  <2>4. sum["report"] = Cardinality(temp_array)
    BY <2>1 DEF CollectedInv
  <2>5. lock = "report" => Section("report")'
    BY <2>1, <2>3, <2>4, <1>o DEF Section, Agree
  <2> QED
    BY <1>3, <2>5, InSectionStep
<1>4. CASE AddNevents
  <2>1. /\ Runs("report") /\ rpc["report"] = "add_nevents" /\ rpc'["report"] = "unlock"
        /\ cumulative_nevents' = cumulative_nevents + sum["report"]
        /\ cumulative_array' = cumulative_array
    BY <1>4 DEF AddNevents, From
  <2>2. lock = "report" => Section("report")'
    BY <2>1, <1>o DEF Section, Agree
  <2> QED
    BY <1>4, <2>2, InSectionStep
<1>5. ASSUME NEW r \in Reporters \ {"report"}, StoreNevents(r) PROVE NeventsInv'
  <2>1. /\ Runs(r) /\ rpc[r] = "nevents" /\ rpc'[r] \in {"print", "percentile"}
        /\ cumulative_nevents' = sum[r] /\ cumulative_array' = cumulative_array
    BY <1>5 DEF StoreNevents, From
  <2>2. lock = r => Section(r)'
    BY <2>1, <1>o DEF Section, Agree
  <2> QED
    BY <1>5, <2>1, <2>2, InSectionStep
<1>6. ASSUME NEW r \in Reporters, ResetArray(r) PROVE NeventsInv'
  <2>1. Runs(r) /\ rpc'[r] = "reset" /\ cumulative_array' = {}
    BY <1>6 DEF ResetArray, From
  <2>2. Section(r)'
    BY <2>1 DEF Section
  <2> QED
    BY <1>6, <2>1, <2>2, InSectionStep
<1>7. ASSUME NEW r \in Reporters, ResetNevents(r) PROVE NeventsInv'
  <2>1. /\ Runs(r) /\ rpc[r] = "reset" /\ rpc'[r] = "unlock"
        /\ cumulative_nevents' = 0 /\ cumulative_array' = cumulative_array
    BY <1>7 DEF ResetNevents, From
  <2>2. lock = r \/ r = "handler" => cumulative_array = {}
    BY <2>1, <1>o DEF Section, NeventsInv
  <2>3. lock = r \/ r = "handler" => Agree'
    BY <2>1, <2>2, FS_EmptySet DEF Agree
  <2>4. lock = r => Section(r)'
    BY <2>1, <2>3 DEF Section
  <2> QED
    BY <1>7, <2>1, <2>3, <2>4, InSectionStep
<1>8. CASE PrintHistogram
  <2>1. /\ Runs("main") /\ rpc["main"] = "print" /\ rpc'["main"] \in {"count", "unlock"}
        /\ UNCHANGED <<cumulative_nevents, cumulative_array>>
    BY <1>8 DEF PrintHistogram, From, histogram
  <2>2. lock = "main" => Section("main")'
    BY <2>1, <1>o DEF Section, Agree
  <2> QED
    BY <1>8, <2>2, InSectionStep
<1>9. ASSUME NEW r \in Reporters, Lock(r) PROVE NeventsInv'
  <2>1. /\ rpc' = [rpc EXCEPT ![r] = "slots"] /\ interrupted' = interrupted
        /\ lock \in {"none", r} \/ (r = "handler" /\ lock = interrupted)
        /\ lock' = IF lock = "none" THEN r ELSE lock
        /\ Runs(r) /\ interrupted # r /\ rpc[r] = "lock"
        /\ UNCHANGED <<idx, sum, cumulative_array, cumulative_nevents>>
    BY <1>9 DEF Lock, From, Runs, runVars, locals
  <2>2. idx[r] = 1
    BY <2>1 DEF StatsTypes, LocalTypes
  <2>3. r = "handler" => interrupted # "none"
    BY <2>1 DEF HandlerOff
  <2>4. lock \in {"none", r} => Agree
    BY <2>1, <1>o DEF NeventsInv, Section
  <2>5. lock \in {"none", r} => Section(r)'
    BY <2>1, <2>2, <2>4 DEF Section, Agree
  <2>6. \A s \in Reporters : lock' = s /\ interrupted' # s => Section(s)'
    BY <2>1, <2>5
  <2>7. rpc'["handler"] \in {"reset", "unlock"} => rpc'["handler"] = rpc["handler"]
    BY <2>1
  <2> QED
    BY <2>1, <2>3, <2>6, <2>7 DEF NeventsInv, Agree
<1>10. ASSUME NEW r \in Reporters, Unlock(r) PROVE NeventsInv'
  <2>1. /\ rpc'[r] \in {"sleep", "count", "timers"} /\ lock' = "none"
        /\ \A s \in Reporters \ {r} : rpc'[s] = rpc[s]
        /\ Runs(r) /\ rpc[r] = "unlock" /\ InSection(r)
        /\ UNCHANGED <<cumulative_array, cumulative_nevents>>
    BY <1>10 DEF Unlock, From, InSection
  <2>2. lock = r \/ r = "handler"
    BY <2>1, Alone
  <2>3. Agree
    BY <2>1, <2>2, <1>o DEF Section, NeventsInv
  <2>4. rpc'["handler"] \in {"reset", "unlock"} => rpc'["handler"] = rpc["handler"]
    BY <2>1
  <2> QED
    BY <2>1, <2>3, <2>4 DEF NeventsInv, Agree
<1>11. CASE ForcedShutdown
  <2>1. /\ UNCHANGED <<lock, idx, sum, cumulative_array, cumulative_nevents>>
        /\ interrupted = "none" /\ rpc' = [rpc EXCEPT !["handler"] = "count"]
    BY <1>11 DEF ForcedShutdown, Books, histogram, locals
  <2>2. rpc["handler"] = "off"
    BY <2>1 DEF HandlerOff
  <2>3. \A s \in Reporters : Section(s) => Section(s)'
    BY <2>1, <2>2 DEF Section, Agree
  <2> QED
    BY <2>1, <2>3 DEF NeventsInv, Agree
<1>12. CASE ~SectionStep /\ ~ForcedShutdown
  <2>1. /\ UNCHANGED <<lock, interrupted, temp_array, cumulative_array, cumulative_nevents>>
        /\ \A s \in Reporters :
             \/ rpc'[s] = rpc[s] /\ idx'[s] = idx[s] /\ sum'[s] = sum[s]
             \/ ~InSection(s) /\ ~InSection(s)'
    BY <1>12, OutsideSteps
  <2>2. \A s \in Reporters : Section(s) => Section(s)'
    BY <2>1 DEF Section, Agree, InSection
  <2> QED
    BY <2>1, <2>2 DEF NeventsInv, Agree, InSection
<1> QED
  BY <1>1, <1>2, <1>3, <1>4, <1>5, <1>6, <1>7, <1>8, <1>9, <1>10, <1>11, <1>12
     DEF SectionStep

(* The lock, the number and the array agree in every state.                *)
LEMMA PercentileInvariant == Spec => []PercentileInv
<1>1. Init => PercentileInv
  <2> SUFFICES ASSUME Init PROVE PercentileInv
    OBVIOUS
  <2>1. /\ cumulative_array = {} /\ cumulative_nevents = 0 /\ lock = "none"
        /\ \A r \in Reporters : rpc[r] \in {"count", "start", "barrier", "off"}
    BY DEF Init, Reporters
  <2> QED
    BY <2>1, FS_EmptySet DEF PercentileInv, LockInv, NeventsInv, CollectedInv, InSection, Agree,
                             Reporters
<1>2. StatsTypes /\ HandlerOff /\ LatencyInv /\ PercentileInv /\ [Next]_vars => PercentileInv'
  BY LockStep, NeventsStep, CollectedStep DEF PercentileInv
<1> QED
  BY <1>1, <1>2, StatsInvariant, LatencyInvariant, PTL DEF Spec

(* A percentile is taken over as many events as the array holds            *)
(* (sb_histogram_get_pct_checkpoint, sb_histogram_get_pct_intermediate),   *)
(* although they are counted apart from the array, and the array is        *)
(* reset apart from the count: the lock keeps the two together, also when  *)
(* sb_histogram_print has kept it, and unless the forced-shutdown handler  *)
(* goes on without it.                                                     *)
THEOREM PercentileCorrect == Spec => []PercentileFits
<1>1. StatsTypes /\ PercentileInv => PercentileFits
  <2> SUFFICES ASSUME StatsTypes, PercentileInv PROVE PercentileFits
    OBVIOUS
  <2>1. ASSUME NEW r \in Reporters, rpc[r] = "percentile", lock = r, interrupted # r
        PROVE  cumulative_nevents = Cardinality(cumulative_array)
    BY <2>1 DEF PercentileInv, NeventsInv, Section, Agree
  <2> QED
    BY <2>1 DEF PercentileInv, CollectedInv, PercentileFits
<1> QED
  BY <1>1, StatsInvariant, PercentileInvariant, PTL

-----------------------------------------------------------------------------
(* The three books together.  No event that has ended is missing from the  *)
(* timers, or from the histogram, and from the checkpoints.                *)
TimesKept ==
  \A e \in Events : Timed(e) => e[2] \in timers[e[1]].events \/ e \in closed.timer

LatenciesKept ==
  \A e \in Events : Recorded(e) =>
    \/ \E s \in 1..NSlots : e \in interm_slots[s]
    \/ e \in Collected \/ e \in cumulative_array \/ e \in closed.histogram

LEMMA TimesKeptStep ==
  ASSUME StatsTypes, TimesKept, [Next]_vars
  PROVE  TimesKept'
<1>t. /\ timers \in [Workers -> Timer] /\ wpc \in [Workers -> WorkerPoints]
      /\ begun \in [Workers -> Nat] /\ Events = Workers \X (1..MaxEvents) /\ MaxEvents \in Nat
  BY Constants DEF StatsTypes, TimerTypes, WorkTypes, Events
<1>1. ASSUME NEW w \in Workers, StartTimer(w) PROVE TimesKept'
  <2>1. /\ wpc' = [wpc EXCEPT ![w] = "running"] /\ begun' = [begun EXCEPT ![w] = @ + 1]
        /\ \A v \in Workers : timers'[v].events = timers[v].events
        /\ closed' = closed /\ wpc[w] = "idle"
    BY <1>1, <1>t DEF StartTimer, WorkStep, Timer
  <2>2. \A e \in Events : Timed(e)' => Timed(e)
    BY <2>1, <1>t DEF Timed
  <2> QED
    BY <2>1, <2>2, <1>t DEF TimesKept
<1>2. ASSUME NEW w \in Workers, StopTimer(w) PROVE TimesKept'
  <2>1. /\ wpc' = [wpc EXCEPT ![w] = "stopped"] /\ begun' = begun
        /\ \A v \in Workers \ {w} : timers'[v].events = timers[v].events
        /\ timers'[w].events = timers[w].events \cup {begun[w]}
        /\ closed' = closed /\ wpc[w] = "running"
    BY <1>2, <1>t DEF StopTimer, WorkStep, Timer
  <2>2. \A e \in Events : Timed(e)' => Timed(e) \/ (e[1] = w /\ e[2] = begun[w])
    BY <2>1, <1>t DEF Timed
  <2> QED
    BY <2>1, <2>2, <1>t DEF TimesKept
<1>3. ASSUME NEW r \in Reporters, CopyTimer(r) PROVE TimesKept'
  <2>1. PICK w \in Workers :
           /\ \A v \in Workers \ {w} : timers'[v] = timers[v]
           /\ closed'.timer = closed.timer \cup ({w} \X timers[w].events)
           /\ wpc' = wpc /\ begun' = begun
    BY <1>3, TakeTimes
  <2>2. \A e \in Events : e = <<e[1], e[2]>> /\ (Timed(e)' <=> Timed(e))
    BY <2>1, <1>t DEF Timed
  <2> QED
    BY <2>1, <2>2, <1>t DEF TimesKept
<1>4. CASE /\ \A w \in Workers : ~StartTimer(w) /\ ~StopTimer(w)
           /\ \A r \in Reporters : ~CopyTimer(r)
  BY <1>4, <1>t, TimersStay DEF TimesKept, Timed
<1> QED
  BY <1>1, <1>2, <1>3, <1>4

LEMMA LatenciesKeptStep ==
  ASSUME StatsTypes, LatenciesKept, [Next]_vars
  PROVE  LatenciesKept'
<1>t. interm_slots \in [1..NSlots -> SUBSET Events]
  BY DEF StatsTypes, HistogramTypes
<1>1. ASSUME NEW w \in Workers, UpdateHistogram(w) PROVE LatenciesKept'
  <2>1. PICK s \in 1..NSlots, new \in Events :
          /\ interm_slots' = [interm_slots EXCEPT ![s] = @ \cup {new}]
          /\ \A e \in Events : Recorded(e)' <=> Recorded(e) \/ e = new
          /\ Collected' = Collected /\ cumulative_array' = cumulative_array /\ closed' = closed
    BY <1>1, UpdateMoves
  <2>2. \A t \in 1..NSlots : interm_slots'[t] = interm_slots[t] \cup (IF t = s THEN {new} ELSE {})
    BY <2>1, <1>t
  <2> QED
    BY <2>1, <2>2 DEF LatenciesKept
<1>2. ASSUME NEW r \in Reporters, FetchSlot(r) PROVE LatenciesKept'
  <2>1. /\ idx[r] \in 1..NSlots
        /\ interm_slots' = [interm_slots EXCEPT ![idx[r]] = {}]
        /\ \/ /\ Collected' = Collected \cup interm_slots[idx[r]]
              /\ cumulative_array' = cumulative_array
           \/ /\ cumulative_array' = cumulative_array \cup interm_slots[idx[r]]
              /\ Collected' = Collected
        /\ closed' = closed /\ wpc' = wpc /\ begun' = begun
    BY <1>2, FetchMoves
  <2>2. \A s \in 1..NSlots : interm_slots'[s] = IF s = idx[r] THEN {} ELSE interm_slots[s]
    BY <2>1, <1>t
  <2>3. \A e : Recorded(e)' = Recorded(e)
    BY <2>1 DEF Recorded
  <2> QED
    BY <2>1, <2>2, <2>3 DEF LatenciesKept
<1>3. CASE AddToCumulative
  BY <1>3, AddMoves DEF LatenciesKept, Recorded
<1>4. ASSUME NEW r \in Reporters, ResetArray(r) PROVE LatenciesKept'
  BY <1>4, ResetMoves DEF LatenciesKept, Recorded
<1>5. CASE /\ \A w \in Workers : ~UpdateHistogram(w)
           /\ \A r \in Reporters : ~FetchSlot(r) /\ ~ResetArray(r)
           /\ ~AddToCumulative
  BY <1>5, LatencyStay DEF LatenciesKept
<1> QED
  BY <1>1, <1>2, <1>3, <1>4, <1>5

-----------------------------------------------------------------------------
(* The threads that make cumulative reports, one of them at a time.        *)

Checkpointers == {"main", "checkpoints"}

(* A cumulative report, from the counters to the timers.                   *)
Routine == {"count", "last", "replace", "lock", "slots", "nevents", "percentile", "reset",
            "unlock", "timers"}

(* Where the two threads are before, during and after the run.             *)
PhaseInv ==
  /\ ~released => /\ rpc["main"] \in Routine \cup {"start"}
                  /\ rpc["checkpoints"] \in {"off", "barrier"}
  /\ released => rpc["main"] # "start" /\ rpc["checkpoints"] # "barrier"
  /\ printing => released /\ rpc["main"] \in {"lock", "slots", "nevents", "print", "unlock"}
  /\ rpc["main"] = "print" => printing
  /\ released /\ rpc["main"] # "join" => \A w \in Workers : wpc[w] = "ended"

(* A reporter's step leaves the others' positions and locals alone.        *)
LEMMA OthersStay ==
  ASSUME StatsTypes, NEW r \in Reporters,
         \/ Aggregate(r) \/ Lock(r) \/ FetchSlot(r) \/ StoreNevents(r) \/ ResetArray(r)
         \/ ResetNevents(r) \/ Unlock(r) \/ (r # "report" /\ CopyTimer(r))
         \/ r = "report" /\ (AddToCumulative \/ AddNevents)
         \/ r = "main" /\ PrintHistogram
  PROVE  /\ \A s \in Reporters \ {r} : /\ rpc'[s] = rpc[s] /\ idx'[s] = idx[s]
                                       /\ sum'[s] = sum[s] /\ last'[s] = last[s]
         /\ rpc[r] \notin {"off", "exit"}
         /\ UNCHANGED <<workVars, released, interrupted, opt>>
         /\ printing' # printing => r = "main"
<1>t. /\ rpc \in [Reporters -> ReporterPoints] /\ idx \in [Reporters -> Nat]
      /\ sum \in [Reporters -> Nat] /\ last \in [Reporters -> Nat] /\ printing \in BOOLEAN
  BY DEF StatsTypes, LocalTypes, RunTypes
<1> USE <1>t DEF From, Loop
<1>1. CASE MergeCounters(r)
  BY <1>1 DEF MergeCounters, runVars
<1>2. CASE ReadLast(r)
  BY <1>2 DEF ReadLast, runVars
<1>3. CASE ReplaceLast(r)
  BY <1>3 DEF ReplaceLast, Restart, runVars
<1>4. CASE Lock(r)
  BY <1>4 DEF Lock, locals, runVars
<1>5. CASE FetchSlot(r)
  BY <1>5 DEF FetchSlot, runVars
<1>6. CASE StoreNevents(r)
  BY <1>6 DEF StoreNevents, Restart, runVars
<1>7. CASE ResetArray(r) \/ ResetNevents(r)
  BY <1>7 DEF ResetArray, ResetNevents, locals, runVars
<1>8. CASE Unlock(r)
  BY <1>8 DEF Unlock, locals
<1>9. CASE CopyTimer(r)
  BY <1>9 DEF CopyTimer, runVars
<1>10. CASE r = "report" /\ (AddToCumulative \/ AddNevents)
  BY <1>10 DEF AddToCumulative, AddNevents, Restart, locals, runVars
<1>11. CASE r = "main" /\ PrintHistogram
  BY <1>11 DEF PrintHistogram, locals
<1> QED
  BY <1>1, <1>2, <1>3, <1>4, <1>5, <1>6, <1>7, <1>8, <1>9, <1>10, <1>11 DEF Aggregate

(* The worker's steps leave the reporters alone.                           *)
LEMMA WorkerStay ==
  ASSUME StatsTypes, NEW w \in Workers, Worker(w)
  PROVE  /\ UNCHANGED <<opt, totals, cumulative_array, rpc, locals, runVars, closed>>
         /\ wpc[w] # "ended" /\ \A v \in Workers \ {w} : wpc'[v] = wpc[v]
  BY DEF StatsTypes, WorkTypes, Worker, WorkStep, StartTimer, StopTimer, UpdateHistogram,
         CountEvent, EndWorker

(* Every step keeps the phases of the run.                                 *)
LEMMA PhaseStep ==
  ASSUME StatsTypes, PhaseInv, [Next]_vars
  PROVE  PhaseInv'
<1>t. /\ Reporters = {"main", "report", "checkpoints", "handler"}
      /\ rpc \in [Reporters -> ReporterPoints] /\ wpc \in [Workers -> WorkerPoints]
      /\ released \in BOOLEAN /\ printing \in BOOLEAN /\ opt.histogram \in BOOLEAN
  BY Constants DEF Reporters, StatsTypes, LocalTypes, WorkTypes, RunTypes
<1> USE <1>t DEF PhaseInv
<1>1. ASSUME NEW w \in Workers, Worker(w) PROVE PhaseInv'
  BY <1>1, WorkerStay DEF runVars
(* A step of a thread that makes no cumulative reports. *)
<1>2. ASSUME UNCHANGED <<wpc, released, printing>>,
             rpc'["main"] = rpc["main"], rpc'["checkpoints"] = rpc["checkpoints"]
      PROVE  PhaseInv'
  BY <1>2
<1>3. ASSUME NEW r \in {"report", "handler"},
             \/ Aggregate(r) \/ Lock(r) \/ FetchSlot(r) \/ StoreNevents(r) \/ ResetArray(r)
             \/ ResetNevents(r) \/ Unlock(r) \/ (r # "report" /\ CopyTimer(r))
             \/ r = "report" /\ (AddToCumulative \/ AddNevents)
      PROVE  PhaseInv'
  BY <1>2, <1>3, OthersStay DEF workVars
(* A step of a cumulative report. *)
<1>4. ASSUME NEW r \in Checkpointers, UNCHANGED <<wpc, released, printing>>,
             \A s \in Checkpointers \ {r} : rpc'[s] = rpc[s],
             rpc[r] \in Routine, rpc'[r] \in Routine,
             rpc[r] \in {"slots", "lock"} => rpc'[r] \in {"slots", "nevents"},
             rpc[r] # "nevents", rpc[r] # "unlock"
      PROVE  PhaseInv'
  BY <1>4 DEF Checkpointers, Routine
<1>5. ASSUME NEW r \in Checkpointers, Aggregate(r) \/ Lock(r) \/ FetchSlot(r)
      PROVE  PhaseInv'
  <2>1. /\ UNCHANGED <<wpc, released>> /\ \A s \in Checkpointers \ {r} : rpc'[s] = rpc[s]
    BY <1>5, OthersStay DEF workVars, Checkpointers
  <2>2. CASE MergeCounters(r)
    BY <1>4, <2>1, <2>2 DEF MergeCounters, Loop, From, runVars, Routine, Checkpointers
  <2>3. CASE ReadLast(r)
    BY <1>4, <2>1, <2>3 DEF ReadLast, From, runVars, Routine, Checkpointers
  <2>4. CASE ReplaceLast(r)
    BY <1>4, <2>1, <2>4 DEF ReplaceLast, From, runVars, Routine, Checkpointers
  <2>5. CASE Lock(r)
    BY <1>4, <2>1, <2>5 DEF Lock, From, runVars, Routine, Checkpointers
  <2>6. CASE FetchSlot(r)
    BY <1>4, <2>1, <2>6 DEF FetchSlot, Loop, From, runVars, Routine, Checkpointers
  <2> QED
    BY <1>5, <2>2, <2>3, <2>4, <2>5, <2>6 DEF Aggregate
<1>6. ASSUME NEW r \in Checkpointers, ResetArray(r) \/ ResetNevents(r)
      PROVE  PhaseInv'
  BY <1>4, <1>6, OthersStay
     DEF ResetArray, ResetNevents, From, runVars, workVars, Routine, Checkpointers
<1>7. ASSUME NEW r \in Checkpointers, StoreNevents(r) PROVE PhaseInv'
  BY <1>7 DEF StoreNevents, From, runVars, workVars, Routine, Checkpointers
<1>8. ASSUME NEW r \in Checkpointers, Unlock(r) PROVE PhaseInv'
  BY <1>8 DEF Unlock, From, workVars, Routine, Checkpointers
<1>9. ASSUME NEW r \in Checkpointers, CopyTimer(r) PROVE PhaseInv'
  BY <1>9 DEF CopyTimer, Checkpointed, Loop, From, runVars, workVars, Routine, Checkpointers
<1>10. CASE StartReports
  BY <1>10 DEF StartReports, workVars, Routine
<1>11. CASE JoinWorkers \/ Silence
  BY <1>11 DEF JoinWorkers, Silence, From, workVars, runVars, Routine
<1>12. CASE CancelReport
  BY <1>12 DEF CancelReport, Cancel, workVars, runVars, Routine
<1>13. CASE CancelCheckpoints
  BY <1>13 DEF CancelCheckpoints, Cancel, workVars, Routine
<1>14. CASE PrintHistogram
  BY <1>14 DEF PrintHistogram, From, workVars, Routine
<1>15. CASE WakeReport \/ RaiseFlag("report") \/ CountUnfinished
  BY <1>15 DEF WakeReport, RaiseFlag, CountUnfinished, From, workVars, runVars
<1>16. CASE WakeCheckpoint \/ LastCheckpoint \/ RaiseFlag("checkpoints")
  BY <1>16 DEF WakeCheckpoint, LastCheckpoint, RaiseFlag, From, workVars, runVars
<1>17. CASE ForcedShutdown
  BY <1>17 DEF ForcedShutdown, workVars
<1>18. CASE UNCHANGED vars
  BY <1>18 DEF vars, workVars, runVars
<1> QED
  BY <1>1, <1>3, <1>5, <1>6, <1>7, <1>8, <1>9, <1>10, <1>11, <1>12, <1>13, <1>14, <1>15,
     <1>16, <1>17, <1>18, StepCases DEF OwnWay, Checkpointers

(* The phases of the run hold in every state.                              *)
LEMMA PhaseInvariant == Spec => []PhaseInv
<1>1. Init => PhaseInv
  BY DEF Init, PhaseInv, Reporters, Routine
<1> QED
  BY <1>1, PhaseStep, StatsInvariant, PTL DEF Spec

-----------------------------------------------------------------------------
(* A cumulative total counts events that the workers have counted.         *)

Counted == {e \in Events : e[2] <= counters[e[1]]}

(* Events of the workers that a loop has passed.                           *)
Before(r, e) == \E i \in 1..idx[r] - 1 : e[1] = threads[i]

(* The events J are the total that r has added up so far; once the workers *)
(* have ended, none of those it has read is missing.                       *)
AddedUp(r, J) ==
  /\ J \subseteq Counted /\ Cardinality(J) = sum[r]
  /\ rpc[r] = "count" => \A e \in J : Before(r, e)
  /\ r = "main" /\ released =>
       \A e \in Counted : (rpc[r] = "count" => Before(r, e)) => e \in J

SumsInv ==
  \A r \in Checkpointers :
    /\ rpc[r] \in {"count", "last", "replace"} => \E J : AddedUp(r, J)
    /\ rpc[r] \notin {"count", "last", "replace", "slots", "nevents"} => sum[r] = 0

(* Counters only grow, and no longer when the workers have ended.          *)
LEMMA CountedGrows ==
  ASSUME StatsTypes, PhaseInv, [Next]_vars
  PROVE  /\ Counted \subseteq Counted'
         /\ released /\ rpc["main"] # "join" => Counted' = Counted
<1>t. counters \in [Workers -> Nat] /\ Events = Workers \X (1..MaxEvents) /\ MaxEvents \in Nat
  BY Constants DEF StatsTypes, WorkTypes, Events
<1>1. ASSUME NEW w \in Workers, Worker(w)
      PROVE  /\ \A v \in Workers : counters[v] <= counters'[v]
             /\ ~(released /\ rpc["main"] # "join")
  <2>1. \A v \in Workers : counters[v] <= counters'[v]
    BY <1>1, <1>t DEF Worker, StartTimer, StopTimer, UpdateHistogram, CountEvent, EndWorker
  <2>2. ~(released /\ rpc["main"] # "join")
    BY <1>1, WorkerStay DEF PhaseInv
  <2> QED
    BY <2>1, <2>2
<1>2. CASE \A w \in Workers : ~Worker(w)
  <2>1. ASSUME NEW r \in Reporters,
               Aggregate(r) \/ Lock(r) \/ FetchSlot(r) \/ Unlock(r) \/ StoreNevents(r)
               \/ ResetArray(r) \/ ResetNevents(r) \/ (r # "report" /\ CopyTimer(r))
        PROVE  counters' = counters
    BY <2>1, OthersStay DEF workVars
  <2>2. ASSUME AddToCumulative \/ AddNevents \/ OwnWay \/ ForcedShutdown
        PROVE  counters' = counters
    BY <2>2 DEF AddToCumulative, AddNevents, OwnWay, StartReports, JoinWorkers, Silence,
                CancelReport, CancelCheckpoints, Cancel, PrintHistogram, WakeReport,
                WakeCheckpoint, LastCheckpoint, RaiseFlag, CountUnfinished, ForcedShutdown,
                From, workVars
  <2>3. UNCHANGED vars => counters' = counters
    BY DEF vars, workVars
  <2>4. counters' = counters
    BY <1>2, <2>1, <2>2, <2>3, StepCases
  <2> QED
    BY <2>4 DEF Counted
<1>3. ASSUME NEW w \in Workers, Worker(w) PROVE Counted \subseteq Counted'
  <2>1. \A v \in Workers : counters[v] \in Nat /\ counters'[v] \in Nat
    BY <1>3, <1>t DEF Worker, StartTimer, StopTimer, UpdateHistogram, CountEvent, EndWorker
  <2> QED
    BY <1>1, <1>3, <1>t, <2>1 DEF Counted
<1> QED
  BY <1>1, <1>2, <1>3

(* A worker has counted as many events as its counter says.                *)
LEMMA EventsOf ==
  ASSUME NEW w \in Workers, NEW n \in 0..MaxEvents
  PROVE  /\ {w} \X (1..n) \in SUBSET Events
         /\ Cardinality({w} \X (1..n)) = n
<1> DEFINE S == 1..n
           T == {w} \X S
           f == [i \in S |-> <<w, i>>]
<1>1. f \in Bijection(S, T)
  BY DEF Bijection, Injection, Surjection, IsInjective
<1>2. IsFiniteSet(S) /\ Cardinality(S) = n
  BY FS_Interval
<1>3. T \in SUBSET Events
  BY Constants DEF Events
<1> HIDE DEF S, T, f
<1>4. Cardinality(T) = n
  BY <1>1, <1>2, FS_Bijection DEF ExistsBijection
<1> QED
  BY <1>3, <1>4 DEF S, T

(* One more worker is read.                                                *)
LEMMA MergeStep ==
  ASSUME StatsTypes, NEW r \in Checkpointers, MergeCounters(r), NEW J, AddedUp(r, J)
  PROVE  \E K : AddedUp(r, K)'
<1> DEFINE w == threads[idx[r]]
           n == counters[w]
           new == {w} \X (1..n)
<1>t. /\ r \in Reporters /\ idx[r] \in 1..Len(threads) /\ w \in Workers /\ n \in 0..MaxEvents
      /\ sum[r] \in Nat /\ Len(threads) \in Nat /\ MaxEvents \in Nat
      /\ Events = Workers \X (1..MaxEvents)
      /\ DOMAIN rpc = Reporters /\ DOMAIN idx = Reporters /\ DOMAIN sum = Reporters
      /\ rpc[r] = "count"
  BY Constants DEF MergeCounters, Loop, From, Checkpointers, Reporters, StatsTypes, LocalTypes,
                   WorkTypes, Events
<1>1. new \in SUBSET Events /\ Cardinality(new) = n
  BY <1>t, EventsOf
<1>2. J \in SUBSET Events /\ Cardinality(J) = sum[r] /\ \A e \in J : Before(r, e)
  BY <1>t DEF AddedUp, Counted
<1>3. \A e \in J : e \notin new
  <2>1. \A i \in 1..idx[r] - 1 : threads[i] # w
    BY <1>t, StatsAssumption DEF IsInjective
  <2> QED
    BY <1>2, <2>1 DEF Before
<1>4. /\ sum'[r] = sum[r] + n /\ UNCHANGED <<counters, released>>
      /\ rpc'[r] = (IF idx[r] = Len(threads) THEN "last" ELSE "count")
      /\ idx'[r] = (IF idx[r] = Len(threads) THEN 1 ELSE idx[r] + 1)
  BY <1>t DEF MergeCounters, Loop, From, workVars, runVars
<1>5. new \subseteq Counted /\ Counted' = Counted /\ J \subseteq Counted
  BY <1>1, <1>4, <1>t DEF Counted, AddedUp
<1>6. \A e \in Counted : e[1] = w => e \in new
  BY <1>t DEF Counted
<1>w. w = threads[idx[r]]
  OBVIOUS
<1>n. \A e \in new : e[1] = w
  OBVIOUS
<1> HIDE DEF w, n, new
<1>7. Cardinality(J \cup new) = sum'[r]
  BY <1>1, <1>2, <1>3, <1>4, DisjointUnion
<1>8. CASE idx[r] = Len(threads)
  <2>1. \A e \in Counted : Before(r, e) \/ e[1] = w
    <3>1. ASSUME NEW e \in Counted PROVE \E i \in 1..Len(threads) : e[1] = threads[i]
      <4>1. e[1] \in Workers
        BY <1>t DEF Counted
      <4> QED
        BY <4>1, StatsAssumption DEF Workers, Range
    <3> QED
      BY <1>8, <1>w, <1>t, <3>1 DEF Before
  <2>2. r = "main" /\ released => \A e \in Counted : e \in J \cup new
    BY <2>1, <1>6, <1>t DEF AddedUp
  <2> QED
    BY <1>4, <1>5, <1>7, <1>8, <2>2 DEF AddedUp
<1>9. CASE idx[r] # Len(threads)
  <2>1. \A e : Before(r, e)' <=> Before(r, e) \/ e[1] = w
    BY <1>4, <1>9, <1>w, <1>t DEF Before
  <2>2. \A e \in J \cup new : Before(r, e)'
    BY <2>1, <1>2, <1>n
  <2>3. r = "main" /\ released => \A e \in Counted : Before(r, e)' => e \in J \cup new
    BY <2>1, <1>6, <1>t DEF AddedUp
  <2> QED
    BY <1>4, <1>5, <1>7, <1>9, <2>2, <2>3 DEF AddedUp
<1> QED
  BY <1>8, <1>9

(* The main thread lets the reports begin, and nothing else does.          *)
LEMMA Release ==
  ASSUME StatsTypes, [Next]_vars, released' # released
  PROVE  StartReports
<1>1. \A w \in Workers : ~Worker(w)
  BY WorkerStay DEF runVars
<1>2. ASSUME NEW r \in Reporters
      PROVE  ~(\/ Aggregate(r) \/ Lock(r) \/ FetchSlot(r) \/ StoreNevents(r) \/ ResetArray(r)
               \/ ResetNevents(r) \/ Unlock(r) \/ (r # "report" /\ CopyTimer(r)))
  BY OthersStay
<1>3. ~(AddToCumulative \/ AddNevents \/ ForcedShutdown \/ UNCHANGED vars)
  BY DEF AddToCumulative, AddNevents, ForcedShutdown, runVars, vars
<1>4. OwnWay
  BY <1>1, <1>2, <1>3, StepCases
<1> QED
  BY <1>4 DEF OwnWay, JoinWorkers, Silence, CancelReport, CancelCheckpoints, PrintHistogram,
              WakeReport, WakeCheckpoint, LastCheckpoint, RaiseFlag, CountUnfinished, runVars

(* The other steps of a report keep its total, or drop it.                 *)
LEMMA SumMoves ==
  ASSUME StatsTypes, PhaseInv, SumsInv, [Next]_vars,
         NEW r \in Checkpointers, ~MergeCounters(r)
  PROVE  \/ /\ rpc'[r] \in {"count", "last", "replace"} /\ rpc[r] \in {"count", "last", "replace"}
            /\ rpc'[r] = "count" <=> rpc[r] = "count"
            /\ sum'[r] = sum[r] /\ idx'[r] = idx[r]
         \/ /\ rpc'[r] = "count" /\ idx'[r] = 1 /\ sum'[r] = 0
         \/ /\ rpc'[r] \notin {"count", "last", "replace", "slots", "nevents"} /\ sum'[r] = 0
         \/ rpc'[r] \in {"slots", "nevents"}
<1>t. /\ r \in Reporters /\ r \in {"main", "checkpoints"} /\ r # "report"
      /\ rpc \in [Reporters -> ReporterPoints]
      /\ idx \in [Reporters -> Nat] /\ sum \in [Reporters -> Nat]
      /\ rpc[r] \notin {"count", "timers", "slots"} => idx[r] = 1
      /\ rpc[r] \notin {"count", "last", "replace", "slots", "nevents"} => sum[r] = 0
  BY DEF StatsTypes, LocalTypes, Checkpointers, Reporters, SumsInv
<1> USE <1>t DEF From, Loop
<1>1. CASE rpc'[r] = rpc[r] /\ idx'[r] = idx[r] /\ sum'[r] = sum[r]
  BY <1>1
<1>2. CASE \E w \in Workers : Worker(w)
  BY <1>1, <1>2, WorkerStay DEF locals
<1>3. ASSUME NEW s \in Reporters \ {r},
         \/ Aggregate(s) \/ Lock(s) \/ FetchSlot(s) \/ StoreNevents(s) \/ ResetArray(s)
         \/ ResetNevents(s) \/ Unlock(s) \/ (s # "report" /\ CopyTimer(s))
         \/ s = "report" /\ (AddToCumulative \/ AddNevents)
      PROVE  rpc'[r] = rpc[r] /\ idx'[r] = idx[r] /\ sum'[r] = sum[r]
  BY <1>3, OthersStay
<1>4. CASE ReadLast(r)
  BY <1>4 DEF ReadLast
<1>5. CASE ReplaceLast(r)
  BY <1>5 DEF ReplaceLast, Restart
<1>6. CASE Lock(r)
  BY <1>6 DEF Lock
<1>7. CASE FetchSlot(r)
  BY <1>7 DEF FetchSlot
<1>8. CASE StoreNevents(r)
  BY <1>8 DEF StoreNevents, Restart
<1>9. CASE ResetArray(r) \/ ResetNevents(r)
  BY <1>9 DEF ResetArray, ResetNevents, locals
<1>10. CASE Unlock(r)
  BY <1>10 DEF Unlock, locals
<1>11. CASE CopyTimer(r)
  <2>1. Checkpointed(r) \in {"done", "start", "sleep"}
    BY DEF Checkpointed
  <2> QED
    BY <1>11, <2>1 DEF CopyTimer
<1>12. CASE AddToCumulative \/ AddNevents
  <2>1. "report" \in Reporters \ {r}
    BY DEF Reporters
  <2> QED
    BY <1>1, <1>3, <1>12, <2>1
<1>13. CASE StartReports
  BY <1>13 DEF StartReports, Books, locals
<1>14. CASE CancelReport \/ CancelCheckpoints
  BY <1>14 DEF CancelReport, CancelCheckpoints, Cancel, Books, locals
<1>15. CASE \/ JoinWorkers \/ Silence \/ WakeReport \/ WakeCheckpoint \/ LastCheckpoint
            \/ RaiseFlag("report") \/ RaiseFlag("checkpoints") \/ CountUnfinished
  BY <1>15 DEF JoinWorkers, Silence, WakeReport, WakeCheckpoint, LastCheckpoint, RaiseFlag,
               CountUnfinished, Books, locals
<1>16. CASE PrintHistogram
  BY <1>16 DEF PrintHistogram, locals
<1>17. CASE ForcedShutdown
  BY <1>17 DEF ForcedShutdown, Books, locals
<1>18. CASE UNCHANGED vars
  BY <1>1, <1>18 DEF vars, locals
<1> QED
  BY <1>1, <1>2, <1>3, <1>4, <1>5, <1>6, <1>7, <1>8, <1>9, <1>10, <1>11, <1>12, <1>13, <1>14,
     <1>15, <1>16, <1>17, <1>18, StepCases DEF OwnWay, Aggregate

(* Every step keeps the totals that are being added up.                    *)
LEMMA SumsStep ==
  ASSUME StatsTypes, PhaseInv, SumsInv, [Next]_vars
  PROVE  SumsInv'
<1> SUFFICES ASSUME NEW r \in Checkpointers
             PROVE  /\ rpc'[r] \in {"count", "last", "replace"} => \E J : AddedUp(r, J)'
                    /\ rpc'[r] \notin {"count", "last", "replace", "slots", "nevents"}
                         => sum'[r] = 0
  BY DEF SumsInv
<1>1. CASE MergeCounters(r)
  <2>1. rpc[r] = "count" /\ rpc'[r] \in {"count", "last"}
    BY <1>1 DEF MergeCounters, Loop, From, StatsTypes, LocalTypes, Checkpointers, Reporters
  <2>2. PICK J : AddedUp(r, J)
    BY <2>1 DEF SumsInv
  <2>3. \E K : AddedUp(r, K)'
    BY <1>1, <2>2, MergeStep
  <2> QED
    BY <2>1, <2>3
<1>2. CASE ~MergeCounters(r)
  <2>1. CASE /\ rpc'[r] \in {"count", "last", "replace"} /\ rpc[r] \in {"count", "last", "replace"}
             /\ rpc'[r] = "count" <=> rpc[r] = "count"
             /\ sum'[r] = sum[r] /\ idx'[r] = idx[r]
    <3>1. PICK J : AddedUp(r, J)
      BY <2>1 DEF SumsInv
    <3>2. \A e : Before(r, e)' <=> Before(r, e)
      BY <2>1 DEF Before
    <3>3. Counted \subseteq Counted'
      BY CountedGrows
    <3>4. r = "main" /\ released' => released /\ Counted' = Counted
      <4>1. released' => released \/ rpc'["main"] = "join"
        BY Release DEF StartReports, Reporters
      <4> QED
        BY <2>1, <4>1, CountedGrows
    <3>5. AddedUp(r, J)'
      BY <2>1, <3>1, <3>2, <3>3, <3>4 DEF AddedUp
    <3> QED
      BY <2>1, <3>5
  <2>2. CASE rpc'[r] = "count" /\ idx'[r] = 1 /\ sum'[r] = 0
    <3>1. AddedUp(r, {})'
      <4>1. \A i \in 1..idx'[r] - 1 : FALSE
        BY <2>2
      <4>2. Cardinality({}) = 0
        BY FS_EmptySet
      <4> QED
        BY <2>2, <4>1, <4>2 DEF AddedUp, Before
    <3> QED
      BY <2>2, <3>1
  <2> QED
    BY <1>2, <2>1, <2>2, SumMoves
<1> QED
  BY <1>1, <1>2

-----------------------------------------------------------------------------
(* No alarm, and no checkpoint thread that was left alone: one cumulative  *)
(* report is made after the other.                                         *)

Quiet == interrupted = "none" /\ ~LeftAlone

(* Reporter r is between its total and the last of the timers.             *)
Taking(r) == InCheckpoint(r) /\ ~(r = "main" /\ printing)

(* The events K of the total, from the slots over the cumulative array     *)
(* into the checkpoint's histogram, and then from timer to timer.          *)
OnTheWay(r, K) ==
  /\ rpc[r] = "slots" =>
       \A e \in K : \/ \E s \in idx[r]..NSlots : e \in interm_slots[s]
                    \/ e \in cumulative_array \/ e \in closed.histogram
  /\ rpc[r] \in {"nevents", "percentile"} => K \subseteq cumulative_array \cup closed.histogram
  /\ rpc[r] \in {"reset", "unlock", "timers"} => K \subseteq closed.histogram
  /\ rpc[r] = "timers" => \A e \in K : Before(r, e) => e \in closed.timer

(* The final report has been made, or is being made.                       *)
Final == released /\ (rpc["main"] = "done" \/ Taking("main"))

(* The events K in the last cumulative total: they are on their way into   *)
(* the checkpoint that is being made, and otherwise in one.                *)
Total(K) ==
  /\ K \subseteq Counted /\ Cardinality(K) = last_cumulative
  /\ \A r \in Checkpointers : Taking(r) => OnTheWay(r, K)
  /\ (\A r \in Checkpointers : ~Taking(r)) => K \subseteq closed.timer \cap closed.histogram
  /\ Final => Counted \subseteq K

LastInv ==
  Quiet => /\ counted = last_cumulative
           /\ \A r \in Checkpointers : rpc[r] = "replace" => last[r] = last_cumulative

TotalInv == Quiet => \E K : Total(K)

(* What the workers have counted has been timed and recorded.              *)
LEMMA CountedLast ==
  ASSUME StatsTypes, NEW e \in Counted
  PROVE  Timed(e) /\ Recorded(e) /\ e \in Events
<1>1. e[1] \in Workers /\ e[2] \in Nat /\ e \in Events /\ e[2] <= counters[e[1]]
  BY Constants DEF Counted, Events
<1>2. counters[e[1]] = IF wpc[e[1]] \in {"idle", "ended"} THEN begun[e[1]] ELSE begun[e[1]] - 1
  BY <1>1 DEF StatsTypes, WorkTypes
<1>3. begun[e[1]] \in Nat
  BY <1>1, Constants DEF StatsTypes, WorkTypes
<1> QED
  BY <1>1, <1>2, <1>3 DEF Timed, Recorded

(* The main thread and the checkpoint thread take turns.                   *)
LEMMA Solo ==
  ASSUME StatsTypes, PhaseInv, Quiet, NEW r \in Checkpointers, rpc[r] \in Routine
  PROVE  /\ \A s \in Checkpointers \ {r} : rpc[s] \notin Routine
         /\ r = "checkpoints" => released /\ rpc["main"] \notin Routine \cup {"done", "print"}
  BY DEF StatsTypes, RunTypes, PhaseInv, Quiet, LeftAlone, Checkpointers, Routine

(* A quiet state comes from a quiet one.                                   *)
LEMMA QuietBefore ==
  ASSUME StatsTypes, PhaseInv, [Next]_vars, Quiet'
  PROVE  Quiet /\ ~ForcedShutdown
<1>t. /\ Reporters = {"main", "report", "checkpoints", "handler"}
      /\ rpc \in [Reporters -> ReporterPoints]
  BY DEF Reporters, StatsTypes, LocalTypes
<1> DEFINE apart == {"join", "silence", "cancel_report", "cancel_checkpoints"}
           away == {"off", "late", "joined"}
<1>f. ~ForcedShutdown
  BY Constants DEF ForcedShutdown, Quiet, Background, Reporters
<1> SUFFICES /\ interrupted' = interrupted
             /\ LeftAlone => /\ released' /\ rpc'["main"] \notin apart
                             /\ rpc'["checkpoints"] \notin away
  BY <1>f DEF Quiet, LeftAlone
<1> USE <1>t DEF From, Loop, LeftAlone
<1>1. CASE \E w \in Workers : Worker(w)
  BY <1>1, WorkerStay DEF runVars
<1>2. ASSUME NEW r \in Reporters,
         \/ Aggregate(r) \/ Lock(r) \/ FetchSlot(r) \/ StoreNevents(r) \/ ResetArray(r)
         \/ ResetNevents(r) \/ Unlock(r) \/ (r # "report" /\ CopyTimer(r))
         \/ r = "report" /\ (AddToCumulative \/ AddNevents)
      PROVE  /\ interrupted' = interrupted
             /\ LeftAlone => /\ released' /\ rpc'["main"] \notin apart
                             /\ rpc'["checkpoints"] \notin away
  <2>1. /\ interrupted' = interrupted /\ released' = released
        /\ \A s \in Reporters \ {r} : rpc'[s] = rpc[s]
    BY <1>2, OthersStay
  <2>2. rpc'[r] \notin apart \cup away
    <3>1. CASE Aggregate(r)
      BY <3>1 DEF Aggregate, MergeCounters, ReadLast, ReplaceLast
    <3>2. CASE Lock(r) \/ FetchSlot(r) \/ StoreNevents(r)
      BY <3>2 DEF Lock, FetchSlot, StoreNevents
    <3>3. CASE ResetArray(r) \/ ResetNevents(r) \/ Unlock(r)
      BY <3>3 DEF ResetArray, ResetNevents, Unlock
    <3>4. CASE r # "report" /\ CopyTimer(r)
      <4>1. Checkpointed(r) \in {"done", "start", "sleep", "unfinished"}
        BY <3>4 DEF Checkpointed
      <4> QED
        BY <3>4, <4>1 DEF CopyTimer
    <3>5. CASE r = "report" /\ (AddToCumulative \/ AddNevents)
      BY <3>5 DEF AddToCumulative, AddNevents
    <3> QED
      BY <1>2, <3>1, <3>2, <3>3, <3>4, <3>5
  <2> QED
    BY <2>1, <2>2
<1>3. CASE AddToCumulative \/ AddNevents
  BY <1>2, <1>3
<1>4. CASE StartReports
  BY <1>4 DEF StartReports, PhaseInv
<1>5. CASE CancelReport \/ CancelCheckpoints
  BY <1>5 DEF CancelReport, CancelCheckpoints, Cancel, runVars
<1>6. CASE \/ JoinWorkers \/ Silence \/ WakeReport \/ WakeCheckpoint \/ LastCheckpoint
           \/ RaiseFlag("report") \/ RaiseFlag("checkpoints") \/ CountUnfinished \/ PrintHistogram
  BY <1>6 DEF JoinWorkers, Silence, WakeReport, WakeCheckpoint, LastCheckpoint, RaiseFlag,
              CountUnfinished, PrintHistogram, runVars
<1>7. CASE UNCHANGED vars
  BY <1>7 DEF vars, runVars
<1> QED
  BY <1>f, <1>1, <1>2, <1>3, <1>4, <1>5, <1>6, <1>7, StepCases DEF OwnWay

(* Only a cumulative report replaces the last total, and it knows the one  *)
(* that it replaces.                                                       *)
LEMMA LastMoves ==
  ASSUME StatsTypes, [Next]_vars, \A r \in Reporters \ {"report"} : ~ReplaceLast(r)
  PROVE  /\ counted' = counted /\ last_cumulative' = last_cumulative
         /\ \A r \in Checkpointers :
              rpc'[r] = "replace" => \/ rpc[r] = "replace" /\ last'[r] = last[r]
                                     \/ last'[r] = last_cumulative
<1>t. /\ Reporters = {"main", "report", "checkpoints", "handler"}
      /\ Checkpointers = {"main", "checkpoints"}
      /\ rpc \in [Reporters -> ReporterPoints] /\ last \in [Reporters -> Nat]
  BY DEF Reporters, Checkpointers, StatsTypes, LocalTypes
<1> USE <1>t DEF From, Loop
<1>1. CASE \E w \in Workers : Worker(w)
  BY <1>1, WorkerStay DEF totals, locals
<1>2. ASSUME NEW r \in Reporters, MergeCounters(r)
      PROVE  UNCHANGED <<totals, last>> /\ \A s \in Reporters : rpc'[s] = "replace" => rpc[s] = "replace"
  BY <1>2 DEF MergeCounters
<1>3. ASSUME NEW r \in Reporters, ReadLast(r)
      PROVE  UNCHANGED totals /\ \A s \in Reporters \ {"report"} :
                  rpc'[s] = "replace" => \/ rpc[s] = "replace" /\ last'[s] = last[s]
                                         \/ last'[s] = last_cumulative
  BY <1>3 DEF ReadLast
<1>4. CASE ReplaceLast("report")
  BY <1>4 DEF ReplaceLast
<1>5. ASSUME NEW r \in Reporters, Lock(r) \/ FetchSlot(r) \/ StoreNevents(r)
      PROVE  UNCHANGED <<totals, last>> /\ \A s \in Reporters : rpc'[s] = "replace" => rpc[s] = "replace"
  BY <1>5 DEF Lock, FetchSlot, StoreNevents, locals
<1>6. ASSUME NEW r \in Reporters, ResetArray(r) \/ ResetNevents(r) \/ Unlock(r)
      PROVE  UNCHANGED <<totals, last>> /\ \A s \in Reporters : rpc'[s] = "replace" => rpc[s] = "replace"
  BY <1>6 DEF ResetArray, ResetNevents, Unlock, locals
<1>7. ASSUME NEW r \in Reporters \ {"report"}, CopyTimer(r)
      PROVE  UNCHANGED <<totals, last>> /\ \A s \in Reporters : rpc'[s] = "replace" => rpc[s] = "replace"
  <2>1. Checkpointed(r) \in {"done", "start", "sleep", "unfinished"}
    BY DEF Checkpointed
  <2> QED
    BY <1>7, <2>1 DEF CopyTimer
<1>8. CASE AddToCumulative \/ AddNevents
  BY <1>8 DEF AddToCumulative, AddNevents, totals, locals
<1>9. CASE StartReports
  BY <1>9 DEF StartReports, Books, totals, locals
<1>10. CASE CancelReport \/ CancelCheckpoints
  BY <1>10 DEF CancelReport, CancelCheckpoints, Cancel, Books, totals, locals
<1>11. CASE \/ JoinWorkers \/ Silence \/ WakeReport \/ WakeCheckpoint \/ LastCheckpoint
            \/ RaiseFlag("report") \/ RaiseFlag("checkpoints") \/ CountUnfinished \/ PrintHistogram
  BY <1>11 DEF JoinWorkers, Silence, WakeReport, WakeCheckpoint, LastCheckpoint, RaiseFlag,
               CountUnfinished, PrintHistogram, Books, totals, locals
<1>12. CASE ForcedShutdown
  BY <1>12 DEF ForcedShutdown, Books, totals, locals
<1>13. CASE UNCHANGED vars
  BY <1>13 DEF vars, totals, locals
<1> QED
  BY <1>1, <1>2, <1>3, <1>4, <1>5, <1>6, <1>7, <1>8, <1>9, <1>10, <1>11, <1>12, <1>13, StepCases
     DEF OwnWay, Aggregate, totals

-----------------------------------------------------------------------------
(* The events of the last total, step by step.                             *)

(* A step that takes no part in the checkpoint being made.                 *)
LEMMA KeepTotal ==
  ASSUME NEW K, Total(K), Counted \subseteq Counted',
         Final' => Final /\ Counted' = Counted,
         last_cumulative' = last_cumulative,
         closed.timer \subseteq closed'.timer, closed.histogram \subseteq closed'.histogram,
         cumulative_array \subseteq cumulative_array',
         \A r \in Checkpointers :
           /\ Taking(r)' <=> Taking(r)
           /\ Taking(r) => /\ rpc'[r] = rpc[r] /\ idx'[r] = idx[r]
                           /\ rpc[r] = "slots" => \A s \in 1..NSlots : interm_slots[s] \subseteq interm_slots'[s]
                           /\ rpc[r] = "slots" => idx[r] \in 1..NSlots
  PROVE  Total(K)'
<1>1. ASSUME NEW r \in Checkpointers, Taking(r) PROVE OnTheWay(r, K)'
  <2>1. OnTheWay(r, K) /\ rpc'[r] = rpc[r] /\ idx'[r] = idx[r]
    BY <1>1 DEF Total
  <2>2. \A e : Before(r, e)' <=> Before(r, e)
    BY <2>1 DEF Before
  <2>3. CASE rpc[r] = "slots"
    <3>1. \A e \in K : \/ \E s \in idx[r]..NSlots : e \in interm_slots[s]
                       \/ e \in cumulative_array \/ e \in closed.histogram
      BY <2>1, <2>3 DEF OnTheWay
    <3>2. \A s \in idx[r]..NSlots : interm_slots[s] \subseteq interm_slots'[s]
      BY <1>1, <2>3, Constants
    <3> QED
      BY <2>1, <2>3, <3>1, <3>2 DEF OnTheWay
  <2>4. CASE rpc[r] # "slots"
    BY <2>1, <2>2, <2>4 DEF OnTheWay
  <2> QED
    BY <2>3, <2>4
<1>2. (\A r \in Checkpointers : ~Taking(r))' => K \subseteq closed'.timer \cap closed'.histogram
  BY DEF Total
<1> QED
  BY <1>1, <1>2 DEF Total

(* A step of the reporter that is making the checkpoint.                   *)
LEMMA OwnTotal ==
  ASSUME NEW K, Total(K), NEW r \in Checkpointers, Taking(r)', OnTheWay(r, K)',
         \A s \in Checkpointers \ {r} : ~Taking(s)',
         Counted' = Counted, last_cumulative' = last_cumulative, Final' => Final
  PROVE  Total(K)'
  BY DEF Total

(* A cumulative report under way: it is the only one, and what its steps   *)
(* leave alone.                                                            *)
LEMMA Underway ==
  ASSUME StatsTypes, PhaseInv, Quiet, NEW r \in Checkpointers,
         \/ Aggregate(r) \/ Lock(r) \/ FetchSlot(r) \/ StoreNevents(r) \/ ResetArray(r)
         \/ ResetNevents(r) \/ Unlock(r) \/ CopyTimer(r)
  PROVE  /\ rpc[r] \in Routine /\ Counted' = Counted /\ released' = released
         /\ \A s \in Checkpointers \ {r} : ~Taking(s) /\ ~Taking(s)'
         /\ r = "checkpoints" => ~Final'
         /\ r = "checkpoints" => printing' = printing /\ ~printing
<1>t. /\ r \in Reporters /\ r # "report" /\ Checkpointers = {"main", "checkpoints"}
  BY DEF Checkpointers, Reporters
<1>1. /\ \A s \in Reporters \ {r} : rpc'[s] = rpc[s]
      /\ UNCHANGED <<workVars, released>> /\ (printing' # printing => r = "main")
  BY <1>t, OthersStay
<1>2. rpc[r] \in Routine
  BY DEF Aggregate, MergeCounters, ReadLast, ReplaceLast, Lock, FetchSlot, StoreNevents,
         ResetArray, ResetNevents, Unlock, CopyTimer, Loop, From, Routine
<1>3. /\ \A s \in Checkpointers \ {r} : rpc[s] \notin Routine /\ rpc'[s] = rpc[s]
      /\ r = "checkpoints" => rpc["main"] \notin Routine \cup {"done", "print"}
  BY <1>1, <1>2, Solo DEF Checkpointers, Reporters
<1>4. Counted' = Counted
  BY <1>1 DEF workVars, Counted
<1>5. \A s \in Checkpointers \ {r} : ~Taking(s) /\ ~Taking(s)'
  BY <1>3 DEF Taking, InCheckpoint, Routine
<1>6. r = "checkpoints" => ~Final' /\ printing' = printing /\ ~printing
  <2> SUFFICES ASSUME r = "checkpoints"
               PROVE  ~Final' /\ printing' = printing /\ ~printing
    OBVIOUS
  <2>1. rpc["main"] \notin Routine \cup {"done", "print"} /\ rpc'["main"] = rpc["main"]
    BY <1>3, <1>t
  <2>2. ~Taking("main")'
    BY <1>5, <1>t
  <2>3. ~printing
    BY <2>1 DEF PhaseInv, Routine
  <2> QED
    BY <1>1, <2>1, <2>2, <2>3 DEF Final
<1> QED
  BY <1>1, <1>2, <1>4, <1>5, <1>6

(* The total is replaced by one that the checkpoint takes from now on.     *)
LEMMA ReplaceTotal ==
  ASSUME StatsTypes, PhaseInv, SumsInv, Quiet, LastInv, NEW r \in Checkpointers, ReplaceLast(r)
  PROVE  /\ counted' = last_cumulative'
         /\ \A s \in Checkpointers : rpc'[s] # "replace"
         /\ \E K : Total(K)'
<1>t. /\ r \in Reporters /\ r # "report" /\ rpc \in [Reporters -> ReporterPoints]
      /\ sum[r] \in Nat /\ last_cumulative \in Nat /\ released \in BOOLEAN
  BY DEF Checkpointers, Reporters, StatsTypes, LocalTypes, TotalTypes, RunTypes
<1>1. /\ rpc[r] = "replace" /\ rpc' = [rpc EXCEPT ![r] = "lock"]
      /\ last_cumulative' = sum[r] /\ counted' = counted + sum[r] - last[r]
      /\ UNCHANGED <<released, printing>>
  BY <1>t DEF ReplaceLast, From, runVars
<1>2. counted = last_cumulative /\ last[r] = last_cumulative
  BY <1>1 DEF LastInv
<1>3. counted' = last_cumulative'
  BY <1>1, <1>2, <1>t
<1>4. /\ Counted' = Counted /\ released' = released
      /\ \A s \in Checkpointers \ {r} : ~Taking(s) /\ ~Taking(s)'
      /\ r = "checkpoints" => ~Final'
  BY Underway DEF Aggregate
<1>5. Taking(r)' /\ rpc'[r] = "lock"
  BY <1>1, <1>t DEF Taking, InCheckpoint, PhaseInv
<1>6. \A s \in Checkpointers : rpc'[s] # "replace"
  <2>1. \A s \in Checkpointers \ {r} : rpc[s] \notin Routine
    BY <1>1, Solo DEF Routine
  <2> QED
    BY <1>1, <1>5, <2>1 DEF Routine, Checkpointers, Reporters
<1>7. PICK J : AddedUp(r, J)
  BY <1>1 DEF SumsInv
<1>8. J \subseteq Counted /\ Cardinality(J) = sum[r] /\ (r = "main" /\ released => Counted \subseteq J)
  BY <1>1, <1>7 DEF AddedUp
<1>9. Final' => r = "main" /\ released
  BY <1>4 DEF Final, Checkpointers
<1>10. OnTheWay(r, J)'
  BY <1>5 DEF OnTheWay
<1>11. Total(J)'
  BY <1>1, <1>4, <1>5, <1>8, <1>9, <1>10 DEF Total
<1> QED
  BY <1>3, <1>6, <1>11

(* The steps of a checkpoint carry the events of the total along.          *)
LEMMA CarryTotal ==
  ASSUME StatsTypes, PhaseInv, LockInv, TimesKept, LatenciesKept, Quiet,
         NEW K, Total(K), NEW r \in Checkpointers, Taking(r),
         \/ Lock(r) \/ FetchSlot(r) \/ StoreNevents(r) \/ ResetArray(r)
         \/ ResetNevents(r) \/ Unlock(r) \/ CopyTimer(r)
  PROVE  Total(K)'
<1>t. /\ r \in Reporters /\ r # "report" /\ r # "handler" /\ "report" \in Reporters
      /\ rpc \in [Reporters -> ReporterPoints] /\ idx \in [Reporters -> Nat]
      /\ rpc[r] \notin {"count", "timers", "slots"} => idx[r] = 1
      /\ released \in BOOLEAN /\ printing \in BOOLEAN /\ NSlots \in Nat \ {0}
      /\ closed \in [timer : SUBSET Events, histogram : SUBSET Events]
  BY Constants DEF Checkpointers, Reporters, StatsTypes, LocalTypes, RunTypes, TimerTypes
<1>u. /\ rpc[r] \in Routine /\ Counted' = Counted /\ released' = released
      /\ \A s \in Checkpointers \ {r} : ~Taking(s) /\ ~Taking(s)'
      /\ r = "checkpoints" => ~Final' /\ printing' = printing /\ ~printing
  BY Underway
<1>k. /\ K \subseteq Counted /\ OnTheWay(r, K) /\ (Final => Counted \subseteq K)
      /\ Cardinality(K) = last_cumulative /\ ~printing
      /\ r = "main" => (Final <=> released)
  <2>1. ~printing
    BY <1>u, <1>t DEF Taking, Checkpointers
  <2> QED
    BY <2>1 DEF Total, Final
<1>e. \A e \in K : e \in Events /\ Timed(e) /\ Recorded(e)
  BY <1>k, CountedLast
(* It goes on. *)
<1>1. ASSUME rpc'[r] \in {"lock", "slots", "nevents", "percentile", "reset", "unlock", "timers"},
             printing' = printing, OnTheWay(r, K)', last_cumulative' = last_cumulative
      PROVE  Total(K)'
  <2>1. Taking(r)'
    BY <1>1, <1>k DEF Taking, InCheckpoint
  <2>2. Final' => Final
    BY <1>u, <1>k DEF Final, Checkpointers
  <2> QED
    BY <1>1, <1>u, <2>1, <2>2, OwnTotal
<1>2. CASE Lock(r)
  <2>1. /\ rpc'[r] = "slots" /\ idx'[r] = idx[r] /\ idx[r] = 1 /\ lock \in {"none", r}
        /\ UNCHANGED <<printing, last_cumulative, interm_slots, cumulative_array, closed>>
    BY <1>2, <1>t DEF Lock, From, locals, totals, runVars
  <2>2. Collected = {}
    <3>1. interrupted # "report"
      BY Constants DEF Quiet, Reporters
    <3>2. ~InSection("report")
      BY <2>1, <3>1, <1>t, Constants DEF LockInv
    <3> QED
      BY <3>2 DEF InSection, Collected
  <2>3. \A e \in K : \/ \E s \in 1..NSlots : e \in interm_slots[s]
                     \/ e \in cumulative_array \/ e \in closed.histogram
    BY <1>e, <2>2 DEF LatenciesKept
  <2>4. OnTheWay(r, K)'
    BY <2>1, <2>3 DEF OnTheWay
  <2> QED
    BY <1>1, <2>1, <2>4
<1>3. CASE FetchSlot(r)
  <2>1. /\ idx[r] \in 1..NSlots /\ interm_slots' = [interm_slots EXCEPT ![idx[r]] = {}]
        /\ cumulative_array' = cumulative_array \cup interm_slots[idx[r]] /\ closed' = closed
    BY <1>3, <1>t, FetchMoves
  <2>2. /\ rpc[r] = "slots" /\ rpc'[r] = (IF idx[r] = NSlots THEN "nevents" ELSE "slots")
        /\ idx'[r] = (IF idx[r] = NSlots THEN 1 ELSE idx[r] + 1)
        /\ UNCHANGED <<printing, last_cumulative>>
    BY <1>3, <1>t DEF FetchSlot, Loop, From, totals, runVars
  <2>3. \A e \in K : \/ \E s \in idx[r]..NSlots : e \in interm_slots[s]
                     \/ e \in cumulative_array \/ e \in closed.histogram
    BY <1>k, <2>2 DEF OnTheWay
  <2>4. \A e \in K : \/ \E s \in (idx[r] + 1)..NSlots : e \in interm_slots[s]
                     \/ e \in cumulative_array' \/ e \in closed.histogram
    <3>1. \A s \in idx[r]..NSlots : s = idx[r] \/ s \in (idx[r] + 1)..NSlots
      BY <2>1, <1>t
    <3> QED
      BY <2>1, <2>3, <3>1
  <2>5. CASE idx[r] = NSlots
    <3>1. \A s \in (idx[r] + 1)..NSlots : FALSE
      BY <2>5, <1>t
    <3>2. OnTheWay(r, K)'
      BY <2>1, <2>2, <2>4, <2>5, <3>1 DEF OnTheWay
    <3> QED
      BY <1>1, <2>2, <3>2
  <2>6. CASE idx[r] # NSlots
    <3>1. \A s \in (idx[r] + 1)..NSlots : interm_slots'[s] = interm_slots[s]
      BY <2>1, <1>t DEF StatsTypes, HistogramTypes
    <3>2. OnTheWay(r, K)'
      BY <2>1, <2>2, <2>4, <2>6, <3>1 DEF OnTheWay
    <3> QED
      BY <1>1, <2>2, <3>2
  <2> QED
    BY <2>5, <2>6
<1>4. CASE StoreNevents(r)
  <2>1. /\ rpc[r] = "nevents" /\ rpc'[r] = "percentile"
        /\ UNCHANGED <<printing, last_cumulative, cumulative_array, closed>>
    BY <1>4, <1>t, <1>k DEF StoreNevents, From, totals, runVars
  <2>2. OnTheWay(r, K)'
    BY <1>k, <2>1 DEF OnTheWay
  <2> QED
    BY <1>1, <2>1, <2>2
<1>5. CASE ResetArray(r)
  <2>1. /\ rpc[r] = "percentile" /\ rpc'[r] = "reset" /\ UNCHANGED <<printing, last_cumulative>>
    BY <1>5, <1>t DEF ResetArray, From, totals, runVars
  <2>2. closed'.histogram = closed.histogram \cup cumulative_array
    BY <1>5, ResetMoves, <1>t
  <2>3. OnTheWay(r, K)'
    BY <1>k, <2>1, <2>2 DEF OnTheWay
  <2> QED
    BY <1>1, <2>1, <2>3
<1>6. CASE ResetNevents(r)
  <2>1. /\ rpc[r] = "reset" /\ rpc'[r] = "unlock"
        /\ UNCHANGED <<printing, last_cumulative, closed>>
    BY <1>6, <1>t DEF ResetNevents, From, totals, runVars
  <2>2. OnTheWay(r, K)'
    BY <1>k, <2>1 DEF OnTheWay
  <2> QED
    BY <1>1, <2>1, <2>2
<1>7. CASE Unlock(r)
  <2>1. /\ rpc[r] = "unlock" /\ rpc'[r] = "timers" /\ idx'[r] = idx[r] /\ idx[r] = 1
        /\ UNCHANGED <<printing, last_cumulative, closed>>
    BY <1>7, <1>t, <1>k DEF Unlock, From, locals, totals
  <2>2. \A e : ~Before(r, e)'
    BY <2>1 DEF Before
  <2>3. OnTheWay(r, K)'
    BY <1>k, <2>1, <2>2 DEF OnTheWay
  <2> QED
    BY <1>1, <2>1, <2>3
<1>8. CASE CopyTimer(r)
  <2>1. PICK w \in Workers : /\ w = threads[idx[r]]
                             /\ closed'.timer = closed.timer \cup ({w} \X timers[w].events)
    BY <1>8, TakeTimes, <1>t
  <2>2. /\ rpc[r] = "timers" /\ idx[r] \in 1..Len(threads) /\ Len(threads) \in Nat
        /\ rpc'[r] = (IF idx[r] = Len(threads) THEN Checkpointed(r) ELSE "timers")
        /\ idx'[r] = (IF idx[r] = Len(threads) THEN 1 ELSE idx[r] + 1)
        /\ UNCHANGED <<printing, last_cumulative>> /\ closed'.histogram = closed.histogram
    BY <1>8, <1>t, Constants DEF CopyTimer, Loop, From, totals, runVars, StatsTypes, LocalTypes
  <2>3. K \subseteq closed.histogram /\ \A e \in K : Before(r, e) => e \in closed.timer
    BY <1>k, <2>2 DEF OnTheWay
  <2>4. \A e \in K : e[1] = w => e \in closed'.timer
    <3>1. \A e \in K : e = <<e[1], e[2]>>
      BY <1>e DEF Events
    <3> QED
      BY <1>e, <2>1, <3>1 DEF TimesKept
  <2>5. \A e \in K : Before(r, e) \/ e[1] = w => e \in closed'.timer
    BY <2>1, <2>3, <2>4
  <2>6. CASE idx[r] # Len(threads)
    <3>1. \A e : Before(r, e)' => Before(r, e) \/ e[1] = w
      BY <2>1, <2>2, <2>6 DEF Before
    <3>2. OnTheWay(r, K)'
      BY <2>2, <2>3, <2>5, <2>6, <3>1 DEF OnTheWay
    <3> QED
      BY <1>1, <2>2, <2>6, <3>2
  <2>7. CASE idx[r] = Len(threads)
    <3>1. \A e \in K : Before(r, e) \/ e[1] = w
      <4>1. ASSUME NEW e \in K PROVE \E i \in 1..Len(threads) : e[1] = threads[i]
        <5>1. e[1] \in Workers
          BY <1>e DEF Events
        <5> QED
          BY <5>1, StatsAssumption DEF Workers, Range
      <4> QED
        BY <2>1, <2>2, <2>7, <4>1 DEF Before
    <3>2. K \subseteq closed'.timer \cap closed'.histogram
      BY <2>2, <2>3, <2>5, <3>1
    <3>3. Checkpointed(r) \in {"done", "start", "sleep"}
      BY <1>t DEF Checkpointed, Checkpointers
    <3>4. ~Taking(r)' /\ (Final' => Final)
      <4>1. ~Taking(r)'
        BY <2>2, <2>7, <3>3 DEF Taking, InCheckpoint
      <4>2. Final' => Final
        BY <1>u, <1>k DEF Final, Checkpointers
      <4> QED
        BY <4>1, <4>2
    <3> QED
      BY <1>u, <1>k, <2>2, <3>2, <3>4 DEF Total
  <2> QED
    BY <2>6, <2>7
<1> QED
  BY <1>2, <1>3, <1>4, <1>5, <1>6, <1>7, <1>8

(* A step that moves no checkpoint and takes nothing from the histogram.   *)
LEMMA StandBy ==
  ASSUME StatsTypes, PhaseInv, Quiet, NEW K, Total(K), [Next]_vars,
         last_cumulative' = last_cumulative,
         closed.timer \subseteq closed'.timer, closed.histogram \subseteq closed'.histogram,
         cumulative_array \subseteq cumulative_array',
         \A r \in Checkpointers :
           \/ /\ rpc'[r] = rpc[r] /\ idx'[r] = idx[r] /\ UNCHANGED <<printing, released>>
              /\ rpc[r] = "slots" /\ Taking(r) =>
                   \A s \in 1..NSlots : interm_slots[s] \subseteq interm_slots'[s]
           \/ /\ ~Taking(r) /\ ~Taking(r)' /\ (r = "main" => rpc'[r] # "done")
  PROVE  Total(K)'
<1>1. Final' => Final
  <2>1. released' /\ ~released => rpc'["main"] = "join"
    BY Release DEF StartReports, Reporters
  <2>2. rpc'["main"] = "join" => ~Final'
    BY DEF Final, Taking, InCheckpoint
  <2>3. "main" \in Checkpointers
    BY DEF Checkpointers
  <2> QED
    BY <2>1, <2>2, <2>3 DEF Final, Taking, InCheckpoint
<1>2. Final => released /\ rpc["main"] # "join"
  BY DEF Final, Taking, InCheckpoint
<1>3. \A r \in Checkpointers : rpc[r] = "slots" => idx[r] \in 1..NSlots
  BY DEF StatsTypes, LocalTypes, Checkpointers, Reporters
<1>4. ASSUME NEW r \in Checkpointers
      PROVE  /\ Taking(r)' <=> Taking(r)
             /\ Taking(r) => /\ rpc'[r] = rpc[r] /\ idx'[r] = idx[r]
                             /\ rpc[r] = "slots" => \A s \in 1..NSlots : interm_slots[s] \subseteq interm_slots'[s]
                             /\ rpc[r] = "slots" => idx[r] \in 1..NSlots
  BY <1>3 DEF Taking, InCheckpoint
<1> QED
  BY <1>1, <1>2, <1>4, KeepTotal, CountedGrows

(* Every step keeps the events of the last total.                          *)
LEMMA TotalStep ==
  ASSUME StatsTypes, HandlerOff, PhaseInv, SumsInv, LockInv, TimesKept, LatenciesKept,
         LastInv, TotalInv, [Next]_vars
  PROVE  LastInv' /\ TotalInv'
<1> SUFFICES ASSUME Quiet'
             PROVE  /\ counted' = last_cumulative'
                    /\ \A r \in Checkpointers : rpc'[r] = "replace" => last'[r] = last_cumulative'
                    /\ \E K : Total(K)'
  BY DEF LastInv, TotalInv
<1>q. Quiet /\ ~ForcedShutdown
  BY QuietBefore
<1>t. /\ Checkpointers = {"main", "checkpoints"}
      /\ Reporters = {"main", "report", "checkpoints", "handler"}
      /\ rpc \in [Reporters -> ReporterPoints] /\ idx \in [Reporters -> Nat]
      /\ interm_slots \in [1..NSlots -> SUBSET Events]
      /\ closed \in [timer : SUBSET Events, histogram : SUBSET Events]
  BY DEF Checkpointers, Reporters, StatsTypes, LocalTypes, HistogramTypes, TimerTypes
<1>h. rpc["handler"] = "off"
  BY <1>q DEF Quiet, HandlerOff
<1>1. ASSUME NEW r \in Checkpointers, ReplaceLast(r)
      PROVE  /\ counted' = last_cumulative'
             /\ \A s \in Checkpointers : rpc'[s] = "replace" => last'[s] = last_cumulative'
             /\ \E K : Total(K)'
  BY <1>q, <1>1, ReplaceTotal
<1>2. CASE \A r \in Checkpointers : ~ReplaceLast(r)
  <2>1. ~ReplaceLast("handler")
    BY <1>h DEF ReplaceLast, From
  <2>2. /\ counted' = counted /\ last_cumulative' = last_cumulative
        /\ \A r \in Checkpointers :
             rpc'[r] = "replace" => \/ rpc[r] = "replace" /\ last'[r] = last[r]
                                    \/ last'[r] = last_cumulative
    BY <1>2, <2>1, <1>t, LastMoves
  <2>3. counted = last_cumulative
        /\ \A r \in Checkpointers : rpc[r] = "replace" => last[r] = last_cumulative
    BY <1>q DEF LastInv
  <2> SUFFICES \E K : Total(K)'
    BY <2>2, <2>3
  <2>k. PICK K : Total(K)
    BY <1>q DEF TotalInv
  (* All but the histogram's events and the two threads stay. *)
  <2>s. ASSUME closed' = closed, cumulative_array \subseteq cumulative_array',
               \A r \in Checkpointers :
                 \/ /\ rpc'[r] = rpc[r] /\ idx'[r] = idx[r] /\ UNCHANGED <<printing, released>>
                    /\ rpc[r] = "slots" /\ Taking(r) =>
                         \A s \in 1..NSlots : interm_slots[s] \subseteq interm_slots'[s]
                 \/ /\ ~Taking(r) /\ ~Taking(r)' /\ (r = "main" => rpc'[r] # "done")
        PROVE  Total(K)'
    BY <1>q, <2>2, <2>k, <2>s, StandBy
  <2>4. ASSUME NEW w \in Workers, Worker(w) PROVE Total(K)'
    <3>1. UNCHANGED <<rpc, idx, printing, released, closed, cumulative_array>>
      BY <2>4, WorkerStay DEF locals, runVars
    <3>2. \A s \in 1..NSlots : interm_slots[s] \subseteq interm_slots'[s]
      BY <2>4, <1>t DEF Worker, StartTimer, StopTimer, UpdateHistogram, CountEvent, EndWorker
    <3> QED
      BY <2>s, <3>1, <3>2
  <2>5. ASSUME Aggregate("report") \/ Lock("report") \/ FetchSlot("report") \/ Unlock("report")
               \/ AddToCumulative \/ AddNevents
        PROVE  Total(K)'
    <3>1. /\ \A s \in Checkpointers : rpc'[s] = rpc[s] /\ idx'[s] = idx[s]
          /\ UNCHANGED <<printing, released>>
      BY <2>5, <1>t, OthersStay
    <3>2. CASE Aggregate("report")
      BY <2>s, <3>1, <3>2 DEF Aggregate, MergeCounters, ReadLast, ReplaceLast, histogram
    <3>3. CASE Lock("report") \/ Unlock("report") \/ AddNevents
      BY <2>s, <3>1, <3>3 DEF Lock, Unlock, AddNevents
    <3>4. CASE AddToCumulative
      BY <2>s, <3>1, <3>4 DEF AddToCumulative
    <3>5. CASE FetchSlot("report")
      <4>1. lock = "report"
        BY <3>5, <1>t DEF FetchSlot, Loop, From, Runs, LockInv, InSection
      <4>2. \A r \in Checkpointers : rpc[r] # "slots"
        BY <4>1, <1>q, <1>t, Constants DEF LockInv, InSection, Quiet
      <4>3. closed' = closed /\ cumulative_array' = cumulative_array
        BY <3>5 DEF FetchSlot
      <4> QED
        BY <2>s, <3>1, <4>2, <4>3
    <3> QED
      BY <2>5, <3>2, <3>3, <3>4, <3>5
  <2>6. ASSUME NEW r \in Checkpointers, MergeCounters(r) \/ ReadLast(r) PROVE Total(K)'
    <3>1. /\ \A s \in Checkpointers \ {r} : rpc'[s] = rpc[s] /\ idx'[s] = idx[s]
          /\ released' = released /\ printing' = printing
      BY <2>6, <1>t, OthersStay DEF Aggregate, MergeCounters, ReadLast, runVars
    <3>2. /\ rpc[r] \in {"count", "last"} /\ rpc'[r] \in {"count", "last", "replace"}
          /\ UNCHANGED <<closed, histogram>>
      BY <2>6, <1>t DEF MergeCounters, ReadLast, Loop, From
    <3> QED
      BY <2>s, <3>1, <3>2 DEF Taking, InCheckpoint, histogram
  <2>7. ASSUME NEW r \in Checkpointers, Taking(r),
               \/ Lock(r) \/ FetchSlot(r) \/ StoreNevents(r) \/ ResetArray(r)
               \/ ResetNevents(r) \/ Unlock(r) \/ CopyTimer(r)
        PROVE  Total(K)'
    BY <1>q, <2>k, <2>7, CarryTotal
  <2>8. ASSUME NEW r \in Checkpointers, ~Taking(r),
               \/ Lock(r) \/ FetchSlot(r) \/ StoreNevents(r) \/ ResetArray(r)
               \/ ResetNevents(r) \/ Unlock(r) \/ CopyTimer(r)
        PROVE  Total(K)'
    <3>1. rpc[r] \in {"lock", "slots", "nevents", "percentile", "reset", "unlock", "timers"}
      BY <2>8, <1>t DEF Lock, FetchSlot, StoreNevents, ResetArray, ResetNevents, Unlock,
                        CopyTimer, Loop, From
    <3>2. r = "main" /\ printing /\ rpc[r] \in {"lock", "slots", "nevents", "unlock"}
      BY <2>8, <3>1 DEF Taking, InCheckpoint, PhaseInv
    <3>3. /\ \A s \in Checkpointers \ {r} : rpc'[s] = rpc[s] /\ idx'[s] = idx[s] /\ ~Taking(s) /\ ~Taking(s)'
      BY <2>8, <1>q, <1>t, Underway, OthersStay
    <3>4. /\ closed' = closed /\ cumulative_array \subseteq cumulative_array'
          /\ \/ rpc'[r] \in {"slots", "nevents", "print"} /\ printing'
             \/ rpc'[r] = "count"
      BY <2>8, <3>2, <1>t DEF Lock, FetchSlot, StoreNevents, ResetArray, ResetNevents, Unlock,
                              CopyTimer, Loop, From, runVars
    <3>5. ~Taking(r)' /\ rpc'[r] # "done"
      BY <3>2, <3>4 DEF Taking, InCheckpoint
    <3> QED
      BY <2>s, <2>8, <3>2, <3>3, <3>4, <3>5, <1>t
  <2>9. CASE OwnWay
    <3>1. UNCHANGED <<closed, histogram, idx>>
      BY <2>9 DEF OwnWay, StartReports, JoinWorkers, Silence, CancelReport, CancelCheckpoints,
                  Cancel, PrintHistogram, WakeReport, WakeCheckpoint, LastCheckpoint, RaiseFlag,
                  CountUnfinished, Books, locals
    <3>2. CASE StartReports
      <4>1. /\ rpc["main"] = "start" /\ rpc'["main"] = "join"
            /\ rpc["checkpoints"] \in {"off", "barrier"}
            /\ rpc'["checkpoints"] \in {"off", "late"}
        BY <3>2, <1>t DEF StartReports, PhaseInv
      <4> QED
        BY <2>s, <3>1, <4>1, <1>t DEF Taking, InCheckpoint, histogram
    <3>3. CASE JoinWorkers \/ Silence \/ CancelReport
      <4>1. /\ rpc["main"] \in {"join", "silence", "cancel_report"}
            /\ rpc'["main"] \in {"silence", "cancel_report", "cancel_checkpoints"}
            /\ rpc'["checkpoints"] = rpc["checkpoints"] /\ UNCHANGED <<printing, released>>
        BY <3>3, <1>t DEF JoinWorkers, Silence, CancelReport, Cancel, From, runVars
      <4> QED
        BY <2>s, <3>1, <4>1, <1>t DEF Taking, InCheckpoint, histogram
    <3>4. CASE CancelCheckpoints
      <4>1. /\ rpc["main"] = "cancel_checkpoints"
            /\ \/ rpc'["main"] = "lock" /\ printing'
               \/ rpc'["main"] = "count"
            /\ \/ rpc'["checkpoints"] = rpc["checkpoints"] /\ rpc["checkpoints"] \in {"off", "late"}
               \/ rpc["checkpoints"] \in {"sleep", "ended"} /\ rpc'["checkpoints"] = "joined"
        BY <3>4, <1>t DEF CancelCheckpoints, Cancel
      <4> QED
        BY <2>s, <3>1, <4>1, <1>t DEF Taking, InCheckpoint, histogram
    <3>5. CASE PrintHistogram
      <4>1. /\ rpc["main"] = "print"
            /\ \/ rpc'["main"] = "unlock" /\ printing'
               \/ rpc'["main"] = "count"
            /\ rpc'["checkpoints"] = rpc["checkpoints"] /\ released' = released /\ printing
        BY <3>5, <1>t DEF PrintHistogram, From, PhaseInv
      <4>2. ~Taking("checkpoints") /\ ~Taking("checkpoints")'
        <5>1. rpc["checkpoints"] \notin Routine
          BY <4>1, <1>q, <1>t, Solo
        <5> QED
          BY <4>1, <5>1 DEF Taking, InCheckpoint, Routine
      <4> QED
        BY <2>s, <3>1, <4>1, <4>2, <1>t DEF Taking, InCheckpoint, histogram
    <3>6. CASE WakeReport \/ RaiseFlag("report")
      <4>1. /\ rpc'["main"] = rpc["main"] /\ rpc'["checkpoints"] = rpc["checkpoints"]
            /\ UNCHANGED <<printing, released>>
        BY <3>6, <1>t DEF WakeReport, RaiseFlag, From, runVars
      <4> QED
        BY <2>s, <3>1, <4>1, <1>t DEF histogram
    <3>7. CASE WakeCheckpoint \/ LastCheckpoint \/ RaiseFlag("checkpoints")
      <4>1. /\ rpc'["main"] = rpc["main"] /\ UNCHANGED <<printing, released>>
            /\ rpc["checkpoints"] \in {"sleep", "late"}
            /\ rpc'["checkpoints"] \in {"count", "ended", "sleep"}
        BY <3>7, <1>t DEF WakeCheckpoint, LastCheckpoint, RaiseFlag, From, runVars
      <4> QED
        BY <2>s, <3>1, <4>1, <1>t DEF Taking, InCheckpoint, histogram
    <3>8. ~CountUnfinished
      BY <1>h DEF CountUnfinished, From
    <3> QED
      BY <2>9, <3>2, <3>3, <3>4, <3>5, <3>6, <3>7, <3>8 DEF OwnWay
  <2>10. CASE UNCHANGED vars
    BY <2>s, <2>10 DEF vars, locals, runVars, histogram
  <2>11. ASSUME \/ Aggregate("handler") \/ Lock("handler") \/ FetchSlot("handler")
                \/ Unlock("handler") \/ StoreNevents("handler") \/ ResetArray("handler")
                \/ ResetNevents("handler") \/ CopyTimer("handler")
         PROVE  FALSE
    <3>1. "handler" \in Reporters \ {"report"}
      BY <1>t
    <3> QED
      BY <1>h, <2>11, <3>1, OthersStay
  <2>12. ASSUME NEW r \in Checkpointers, Aggregate(r) PROVE Total(K)'
    BY <1>2, <2>6, <2>12 DEF Aggregate
  <2> QED
    BY <1>q, <1>t, <2>4, <2>5, <2>7, <2>8, <2>9, <2>10, <2>11, <2>12, StepCases
<1> QED
  BY <1>1, <1>2

-----------------------------------------------------------------------------
(* The three books of a cumulative report.                                 *)

BooksInv == PhaseInv /\ SumsInv /\ TimesKept /\ LatenciesKept /\ LastInv /\ TotalInv

(* Everything starts with nothing counted.                                 *)
LEMMA BooksStart == Init => BooksInv
<1> SUFFICES ASSUME Init PROVE BooksInv
  OBVIOUS
<1>t. Events = Workers \X (1..MaxEvents) /\ MaxEvents \in Nat
  BY Constants DEF Events
<1>0. Cardinality({}) = 0
  BY FS_EmptySet
<1>1. PhaseInv
  BY DEF Init, PhaseInv, Reporters, Routine
<1>2. /\ \A e \in Events : ~Timed(e) /\ ~Recorded(e)
      /\ Counted = {}
  BY <1>t DEF Init, Timed, Recorded, Counted
<1>3. \A r \in Checkpointers : /\ sum[r] = 0 /\ idx[r] = 1 /\ r \in Reporters
                               /\ rpc[r] \in {"count", "start", "barrier", "off"}
  BY DEF Init, Checkpointers, Reporters
<1>4. SumsInv
  <2>1. ASSUME NEW r \in Checkpointers PROVE AddedUp(r, {})
    BY <1>0, <1>2, <1>3, <2>1 DEF AddedUp
  <2> QED
    BY <1>3, <2>1 DEF SumsInv
<1>5. TimesKept /\ LatenciesKept
  BY <1>2 DEF TimesKept, LatenciesKept
<1>6. LastInv
  BY <1>3 DEF Init, LastInv
<1>7. Total({})
  BY <1>0, <1>2, <1>3 DEF Init, Total, Taking, InCheckpoint
<1> QED
  BY <1>1, <1>4, <1>5, <1>6, <1>7 DEF BooksInv, TotalInv

(* The books of the cumulative reports hold in every state.                *)
LEMMA BooksInvariant == Spec => []BooksInv
<1>1. StatsTypes /\ HandlerOff /\ PercentileInv /\ BooksInv /\ [Next]_vars => BooksInv'
  BY PhaseStep, SumsStep, TimesKeptStep, LatenciesKeptStep, TotalStep
     DEF BooksInv, PercentileInv
<1> QED
  BY <1>1, BooksStart, StatsInvariant, PercentileInvariant, PTL DEF Spec

(* Between two cumulative reports their sums and their histogram have all  *)
(* the events that their counts have (checkpoint(): the counters are read  *)
(* before the histogram and the timers, which the workers write before     *)
(* the counters), unless an alarm or a checkpoint thread that was left     *)
(* alone has mixed two reports.                                            *)
THEOREM CountedCorrect == Spec => []CountedIsTimed
<1>1. StatsTypes /\ BooksInv => CountedIsTimed
  <2> SUFFICES ASSUME StatsTypes, BooksInv, interrupted = "none", ~LeftAlone,
                      \A r \in Reporters \ {"report"} : ~InCheckpoint(r)
               PROVE  counted <= Cardinality(closed.timer) /\ counted <= Cardinality(closed.histogram)
    BY DEF CountedIsTimed
  <2>1. PICK K : Total(K)
    BY DEF BooksInv, TotalInv, Quiet
  <2>2. \A r \in Checkpointers : ~Taking(r)
    BY DEF Checkpointers, Reporters, Taking
  <2>3. /\ K \subseteq closed.timer /\ K \subseteq closed.histogram
        /\ Cardinality(K) = counted
    BY <2>1, <2>2 DEF Total, BooksInv, LastInv, Quiet
  <2>4. IsFiniteSet(closed.timer) /\ IsFiniteSet(closed.histogram)
    BY EventsFinite, FS_Subset DEF StatsTypes, TimerTypes
  <2> QED
    BY <2>3, <2>4, FS_Subset
<1> QED
  BY <1>1, StatsInvariant, BooksInvariant, PTL

(* When the final report is out, its count, its sums and its histogram are *)
(* of the same events, and these are all the events of the run: the        *)
(* report comes after the workers have ended, and no report before it has  *)
(* counted what it did not sum up, or summed up twice.                     *)
THEOREM FinalBooksCorrect == Spec => []FinalBooksAgree
<1>1. StatsTypes /\ BooksInv /\ TimesInv /\ LatencyInv => FinalBooksAgree
  <2> SUFFICES ASSUME StatsTypes, BooksInv, TimesInv, LatencyInv,
                      rpc["main"] = "done", interrupted = "none", ~LeftAlone
               PROVE  /\ closed.timer = Counted /\ closed.histogram = Counted
                      /\ counted = Cardinality(Counted)
    BY DEF FinalBooksAgree, Counted
  <2>1. released /\ \A w \in Workers : wpc[w] = "ended"
    BY DEF BooksInv, PhaseInv, Routine
  <2>2. PICK K : Total(K)
    BY DEF BooksInv, TotalInv, Quiet
  <2>3. rpc["checkpoints"] \in {"off", "late", "joined"}
    BY <2>1 DEF LeftAlone
  <2>4. \A r \in Checkpointers : ~Taking(r)
    BY <2>3 DEF Checkpointers, Taking, InCheckpoint
  <2>5. /\ K = Counted /\ Counted \subseteq closed.timer /\ Counted \subseteq closed.histogram
        /\ counted = Cardinality(K)
    BY <2>1, <2>2, <2>4 DEF Total, Final, BooksInv, LastInv, Quiet
  <2>6. \A e \in Events : Timed(e) \/ Recorded(e) => e \in Counted
    BY <2>1, Constants DEF Timed, Recorded, Counted, Events, StatsTypes, WorkTypes
  <2>7. closed.timer \subseteq Counted /\ closed.histogram \subseteq Counted
    BY <2>6 DEF TimesInv, LatencyInv, ArraysInv, StatsTypes, TimerTypes
  <2> QED
    BY <2>5, <2>7
<1> QED
  BY <1>1, StatsInvariant, BooksInvariant, TimesInvariant, LatencyInvariant, PTL
=============================================================================
