----------------------------- MODULE OltpWorker -----------------------------
(***************************************************************************)
(* A worker thread that runs an OLTP script: the Lua life cycle of         *)
(* sb_lua.c, the event loop of sysbench.lua with its restarts, and the     *)
(* statements of oltp_common.lua, over one connection of DbConn.           *)
(***************************************************************************)
EXTENDS DbConn

CONSTANTS Preparing,      \* the statements in the order they are prepared in
          Event,          \* what one event executes, in its order
          Kind,           \* what each statement does: "read", "write", "other"
          MaxEvents,      \* --events: events of this worker
          ReconnectEvery  \* --reconnect of the script, 0 for never

\* Each statement is prepared once.  An event is a transaction, from its BEGIN
\* to its COMMIT, and may execute the statements in between any number of times.
ASSUME OltpAssumption == /\ Preparing \in Seq(Stmts)
                         /\ \A s \in Stmts : \E i \in 1..Len(Preparing) : Preparing[i] = s
                         /\ \A i, j \in 1..Len(Preparing) : Preparing[i] = Preparing[j] => i = j
                         /\ Event \in Seq(Stmts) /\ Len(Event) >= 2
                         /\ \A i \in 2..Len(Event) : Event[i] # Event[1]
                         /\ \A i \in 1..Len(Event) - 1 : Event[i] # Event[Len(Event)]
                         /\ Kind \in [Stmts -> {"read", "write", "other"}]
                         /\ MaxEvents \in Nat /\ ReconnectEvery \in Nat

VARIABLES
  pc,     \* where the worker is
  step,   \* position in Event, or in Preparing
  after,  \* where it goes when all statements are prepared
  events  \* number of events it has finished

oltpVars == <<pc, step, after, events>>

OltpInit == pc = "thread_init" /\ step = 1 /\ after = "more" /\ events = 0

\* What the statement makes of the tables, where kept is the last transaction
\* committed: BEGIN commits what an earlier one has left, COMMIT its own
Effect(s) ==
  CASE s = Event[1] ->
           [trx |-> <<s>>, kept |-> IF data.trx = <<>> THEN data.kept ELSE data.trx]
    [] s = Event[Len(Event)] -> [trx |-> <<>>, kept |-> Append(data.trx, s)]
    [] OTHER -> [data EXCEPT !.trx = Append(@, s)]

Goto(label) == pc' = label /\ step' = 1 /\ UNCHANGED <<after, events>>

Connect ==
  /\ pc = "thread_init"
  /\ DbConnect
  /\ Goto(IF con'.state = "READY" THEN "prepare" ELSE "failed")

\* prepare_statements, one statement at a time; connection_methods.prepare
\* throws what thread_run does not catch
Prepare ==
  /\ pc = "prepare"
  /\ DbPrepare(Preparing[step])
  /\ pc' = IF stmt'[Preparing[step]].life = "free" THEN "failed"
           ELSE IF step < Len(Preparing) THEN "prepare" ELSE after
  /\ step' = IF pc' = "prepare" THEN step + 1 ELSE 1
  /\ UNCHANGED <<after, events>>

\* sb_more_events and sb_event_start
MoreEvents ==
  /\ pc = "more"
  /\ Goto(IF events < MaxEvents THEN "event" ELSE "thread_done")
  /\ UNCHANGED dbVars

\* --time is over, or another worker has failed
NoMoreEvents == pc = "more" /\ Goto("thread_done") /\ UNCHANGED dbVars

Execute ==
  /\ pc = "event"
  /\ DbExecute(Event[step], Kind[Event[step]], Effect(Event[step]))
  /\ pc' = "check_error"
  /\ UNCHANGED <<step, after, events>>

\* connection_methods.check_error lets the script go on ...
NextStatement ==
  /\ pc = "check_error" /\ waiting = "no" /\ con.error = "NONE"
  /\ IF step < Len(Event)
     THEN pc' = "event" /\ step' = step + 1 /\ UNCHANGED <<after, events>>
     ELSE Goto("executed")
  /\ UNCHANGED dbVars

(* Mutant: after a reconnect the event starts again with the old statements. *)
RestartsUnprepared ==
  /\ pc = "check_error" /\ waiting = "no" /\ con.error = "IGNORABLE"
  /\ Goto("event") /\ UNCHANGED dbVars

(* Mutant: only the statement that failed is done again. *)
RestartsStatement ==
  /\ pc = "check_error" /\ waiting = "no" /\ con.error = "IGNORABLE"
  /\ IF con.errno = "lost"
     THEN /\ DbClose(Stmts)
          /\ pc' = "prepare" /\ step' = 1 /\ after' = "event" /\ UNCHANGED events
     ELSE pc' = "event" /\ UNCHANGED <<step, after, events, dbVars>>

\* ... or throws: before_restart_event closes and prepares the statements if
\* the connection was lost, and the event starts again ...
Restart ==
  /\ pc = "check_error" /\ waiting = "no" /\ con.error = "IGNORABLE"
  /\ IF con.errno = "lost"
     THEN /\ DbClose(Stmts)
          /\ pc' = "prepare" /\ step' = 1 /\ after' = "event" /\ UNCHANGED events
     ELSE Goto("event") /\ UNCHANGED dbVars

(* Mutant: a fatal error restarts the event like any other. *)
RestartsAfterFatal ==
  /\ pc = "check_error" /\ waiting = "no" /\ con.error = "FATAL"
  /\ Goto("event")
  /\ UNCHANGED dbVars

\* ... or thread_run and with it the thread fails
Fatal ==
  /\ pc = "check_error" /\ waiting = "no" /\ con.error = "FATAL"
  /\ Goto("failed")
  /\ UNCHANGED dbVars

\* check_reconnect at the end of event(), then sb_event_stop
CheckReconnect ==
  /\ pc = "executed"
  /\ IF ReconnectEvery > 0 /\ (events + 1) % ReconnectEvery = 0
     THEN Goto("reconnect") /\ DbClose(Stmts)
     ELSE /\ pc' = "more" /\ events' = events + 1
          /\ UNCHANGED <<step, after, dbVars>>

Reconnect ==
  /\ pc = "reconnect" /\ DbReconnect
  /\ Goto("reconnecting")

Prepared ==
  /\ pc = "reconnecting" /\ waiting = "no"
  /\ IF con.state = "INVALID"
     THEN Goto("failed")
     ELSE pc' = "prepare" /\ step' = 1 /\ after' = "more" /\ events' = events + 1
  /\ UNCHANGED dbVars

\* thread_done: close the statements and the connection
CloseStatements == pc = "thread_done" /\ DbClose(Stmts) /\ Goto("disconnect")
Disconnect == pc = "disconnect" /\ DbDisconnect /\ Goto("done")

\* worker_thread raises sb_globals.error and does not call thread_done
RaiseError ==
  /\ pc = "failed" /\ ~error
  /\ error' = TRUE
  /\ UNCHANGED <<opt, con, rs, stmt, link, more, heap, data, budget, waiting, oltpVars>>

WorkerStep ==
  \/ Connect \/ Prepare \/ MoreEvents \/ Execute \/ NextStatement \/ Restart
  \/ Fatal \/ CheckReconnect \/ Reconnect \/ Prepared \/ CloseStatements
  \/ Disconnect \/ RaiseError
  \/ (Reconnected \/ GiveUp) /\ UNCHANGED oltpVars

OltpNext ==
  \/ WorkerStep
  \/ NoMoreEvents
  \/ pc # "thread_init" /\ Drop /\ UNCHANGED oltpVars
  \/ OthersFail /\ UNCHANGED oltpVars

-----------------------------------------------------------------------------
OltpTypeOK ==
  /\ pc \in {"thread_init", "prepare", "more", "event", "check_error", "executed",
             "reconnect", "reconnecting", "thread_done", "disconnect", "done", "failed"}
  /\ step \in 1..Len(IF pc = "prepare" THEN Preparing ELSE Event)
  /\ after \in {"more", "event"} /\ events \in 0..MaxEvents

\* Whenever an event starts, for the first time or again, every statement of
\* the script is one of the session the connection is in: no restart and no
\* --reconnect leaves a statement of a session that is gone.
StatementsFollowSession ==
  pc = "event" /\ step = 1 =>
    \A s \in Stmts : stmt[s].life = "prepared" /\ (stmt[s].bound => ~Stale(s))

\* When an event counts as executed, its last transaction is on the server as
\* a whole: whatever errors were ignored on the way, no part of it was lost
\* and none was done in another transaction.
EventsWhole == pc = "executed" => data.kept = Event

\* A worker comes to an end.
WorkerEnds == <>(pc \in {"done", "failed"} \/ waiting = "crashed")

=============================================================================
