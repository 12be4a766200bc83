------------------------------ MODULE LuaScript ------------------------------
(***************************************************************************)
(* The kinds of Lua script a thread can run over one connection: the run   *)
(* and prepare commands of the OLTP scripts, and a script of the user's    *)
(* own that calls the SQL interface in any order; and how several threads  *)
(* come to their connections.                                              *)
(***************************************************************************)
EXTENDS OltpWorker, BulkInsert, DbDriver

CONSTANT MaxCalls  \* bound on the calls of the user's script

VARIABLES script,  \* "run", "prepare", "own" or "start"
          calls    \* calls the user's script has made

vars == <<dbVars, oltpVars, bulkVars, driverVars, script, calls>>

\* Any call the state of the script's statements allows
OwnCall ==
  \/ DbConnect
  \/ \E s \in Stmts : \/ DbPrepare(s)
                      \/ \E kind \in {Kind[s], "call"} : DbExecute(s, kind, Effect(s))
                      \/ stmt[s].life = "prepared" /\ DbClose({s})
  \/ \E kind \in {"read", "write", "call"} : DbQuery(kind, data)
  \/ FreeThroughDangling
  \/ DbNextResult \/ DbStmtNextResult \/ FreeResults \/ DbReconnect \/ DbDisconnect \/ DbRefused

OwnNext ==
  \/ OwnCall /\ calls < MaxCalls /\ calls' = calls + 1
  \/ (Reconnected \/ GiveUp \/ Drop \/ OthersFail) /\ UNCHANGED calls

Init ==
  /\ DbInit /\ OltpInit /\ BulkInit /\ DriverInit
  /\ script \in {"run", "prepare", "own", "start"}
  /\ script # "start" => lists = CHOOSE l \in HostLists : TRUE
  /\ script = "start" => opt = CHOOSE o \in Options : o.driver = "mysql"
  /\ calls = 0

RunScript == script = "run" /\ OltpNext /\ UNCHANGED <<bulkVars, calls>>
PrepareScript == script = "prepare" /\ LoaderNext /\ UNCHANGED <<oltpVars, calls>>
OwnScript == script = "own" /\ OwnNext /\ UNCHANGED <<oltpVars, bulkVars>>
StartThreads == script = "start" /\ DriverNext /\ UNCHANGED <<dbVars, oltpVars, bulkVars, calls>>

Next ==
  /\ \/ (RunScript \/ PrepareScript \/ OwnScript) /\ UNCHANGED driverVars
     \/ StartThreads
  /\ UNCHANGED script

\* The threads are scheduled, and a server that is gone accepts connections
\* again at some time
Fairness == /\ WF_vars(script = "run" /\ WorkerStep /\ UNCHANGED <<bulkVars, driverVars, calls, script>>)
            /\ WF_vars(script = "prepare" /\ LoaderStep /\ UNCHANGED <<oltpVars, driverVars, calls, script>>)

Spec == Init /\ [][Next]_vars /\ Fairness

-----------------------------------------------------------------------------
TypeOK ==
  /\ opt \in Options
  /\ con \in [state : {"NONE", "READY", "RESULT_SET", "INVALID"},
              error : {"NONE", "IGNORABLE", "FATAL"},
              errno : {"none", "lost"} \cup Refusals]
  /\ rs \in [statement : Stmts \cup {NoStmt} \cup Dangling, ptr : BOOLEAN]
  /\ stmt \in [Stmts -> [life : {"free", "prepared"}, emulated : BOOLEAN,
                         bound : BOOLEAN, attached : BOOLEAN, stored : BOOLEAN]]
  /\ link \in {"open", "dropped", "closed"} /\ more \in BOOLEAN /\ heap \in Nat
  /\ budget \in [drops : 0..MaxDrops, errors : 0..MaxErrors]
  /\ waiting \in {"no", "statement", "reconnect", "crashed"} /\ error \in BOOLEAN
  /\ OltpTypeOK /\ BulkTypeOK /\ DriverTypeOK

\* A result the connection refers to has not been freed, in whatever order a
\* script calls, and the client library holds no other: with PostgreSQL for any
\* script, with emulated statements of MySQL for the worker and the loader.  (A
\* script of one's own can leave a result behind: the query that brought it keeps
\* the pointer to an earlier statement, and it is then freed as the statement's.)
ResultsFreed ==
  /\ rs.ptr => heap >= 1
  /\ opt.driver = "pgsql" \/ (opt.ps = "client" /\ script # "own") =>
       heap = (IF rs.ptr THEN 1 ELSE 0)

\* A worker and a loader come to an end, whatever the server refuses and
\* however often it goes away.
ThreadsEnd == (script = "run" => WorkerEnds) /\ (script = "prepare" => LoaderEnds)

=============================================================================
