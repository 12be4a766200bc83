------------------------------- MODULE DbConn -------------------------------
(***************************************************************************)
(* One connection of the database layer (db_driver.c) on top of the MySQL  *)
(* or the PostgreSQL driver.  A call of the layer is one step, except that *)
(* a reconnect waits for the server in a step of its own.  What the        *)
(* statements do to the tables is in data; rows and texts are left out.    *)
(* The server, which may close the session at any time, is the             *)
(* environment.                                                            *)
(***************************************************************************)
EXTENDS Naturals, Sequences

CONSTANTS Stmts,      \* the prepared statements of the script
          WithParams, \* those that have parameters, bound after the prepare
          NoStmt,     \* the null statement pointer
          MaxDrops,   \* bound on how often the server closes the session
          MaxErrors   \* bound on how often it refuses a statement

\* A statement that was closed and freed leaves its pointer in con->rs; what
\* is read through it, emulated or not, is anything
Dangling == {"reads_emulated", "reads_prepared"}

ASSUME DbAssumption == /\ NoStmt \notin Stmts
                       /\ Dangling \cap (Stmts \cup {NoStmt}) = {}
                       /\ WithParams \subseteq Stmts
                       /\ MaxDrops \in Nat /\ MaxErrors \in Nat

VARIABLES
  opt,      \* --db-driver, --db-ps-mode and --mysql-ignore-errors
  con,      \* db_conn_t: state, error and the class of sql_errno
  rs,       \* con->rs: the statement pointer and whether ptr holds a result
  stmt,     \* db_stmt_t with its driver half
  link,     \* the client library's connection
  more,     \* whether the server has sent more results than were fetched
  heap,     \* number of results the client library holds for us
  data,     \* the server's tables: uncommitted work and committed work
  budget,   \* drops and errors so far
  waiting,  \* the call that waits in the driver's reconnect loop
  error     \* sb_globals.error

dbVars == <<opt, con, rs, stmt, link, more, heap, data, budget, waiting, error>>

Good == {"rows", "changed", "unchanged"}
Refusals == {"deadlock", "conflict", "refused"}
\* What a statement answers; a procedure call can have several results
Results(kind) == CASE kind \in {"read", "call"} -> {"rows"}
                   [] kind = "write" -> {"changed", "unchanged"}
                   [] kind = "other" -> {"unchanged"}

\* --mysql-ignore-errors: the default list, the list with the lost-connection
\* errors, and "all"
Options ==
  [driver : {"mysql"}, ps : {"server", "client"},
   ignored : {{"deadlock", "conflict"}, {"deadlock", "conflict", "lost"},
              Refusals \cup {"lost"}}]
    \cup [driver : {"pgsql"}, ps : {"server", "client"}, ignored : {{}}]

Unprepared == [life |-> "free", emulated |-> FALSE, bound |-> FALSE,
               attached |-> FALSE, stored |-> FALSE]

DbInit ==
  /\ opt \in Options
  /\ con = [state |-> "NONE", error |-> "NONE", errno |-> "none"]
  /\ rs = [statement |-> NoStmt, ptr |-> FALSE]
  /\ stmt = [s \in Stmts |-> Unprepared]
  /\ link = "closed" /\ more = FALSE /\ heap = 0
  /\ data = [trx |-> <<>>, kept |-> <<>>]
  /\ budget = [drops |-> 0, errors |-> 0]
  /\ waiting = "no"
  /\ error = FALSE

Usable == con.state \in {"READY", "RESULT_SET"} /\ waiting = "no"

-----------------------------------------------------------------------------
\* What the layer leaves of the last result before it starts something new.

\* mysql_drv_free_results takes the result for the statement's if there is a
\* statement pointer, and then drops ptr without freeing it
OfStatement == /\ opt.driver = "mysql"
               /\ \/ rs.statement \in Stmts /\ ~stmt[rs.statement].emulated
                  \/ rs.statement = "reads_prepared"
Open == con.state = "RESULT_SET"
FreedRs == IF Open THEN [statement |-> NoStmt, ptr |-> FALSE] ELSE rs
FreedStmt == IF Open /\ OfStatement /\ rs.statement \in Stmts
             THEN [stmt EXCEPT ![rs.statement].stored = FALSE] ELSE stmt
(* Mutant: the next call does not free the result. *)
LeavesResult == heap
FreedHeap == IF Open /\ rs.ptr /\ ~OfStatement THEN heap - 1 ELSE heap

\* A call of db_free_results
FreeResults ==
  /\ Usable /\ Open
  /\ rs' = FreedRs /\ stmt' = FreedStmt /\ heap' = FreedHeap
  /\ con' = [con EXCEPT !.state = "READY"]
  /\ UNCHANGED <<opt, link, more, data, budget, waiting, error>>

-----------------------------------------------------------------------------
\* The server's half of a statement.

Undone == [data EXCEPT !.trx = <<>>]

\* A statement prepared in a session that is gone is not known in the next
Stale(s) == s # NoStmt /\ ~stmt[s].emulated /\ ~stmt[s].attached

Mishaps == (IF budget.errors < MaxErrors THEN Refusals ELSE {})
             \cup (IF budget.drops < MaxDrops THEN {"lost"} ELSE {})

ServerAnswers(kind) == IF more THEN {"refused"} ELSE Results(kind) \cup Mishaps

\* The MySQL library itself refuses a statement of a closed session
MySqlAnswers(s, kind) ==
  CASE Stale(s) -> {"refused"}
    [] ~Stale(s) /\ link # "open" -> {"lost"}
    [] OTHER -> ServerAnswers(kind)

PgSqlAnswers(s, kind) ==
  CASE link # "open" -> {"lost"}
    [] link = "open" /\ Stale(s) -> {"refused"}
    [] OTHER -> ServerAnswers(kind)

Answers(s, kind) == IF opt.driver = "mysql" THEN MySqlAnswers(s, kind) ELSE PgSqlAnswers(s, kind)

\* after is what the statement makes of data.  The server undoes the
\* transaction of a deadlock and of a closed session, the PostgreSQL driver
\* sends a ROLLBACK for the errors it ignores.  A session may be closed after
\* the statement was executed and before its answer.
Serve(a, after) ==
  /\ data' \in CASE a \in Good -> {after}
                 [] a = "deadlock" \/ (a = "conflict" /\ opt.driver = "pgsql") -> {Undone}
                 [] a = "lost" /\ link = "open" -> {Undone, [after EXCEPT !.trx = <<>>]}
                 [] OTHER -> {data}
  /\ budget' = [drops |-> budget.drops + (IF a = "lost" /\ link = "open" THEN 1 ELSE 0),
                errors |-> budget.errors +
                  (IF a \in Refusals /\ budget.errors < MaxErrors THEN 1 ELSE 0)]

\* The server closes the session while the connection is idle
Drop ==
  /\ link = "open" /\ budget.drops < MaxDrops
  /\ link' = "dropped"
  /\ data' = Undone
  /\ budget' = [budget EXCEPT !.drops = @ + 1]
  /\ UNCHANGED <<opt, con, rs, stmt, more, heap, waiting, error>>

-----------------------------------------------------------------------------
\* The drivers' half: what they make of an answer.

\* check_error, and pgsql_check_status
MySqlVerdict(a) == IF a \in opt.ignored THEN "IGNORABLE" ELSE "FATAL"
PgSqlVerdict(a) == IF a \in {"deadlock", "conflict"} THEN "IGNORABLE" ELSE "FATAL"
Verdict(a) == IF a \in Good THEN "NONE"
              ELSE IF opt.driver = "mysql" THEN MySqlVerdict(a) ELSE PgSqlVerdict(a)
Reconnects(a) == opt.driver = "mysql" /\ a = "lost" /\ Verdict(a) = "IGNORABLE"
Detached == [s \in Stmts |-> [FreedStmt[s] EXCEPT !.attached = FALSE]]

\* Whether a result is an object of its own or is kept inside the statement
NewResult(s) == opt.driver = "pgsql" \/ s = NoStmt \/ stmt[s].emulated

\* The result a statement leaves in con->rs.  A plain query does not touch the
\* statement pointer.
Result(s, a) ==
  /\ rs' = [statement |-> IF s = NoStmt THEN FreedRs.statement ELSE s,
            ptr |-> a = "rows" /\ NewResult(s)]
  /\ heap' = FreedHeap + (IF a = "rows" /\ NewResult(s) THEN 1 ELSE 0)

\* What db_query and db_execute make of the driver's answer, and with
\* db_next_result and db_stmt_next_result it is the same.  The answer "lost" of
\* an ignored error is not returned before the driver has reconnected.
Receive(s, a, after) ==
  /\ Serve(a, after)
  /\ Result(s, a)
  /\ con' = [state |-> IF a = "rows" THEN "RESULT_SET" ELSE "READY",
             error |-> IF Reconnects(a) THEN con.error ELSE Verdict(a),
             errno |-> IF a \in Good THEN "none" ELSE a]
  /\ waiting' = IF Reconnects(a) THEN "statement" ELSE "no"
  /\ link' = IF Reconnects(a) THEN "closed"
             ELSE IF a = "lost" THEN "dropped" ELSE link
  /\ stmt' = IF Reconnects(a) THEN Detached
             ELSE IF a = "rows" /\ ~NewResult(s)
             THEN [FreedStmt EXCEPT ![s].stored = TRUE]
             ELSE FreedStmt
  /\ UNCHANGED <<opt, error>>

Run(s, kind, after) ==
  \E a \in Answers(s, kind) :
    /\ Receive(s, a, after)
    /\ more' \in IF a = "rows" /\ kind = "call" /\ opt.driver = "mysql"
                 THEN BOOLEAN ELSE {more}

Crash ==
  /\ waiting' = "crashed"
  /\ UNCHANGED <<opt, con, rs, stmt, link, more, heap, data, budget, error>>

\* Any call that frees the result of a plain query may follow the pointer to a
\* statement that is gone
FreeThroughDangling == Usable /\ Open /\ OfStatement /\ rs.statement \in Dangling /\ Crash

\* The PostgreSQL driver copies the SQL state of every error; the error of a
\* broken connection may have none
LostWithoutState ==
  /\ opt.driver = "pgsql"
  /\ link = "dropped" \/ budget.drops < MaxDrops
  /\ Crash

DbQuery(kind, after) == Usable /\ (Run(NoStmt, kind, after) \/ LostWithoutState)

\* The PostgreSQL driver fills the parameter buffers of a statement whose bind
\* failed, too
DbExecute(s, kind, after) ==
  /\ Usable /\ stmt[s].life = "prepared"
  /\ IF stmt[s].bound THEN Run(s, kind, after) \/ LostWithoutState ELSE Crash

-----------------------------------------------------------------------------
\* Statements and the connection.

\* The MySQL driver falls back to emulation if the server cannot prepare the
\* statement
CanPrepare == link = "open" /\ ~more
MySqlPrepares == IF CanPrepare THEN {"prepared", "emulated"} ELSE {}
PgSqlPrepares == IF CanPrepare THEN {"prepared"} ELSE {}
PrepareOutcomes ==
  CASE opt.ps = "client" -> {"emulated"}
    [] opt.ps = "server" ->
         (IF opt.driver = "mysql" THEN MySqlPrepares ELSE PgSqlPrepares)
           \cup (IF CanPrepare /\ budget.errors = MaxErrors THEN {} ELSE {"failed"})

\* The PostgreSQL driver prepares a statement with parameters when they are
\* bound, and nobody looks at the outcome of that
PreparedByBind(s) == opt.driver = "pgsql" /\ s \in WithParams

\* db_prepare and the db_bind_param that follows it
DbPrepare(s) ==
  /\ Usable /\ stmt[s].life = "free"
  /\ \E outcome \in PrepareOutcomes :
       LET failed == outcome = "failed"
           seen == failed /\ ~PreparedByBind(s)
       IN /\ stmt' = IF seen THEN stmt
                     ELSE [stmt EXCEPT ![s] =
                             [life |-> "prepared", emulated |-> outcome = "emulated",
                              bound |-> ~failed, attached |-> outcome = "prepared",
                              stored |-> FALSE]]
          /\ con' = IF seen THEN [con EXCEPT !.error = "FATAL"] ELSE con
          /\ budget' = IF failed /\ CanPrepare THEN [budget EXCEPT !.errors = @ + 1] ELSE budget
  /\ UNCHANGED <<opt, rs, link, more, heap, data, waiting, error>>

\* db_close of some statements; the pointer in con->rs stays unless a result
\* was open
DbClose(closed) ==
  /\ Usable
  /\ stmt' = [s \in Stmts |-> IF s \in closed THEN Unprepared ELSE FreedStmt[s]]
  /\ rs' \in IF ~Open /\ rs.statement \in closed
             THEN {[rs EXCEPT !.statement = pointer] : pointer \in Dangling}
             ELSE {FreedRs}
  /\ heap' = FreedHeap
  /\ con' = [con EXCEPT !.state = "READY"]
  /\ UNCHANGED <<opt, link, more, data, budget, waiting, error>>

\* mysql_next_result and mysql_stmt_next_result; PostgreSQL has no further results
MySqlNextAnswers(s) ==
  CASE Stale(s) -> {"refused"}
    [] ~Stale(s) /\ ~more -> {"unchanged"}
    [] ~Stale(s) /\ more /\ link # "open" -> {"lost"}
    [] OTHER -> Good \cup Mishaps
NextAnswers(s) == IF opt.driver = "mysql" THEN MySqlNextAnswers(s) ELSE {"unchanged"}

\* The next result of the last query or of a statement
DbNextResult == Usable /\ more' = FALSE /\ \E a \in NextAnswers(NoStmt) : Receive(NoStmt, a, data)
DbStmtNextResult ==
  \E s \in Stmts :
    /\ Usable /\ stmt[s].life = "prepared"
    /\ more' = FALSE /\ \E a \in NextAnswers(s) : Receive(s, a, data)

\* The attempt to connect can fail
Connects == {"READY"} \cup (IF budget.errors < MaxErrors THEN {"INVALID"} ELSE {})

DbConnect ==
  /\ con.state = "NONE" /\ waiting = "no"
  /\ \E state \in Connects :
       /\ con' = [con EXCEPT !.state = state]
       /\ link' = IF state = "READY" THEN "open" ELSE link
  /\ UNCHANGED <<opt, rs, stmt, more, heap, data, budget, waiting, error>>

\* A call on a connection that is closed
DbRefused ==
  /\ con.state = "INVALID" /\ con.error # "FATAL"
  /\ con' = [con EXCEPT !.error = "FATAL"]
  /\ UNCHANGED <<opt, rs, stmt, link, more, heap, data, budget, waiting, error>>

\* db_connection_close
DbDisconnect ==
  /\ Usable
  /\ con' = [con EXCEPT !.state = "INVALID"]
  /\ rs' = FreedRs /\ heap' = FreedHeap
  /\ stmt' = Detached
  /\ link' = "closed" /\ more' = FALSE /\ data' = Undone
  /\ UNCHANGED <<opt, budget, waiting, error>>

\* db_connection_reconnect up to the driver's loop
DbReconnect ==
  /\ Usable
  /\ con' = [con EXCEPT !.state = "READY"]
  /\ rs' = FreedRs /\ heap' = FreedHeap
  /\ stmt' = Detached
  /\ link' = "closed" /\ more' = FALSE /\ data' = Undone
  /\ waiting' = "reconnect"
  /\ UNCHANGED <<opt, budget, error>>

\* The loop of mysql_drv_reconnect and pgsql_drv_reconnect: the attempts that
\* fail change nothing, the first that succeeds ends the call ...
Reconnected ==
  /\ waiting \in {"statement", "reconnect"}
  /\ link' = "open" /\ more' = FALSE
  /\ waiting' = "no"
  /\ con' = IF waiting = "statement" THEN [con EXCEPT !.error = "IGNORABLE"] ELSE con
  /\ UNCHANGED <<opt, rs, stmt, heap, data, budget, error>>

\* ... and an attempt that fails after another thread has failed ends it too
GiveUp ==
  /\ waiting \in {"statement", "reconnect"} /\ error
  /\ waiting' = "no"
  /\ con' = IF waiting = "statement" THEN [con EXCEPT !.error = "FATAL"]
                                     ELSE [con EXCEPT !.state = "INVALID"]
  /\ UNCHANGED <<opt, rs, stmt, link, more, heap, data, budget, error>>

\* Another worker fails
OthersFail ==
  /\ ~error /\ error' = TRUE
  /\ UNCHANGED <<opt, con, rs, stmt, link, more, heap, data, budget, waiting>>

=============================================================================
