--------------------------- MODULE LuaScript_proofs ---------------------------
(***************************************************************************)
(* What the database layer and the OLTP scripts guarantee for any event,   *)
(* any tables, any buffer and any lists of hosts, whatever the server      *)
(* refuses and however often it goes away.                                 *)
(*                                                                         *)
(* The invariant, LuaInv, has a part for each script.  ConInv: a result    *)
(* the connection refers to is there, whichever call comes next.           *)
(* WorkerInv: a session that is lost is known to be lost, in the error     *)
(* number or in the state of the link, until all statements have been      *)
(* prepared anew, so what has been done of an event is one transaction or  *)
(* the next statement fails.  BooksInv: the rows on the server are the     *)
(* first ones, and all that have left the buffer unless the session is     *)
(* gone.  RoundInv: the places up to the current position have been used   *)
(* once more than those behind it.                                         *)
(***************************************************************************)
EXTENDS LuaScript, FiniteSetTheorems, SequenceTheorems, TLAPS

ConStates == {"NONE", "READY", "RESULT_SET", "INVALID"}
ConErrors == {"NONE", "IGNORABLE", "FATAL"}
StmtRecord == [life : {"free", "prepared"}, emulated : BOOLEAN,
               bound : BOOLEAN, attached : BOOLEAN, stored : BOOLEAN]
Pointers == Stmts \cup {NoStmt} \cup Dangling
Verdicts == Good \cup Refusals \cup {"lost"}

(* The part of the type invariant that is about the connection. *)
ConTypeOK ==
  /\ opt \in Options
  /\ con \in [state : ConStates, error : ConErrors, errno : {"none", "lost"} \cup Refusals]
  /\ rs \in [statement : Pointers, ptr : BOOLEAN]
  /\ stmt \in [Stmts -> StmtRecord]
  /\ link \in {"open", "dropped", "closed"} /\ more \in BOOLEAN /\ heap \in Nat
  /\ budget \in [drops : 0..MaxDrops, errors : 0..MaxErrors]
  /\ waiting \in {"no", "statement", "reconnect", "crashed"} /\ error \in BOOLEAN

(* A result the connection refers to is there, and the connection knows it; a
   script that asks for a new session holds none. *)
Held == /\ rs.ptr => Open /\ heap >= 1
        /\ waiting = "reconnect" => ~Open

ConInv == ConTypeOK /\ Held

-----------------------------------------------------------------------------
(* What a record of a statement is made of. *)
LEMMA StmtRecords ==
  /\ Unprepared \in StmtRecord
  /\ \A r \in StmtRecord, b \in BOOLEAN :
       /\ [r EXCEPT !.stored = b] \in StmtRecord
       /\ [r EXCEPT !.attached = b] \in StmtRecord
       /\ [r EXCEPT !.stored = b].life = r.life
       /\ [r EXCEPT !.stored = b].emulated = r.emulated
       /\ [r EXCEPT !.stored = b].bound = r.bound
       /\ [r EXCEPT !.stored = b].attached = r.attached
       /\ [r EXCEPT !.attached = b].life = r.life
       /\ [r EXCEPT !.attached = b].emulated = r.emulated
       /\ [r EXCEPT !.attached = b].bound = r.bound
  BY DEF StmtRecord, Unprepared

(* Freeing a result touches a statement only in what it has stored. *)
LEMMA FreedTypes ==
  ASSUME ConInv
  PROVE  /\ FreedStmt \in [Stmts -> StmtRecord]
         /\ \A s \in Stmts : /\ FreedStmt[s].life = stmt[s].life
                             /\ FreedStmt[s].emulated = stmt[s].emulated
                             /\ FreedStmt[s].bound = stmt[s].bound
                             /\ FreedStmt[s].attached = stmt[s].attached
         /\ Detached \in [Stmts -> StmtRecord]
         /\ \A s \in Stmts : /\ Detached[s].life = stmt[s].life
                             /\ Detached[s].emulated = stmt[s].emulated
                             /\ Detached[s].bound = stmt[s].bound
         /\ FreedRs \in [statement : Pointers, ptr : BOOLEAN]
         /\ FreedHeap \in Nat
         /\ ~FreedRs.ptr /\ (Open => FreedRs.statement = NoStmt)
<1>1. stmt \in [Stmts -> StmtRecord]
  BY DEF ConInv, ConTypeOK
<1>2. FreedStmt \in [Stmts -> StmtRecord] /\
      \A s \in Stmts : /\ FreedStmt[s].life = stmt[s].life
                       /\ FreedStmt[s].emulated = stmt[s].emulated
                       /\ FreedStmt[s].bound = stmt[s].bound
                       /\ FreedStmt[s].attached = stmt[s].attached
  <2>1. CASE Open /\ OfStatement /\ rs.statement \in Stmts
    <3> DEFINE p == rs.statement
               r == [stmt[p] EXCEPT !.stored = FALSE]
    <3>1. FreedStmt = [stmt EXCEPT ![p] = r]
      BY <2>1 DEF FreedStmt
    <3>2. r \in StmtRecord /\ r.life = stmt[p].life /\ r.emulated = stmt[p].emulated
          /\ r.bound = stmt[p].bound /\ r.attached = stmt[p].attached
      <4>1. stmt[p] \in StmtRecord
        BY <1>1, <2>1
      <4> QED
        BY <4>1, StmtRecords
    <3> HIDE DEF r, p
    <3>3. p \in Stmts
      BY <2>1 DEF p
    <3> QED
      BY <1>1, <3>1, <3>2, <3>3
  <2>2. CASE ~(Open /\ OfStatement /\ rs.statement \in Stmts)
    BY <1>1, <2>2 DEF FreedStmt
  <2> QED
    BY <2>1, <2>2
<1>3. Detached \in [Stmts -> StmtRecord] /\
      \A s \in Stmts : /\ Detached[s].life = stmt[s].life
                       /\ Detached[s].emulated = stmt[s].emulated
                       /\ Detached[s].bound = stmt[s].bound
  <2>1. \A s \in Stmts : /\ Detached[s] = [FreedStmt[s] EXCEPT !.attached = FALSE]
                         /\ FreedStmt[s] \in StmtRecord
    BY <1>2 DEF Detached
  <2>2. \A s \in Stmts : Detached[s] \in StmtRecord /\ Detached[s].life = FreedStmt[s].life
                         /\ Detached[s].emulated = FreedStmt[s].emulated
                         /\ Detached[s].bound = FreedStmt[s].bound
    BY <2>1, StmtRecords
  <2> QED
    BY <1>2, <2>2 DEF Detached
<1>4. FreedRs \in [statement : Pointers, ptr : BOOLEAN]
      /\ ~FreedRs.ptr /\ (Open => FreedRs.statement = NoStmt)
  BY DEF ConInv, ConTypeOK, Held, FreedRs, Pointers
<1>5. FreedHeap \in Nat
  BY DEF ConInv, ConTypeOK, Held, FreedHeap
<1> QED
  BY <1>2, <1>3, <1>4, <1>5

-----------------------------------------------------------------------------
(* What the server and the library can answer.  A statement that was executed
   was executed in the session the connection is in. *)
LEMMA AnswersKnown ==
  ASSUME ConInv, NEW s \in Stmts \cup {NoStmt},
         NEW kind \in {"read", "write", "other", "call"}, NEW a \in Answers(s, kind)
  PROVE  /\ a \in Verdicts
         /\ a = "lost" /\ link = "open" => budget.drops < MaxDrops
         /\ a \in Good => link = "open"
         /\ kind \in {"write", "other"} => a # "rows"
<1>1. \/ a = "refused"
      \/ a = "lost" /\ link # "open"
      \/ link = "open" /\ a \in Results(kind) \cup Mishaps
  BY DEF Answers, MySqlAnswers, PgSqlAnswers, ServerAnswers
<1>2. a \in Mishaps => a \in Refusals \/ (a = "lost" /\ budget.drops < MaxDrops)
  BY DEF Mishaps
<1>3. Results(kind) \subseteq Good /\ (kind \in {"write", "other"} => "rows" \notin Results(kind))
  BY DEF Results, Good
<1> QED
  BY <1>1, <1>2, <1>3 DEF Verdicts, Good, Refusals

LEMMA NextAnswersKnown ==
  ASSUME ConInv, NEW s \in Stmts \cup {NoStmt}, NEW a \in NextAnswers(s)
  PROVE  /\ a \in Verdicts
         /\ a = "lost" /\ link = "open" => budget.drops < MaxDrops
<1>1. a \in {"refused", "unchanged"} \/ (a = "lost" /\ link # "open") \/ a \in Good \cup Mishaps
  BY DEF NextAnswers, MySqlNextAnswers
<1>2. a \in Mishaps => a \in Refusals \/ (a = "lost" /\ budget.drops < MaxDrops)
  BY DEF Mishaps
<1> QED
  BY <1>1, <1>2 DEF Verdicts, Good, Refusals

-----------------------------------------------------------------------------
(* What the layer makes of an answer. *)
LEMMA ReceiveTypes ==
  ASSUME ConInv, NEW s \in Stmts \cup {NoStmt}, NEW a \in Verdicts, NEW done,
         a = "lost" /\ link = "open" => budget.drops < MaxDrops,
         Receive(s, a, done), more' \in BOOLEAN
  PROVE  /\ ConInv'
         /\ \A t \in Stmts : /\ stmt'[t].life = stmt[t].life
                             /\ stmt'[t].emulated = stmt[t].emulated
                             /\ stmt'[t].bound = stmt[t].bound
                             /\ ~Reconnects(a) => stmt'[t].attached = stmt[t].attached
<1>1. con' \in [state : ConStates, error : ConErrors, errno : {"none", "lost"} \cup Refusals]
  <2>1. Verdict(a) \in ConErrors
    BY DEF Verdict, MySqlVerdict, PgSqlVerdict, ConErrors
  <2>2. con.error \in ConErrors
    BY DEF ConInv, ConTypeOK
  <2> QED
    BY <2>1, <2>2 DEF Receive, ConStates, Verdicts
<1>2. rs' \in [statement : Pointers, ptr : BOOLEAN] /\ heap' \in Nat /\ Held'
  <2>1. rs' = [statement |-> IF s = NoStmt THEN FreedRs.statement ELSE s,
               ptr |-> a = "rows" /\ NewResult(s)]
        /\ heap' = FreedHeap + (IF a = "rows" /\ NewResult(s) THEN 1 ELSE 0)
    BY DEF Receive, Result
  <2>2. FreedRs.statement \in Pointers /\ FreedHeap \in Nat
    BY FreedTypes
  <2>3. rs' \in [statement : Pointers, ptr : BOOLEAN] /\ heap' \in Nat
    BY <2>1, <2>2 DEF Pointers
  <2>4. rs'.ptr => a = "rows" /\ heap' >= 1
    <3>1. CASE a = "rows" /\ NewResult(s)
      BY <2>1, <2>2, <3>1
    <3>2. CASE ~(a = "rows" /\ NewResult(s))
      BY <2>1, <3>2
    <3> QED
      BY <3>1, <3>2
  <2>5. (a = "rows" => con'.state = "RESULT_SET") /\ waiting' # "reconnect"
    BY DEF Receive
  <2> QED
    BY <2>3, <2>4, <2>5 DEF Held, Open
<1>3. /\ stmt' \in [Stmts -> StmtRecord]
      /\ \A t \in Stmts : /\ stmt'[t].life = stmt[t].life
                          /\ stmt'[t].emulated = stmt[t].emulated
                          /\ stmt'[t].bound = stmt[t].bound
                          /\ ~Reconnects(a) => stmt'[t].attached = stmt[t].attached
  <2>1. CASE Reconnects(a)
    BY <2>1, FreedTypes DEF Receive
  <2>2. CASE ~Reconnects(a) /\ a = "rows" /\ ~NewResult(s)
    <3> DEFINE r == [FreedStmt[s] EXCEPT !.stored = TRUE]
    <3>1. s \in Stmts
      BY <2>2 DEF NewResult
    <3>2. stmt' = [FreedStmt EXCEPT ![s] = r]
      BY <2>2 DEF Receive
    <3>3. r \in StmtRecord /\ r.life = stmt[s].life /\ r.emulated = stmt[s].emulated
          /\ r.bound = stmt[s].bound /\ r.attached = stmt[s].attached
      <4>1. FreedStmt[s] \in StmtRecord
        BY <3>1, FreedTypes
      <4> QED
        BY <4>1, <3>1, FreedTypes, StmtRecords
    <3> HIDE DEF r
    <3> QED
      BY <3>1, <3>2, <3>3, FreedTypes
  <2>3. CASE ~Reconnects(a) /\ ~(a = "rows" /\ ~NewResult(s))
    BY <2>3, FreedTypes DEF Receive
  <2> QED
    BY <2>1, <2>2, <2>3
<1>4. link' \in {"open", "dropped", "closed"} /\ waiting' \in {"no", "statement", "reconnect", "crashed"}
      /\ opt' = opt /\ error' = error
  BY DEF Receive, ConInv, ConTypeOK
<1>5. budget' \in [drops : 0..MaxDrops, errors : 0..MaxErrors]
  BY DbAssumption DEF Receive, Serve, ConInv, ConTypeOK
<1> QED
  BY <1>1, <1>2, <1>3, <1>4, <1>5 DEF ConInv, ConTypeOK

-----------------------------------------------------------------------------
(* Every call keeps the types and what the connection holds. *)
LEMMA RunTypes ==
  ASSUME ConInv, NEW s \in Stmts \cup {NoStmt}, NEW done,
         NEW kind \in {"read", "write", "other", "call"},
         Run(s, kind, done) \/ LostWithoutState
  PROVE  /\ ConInv'
         /\ \A t \in Stmts : /\ stmt'[t].life = stmt[t].life
                             /\ stmt'[t].emulated = stmt[t].emulated
                             /\ stmt'[t].bound = stmt[t].bound
<1>1. CASE Run(s, kind, done)
  <2>1. PICK a \in Answers(s, kind) :
          /\ Receive(s, a, done)
          /\ more' \in IF a = "rows" /\ kind = "call" /\ opt.driver = "mysql" THEN BOOLEAN ELSE {more}
    BY <1>1 DEF Run
  <2>2. more' \in BOOLEAN
    BY <2>1 DEF ConInv, ConTypeOK
  <2> QED
    BY <2>1, <2>2, ReceiveTypes, AnswersKnown
<1>2. CASE LostWithoutState
  BY <1>2 DEF LostWithoutState, Crash, ConInv, ConTypeOK, Held, Open
<1> QED
  BY <1>1, <1>2

(* Calls that run no statement. *)
LEMMA PrepareTypes ==
  ASSUME ConInv, NEW s \in Stmts, DbPrepare(s)
  PROVE  /\ ConInv'
         /\ stmt'[s].life = "prepared" =>
              /\ stmt'[s].bound => stmt'[s].emulated \/ stmt'[s].attached
              /\ opt.ps = "client" => stmt'[s].emulated
         /\ \A t \in Stmts \ {s} : stmt'[t] = stmt[t]
<1>1. PICK outcome \in PrepareOutcomes :
       LET failed == outcome = "failed"
           seen == failed /\ ~PreparedByBind(s)
       IN /\ stmt' = IF seen THEN stmt
                     ELSE [stmt EXCEPT ![s] =
                             [life |-> "prepared", emulated |-> outcome = "emulated",
                              bound |-> ~failed, attached |-> outcome = "prepared",
                              stored |-> FALSE]]
          /\ con' = IF seen THEN [con EXCEPT !.error = "FATAL"] ELSE con
          /\ budget' = IF failed /\ CanPrepare THEN [budget EXCEPT !.errors = @ + 1] ELSE budget
  BY DEF DbPrepare
<1>2. UNCHANGED <<opt, rs, link, more, heap, waiting, error>> /\ stmt[s].life = "free"
  BY DEF DbPrepare
<1>3. outcome \in {"emulated", "prepared", "failed"}
      /\ (opt.ps = "client" => outcome = "emulated")
      /\ (outcome = "failed" /\ CanPrepare => budget.errors # MaxErrors)
  <2>1. opt.ps \in {"server", "client"}
    BY DEF ConInv, ConTypeOK, Options
  <2> QED
    BY <1>1, <2>1 DEF PrepareOutcomes, MySqlPrepares, PgSqlPrepares
<1> DEFINE r == [life |-> "prepared", emulated |-> outcome = "emulated",
                 bound |-> ~(outcome = "failed"), attached |-> outcome = "prepared",
                 stored |-> FALSE]
<1>4. r \in StmtRecord /\ (r.bound => r.emulated \/ r.attached)
      /\ (opt.ps = "client" => r.emulated)
  BY <1>3 DEF StmtRecord
<1>5. stmt' = stmt \/ stmt' = [stmt EXCEPT ![s] = r]
  BY <1>1
<1> HIDE DEF r
<1>6. stmt' \in [Stmts -> StmtRecord] /\ (\A t \in Stmts \ {s} : stmt'[t] = stmt[t])
      /\ (stmt'[s] = stmt[s] \/ stmt'[s] = r)
  BY <1>4, <1>5 DEF ConInv, ConTypeOK
<1>7. con' \in [state : ConStates, error : ConErrors, errno : {"none", "lost"} \cup Refusals]
      /\ con'.state = con.state
  BY <1>1 DEF ConInv, ConTypeOK, ConErrors
<1>8. budget' \in [drops : 0..MaxDrops, errors : 0..MaxErrors]
  BY <1>1, <1>3, DbAssumption DEF ConInv, ConTypeOK
<1>9. ConInv'
  BY <1>2, <1>6, <1>7, <1>8 DEF ConInv, ConTypeOK, Held, Open
<1> QED
  BY <1>2, <1>4, <1>6, <1>9

(* Closing statements, some or all. *)
LEMMA CloseTypes ==
  ASSUME ConInv, NEW closed \in SUBSET Stmts, DbClose(closed)
  PROVE  /\ ConInv'
         /\ \A s \in closed : stmt'[s] = Unprepared
         /\ \A s \in Stmts \ closed : stmt'[s] = FreedStmt[s]
         /\ rs'.ptr = FreedRs.ptr /\ heap' = FreedHeap
<1>1. stmt' = [s \in Stmts |-> IF s \in closed THEN Unprepared ELSE FreedStmt[s]]
      /\ heap' = FreedHeap /\ con' = [con EXCEPT !.state = "READY"]
      /\ UNCHANGED <<opt, link, more, budget, waiting, error>>
  BY DEF DbClose
<1>2. rs' = FreedRs \/ \E pointer \in Dangling : ~Open /\ rs' = [rs EXCEPT !.statement = pointer]
  BY DEF DbClose
<1>3. rs' \in [statement : Pointers, ptr : BOOLEAN] /\ ~rs'.ptr
  <2>1. CASE rs' = FreedRs
    BY <2>1, FreedTypes
  <2>2. CASE rs' # FreedRs
    BY <1>2, <2>2 DEF ConInv, ConTypeOK, Held, Pointers
  <2> QED
    BY <2>1, <2>2
<1>4. stmt' \in [Stmts -> StmtRecord]
  BY <1>1, FreedTypes, StmtRecords
<1>5. con' \in [state : ConStates, error : ConErrors, errno : {"none", "lost"} \cup Refusals]
  BY <1>1 DEF ConInv, ConTypeOK, ConStates
<1>6. ConInv'
  <2>1. waiting' = "no"
    BY <1>1 DEF DbClose, Usable
  <2> QED
    BY <1>1, <2>1, <1>3, <1>4, <1>5, FreedTypes DEF ConInv, ConTypeOK, Held
<1> QED
  BY <1>1, <1>3, <1>6, FreedTypes DEF ConInv, ConTypeOK

(* Connecting, reconnecting and disconnecting, and what the server does. *)
LEMMA OtherCallsTypes ==
  ASSUME ConInv,
         \/ DbConnect \/ FreeResults \/ DbReconnect \/ DbDisconnect \/ DbRefused
         \/ FreeThroughDangling \/ Reconnected \/ GiveUp \/ Drop \/ OthersFail
  PROVE  ConInv'
<1> USE DEF ConInv, ConTypeOK, Held, Open
<1>1. CASE DbConnect
  BY <1>1 DEF DbConnect, Connects, ConStates
<1>2. CASE FreeResults
  <2>1. ~rs'.ptr /\ rs' = FreedRs /\ heap' \in Nat /\ stmt' \in [Stmts -> StmtRecord]
        /\ rs' \in [statement : Pointers, ptr : BOOLEAN]
    BY <1>2, FreedTypes DEF FreeResults
  <2> QED
    BY <1>2, <2>1 DEF FreeResults, ConStates
<1>3. CASE DbReconnect \/ DbDisconnect
  <2>1. ~rs'.ptr /\ rs' = FreedRs /\ heap' \in Nat /\ stmt' \in [Stmts -> StmtRecord]
        /\ rs' \in [statement : Pointers, ptr : BOOLEAN]
    BY <1>3, FreedTypes DEF DbReconnect, DbDisconnect
  <2> QED
    BY <1>3, <2>1 DEF DbReconnect, DbDisconnect, ConStates
<1>4. CASE DbRefused
  BY <1>4 DEF DbRefused, ConErrors
<1>5. CASE FreeThroughDangling
  BY <1>5 DEF FreeThroughDangling, Crash
<1>6. CASE Reconnected
  BY <1>6 DEF Reconnected, ConErrors
<1>7. CASE GiveUp
  <2>1. CASE waiting = "statement"
    BY <1>7, <2>1 DEF GiveUp, ConErrors
  <2>2. CASE waiting = "reconnect"
    <3>1. con' = [con EXCEPT !.state = "INVALID"] /\ waiting' = "no" /\ ~rs.ptr
          /\ UNCHANGED <<opt, rs, stmt, link, more, heap, budget, error>>
      BY <1>7, <2>2 DEF GiveUp
    <3> QED
      BY <3>1 DEF ConStates
  <2> QED
    BY <1>7, <2>1, <2>2 DEF GiveUp
<1>8. CASE Drop
  BY <1>8, DbAssumption DEF Drop
<1>9. CASE OthersFail
  BY <1>9 DEF OthersFail
<1> QED
  BY <1>1, <1>2, <1>3, <1>4, <1>5, <1>6, <1>7, <1>8, <1>9

(* A call of a script of the user's own: DbNextResult and DbStmtNextResult. *)
LEMMA NextResultTypes ==
  ASSUME ConInv, DbNextResult \/ DbStmtNextResult
  PROVE  ConInv'
<1>1. CASE DbNextResult
  <2>1. PICK a \in NextAnswers(NoStmt) : Receive(NoStmt, a, data)
    BY <1>1 DEF DbNextResult
  <2>2. more' \in BOOLEAN
    BY <1>1 DEF DbNextResult
  <2> QED
    BY <2>1, <2>2, ReceiveTypes, NextAnswersKnown
<1>2. CASE DbStmtNextResult
  <2>1. PICK s \in Stmts : more' = FALSE /\ \E a \in NextAnswers(s) : Receive(s, a, data)
    BY <1>2 DEF DbStmtNextResult
  <2>2. PICK a \in NextAnswers(s) : Receive(s, a, data)
    BY <2>1
  <2>3. more' \in BOOLEAN
    BY <2>1
  <2> QED
    BY <2>2, <2>3, ReceiveTypes, NextAnswersKnown
<1> QED
  BY <1>1, <1>2

(* What a statement makes of the tables: all of it, nothing, or a part with
   the transaction undone. *)
Contents(S) == [trx : Seq(S), kept : Seq(S)]

(* What a statement makes of the tables, with the answer the driver sees. *)
LEMMA ServeData ==
  ASSUME NEW S, data \in Contents(S), NEW done \in Contents(S), NEW a \in Verdicts, Serve(a, done)
  PROVE  /\ data' \in Contents(S)
         /\ a \in Good => data' = done
         /\ a \notin Good => \/ data' = data
                             \/ data'.trx = <<>> /\ data'.kept \in {data.kept, done.kept}
<1>1. Undone \in Contents(S) /\ Undone.trx = <<>> /\ Undone.kept = data.kept
  <2> <<>> \in Seq(S)
    OBVIOUS
  <2> QED
    BY DEF Contents, Undone
<1> DEFINE lost == [done EXCEPT !.trx = <<>>]
<1>2. lost \in Contents(S) /\ lost.trx = <<>> /\ lost.kept = done.kept
  <2> <<>> \in Seq(S)
    OBVIOUS
  <2> QED
    BY DEF Contents
<1>3. /\ a \in Good => data' = done
      /\ a \notin Good => data' \in {Undone, lost, data}
  BY DEF Serve, Good
<1> HIDE DEF lost
<1> QED
  BY <1>1, <1>2, <1>3

LEMMA DropData ==
  ASSUME NEW S, data \in Contents(S), data' = Undone
  PROVE  data' \in Contents(S) /\ data'.trx = <<>> /\ data'.kept = data.kept
<1> <<>> \in Seq(S)
  OBVIOUS
<1> QED
  BY DEF Contents, Undone

-----------------------------------------------------------------------------
(* The worker. *)
Ready(s) == stmt[s].life = "prepared" /\ (stmt[s].bound => stmt[s].emulated \/ stmt[s].attached)

(* Where the worker can be. *)
WorkerPoints ==
  /\ OltpTypeOK
  /\ \/ pc \in {"event", "check_error", "executed", "reconnect", "reconnecting"}
     \/ pc = "prepare" /\ after = "event"
     => events < MaxEvents
  /\ pc = "thread_init" => after = "more"
  /\ script # "run" => pc = "thread_init"

(* A call that waits has lost its session, and with it the statements. *)
WaitInv ==
  script = "run" =>
    /\ waiting = "statement" => pc = "check_error" /\ con.errno = "lost"
    /\ waiting = "reconnect" => pc = "reconnecting"
    /\ pc = "check_error" /\ waiting = "no" /\ con.error = "NONE" => con.errno # "lost"

ReadyInv ==
  script = "run" =>
    /\ pc \in {"more", "event", "executed"} => \A s \in Stmts : Ready(s)
    /\ pc = "check_error" /\ con.errno # "lost" => \A s \in Stmts : Ready(s)
    /\ pc = "prepare" => \A i \in 1..step - 1 : Ready(Preparing[i])

(* What an event has done so far is one transaction, unless its session is
   gone, which the next statement will notice. *)
TrxInv ==
  script = "run" =>
    /\ data \in Contents(Stmts)
    /\ pc = "event" /\ step > 1 /\ link = "open" => data.trx = SubSeq(Event, 1, step - 1)
    /\ pc = "check_error" /\ waiting = "no" /\ con.error = "NONE" =>
         IF step < Len(Event) THEN link = "open" => data.trx = SubSeq(Event, 1, step)
                              ELSE data.kept = Event
    /\ EventsWhole

WorkerInv == WorkerPoints /\ WaitInv /\ ReadyInv /\ TrxInv

(* With emulated statements a worker's result is an object of its own. *)
OwnedInv ==
  opt.driver = "mysql" /\ opt.ps = "client" /\ script # "own" =>
    /\ \A s \in Stmts : stmt[s].life = "prepared" => stmt[s].emulated
    /\ rs.ptr => ~OfStatement
    /\ script = "prepare" => rs.statement = NoStmt

-----------------------------------------------------------------------------
(* The statements of an event, and those of a script. *)
LEMMA EventStatements ==
  /\ Event \in Seq(Stmts) /\ Len(Event) \in Nat /\ Len(Event) >= 2
  /\ \A i \in 1..Len(Event) : Event[i] \in Stmts
  /\ 1 \in 1..Len(Event) /\ Len(Event) \in 1..Len(Event)
  /\ \A i \in 1..Len(Event) : /\ i # 1 => Event[i] # Event[1]
                              /\ i # Len(Event) => Event[i] # Event[Len(Event)]
  /\ \A s \in Stmts : Kind[s] \in {"read", "write", "other"}
<1>1. Event \in Seq(Stmts) /\ Len(Event) \in Nat /\ Len(Event) >= 2
  BY OltpAssumption
<1>2. \A i \in 1..Len(Event) : Event[i] \in Stmts
  BY <1>1
<1>3. \A s \in Stmts : Kind[s] \in {"read", "write", "other"}
  BY OltpAssumption
<1>4. 1 \in 1..Len(Event) /\ Len(Event) \in 1..Len(Event)
  BY <1>1
<1>5. ASSUME NEW i \in 1..Len(Event)
      PROVE  /\ i # 1 => Event[i] # Event[1]
             /\ i # Len(Event) => Event[i] # Event[Len(Event)]
  <2>1. /\ i # 1 => i \in 2..Len(Event)
        /\ i # Len(Event) => i \in 1..Len(Event) - 1
    BY <1>1
  <2> QED
    BY <2>1, OltpAssumption
<1> QED
  BY <1>1, <1>2, <1>3, <1>4, <1>5

LEMMA PreparingStatements ==
  /\ Preparing \in Seq(Stmts) /\ Len(Preparing) \in Nat /\ Len(Preparing) >= 1
  /\ \A i \in 1..Len(Preparing) : Preparing[i] \in Stmts
  /\ \A s \in Stmts : \E i \in 1..Len(Preparing) : Preparing[i] = s
  /\ \A i, j \in 1..Len(Preparing) : Preparing[i] = Preparing[j] => i = j
<1>1. Preparing \in Seq(Stmts) /\ Len(Preparing) \in Nat
  BY OltpAssumption
<1>2. \A i \in 1..Len(Preparing) : Preparing[i] \in Stmts
  BY <1>1
<1>3. Event[1] \in Stmts
  BY EventStatements
<1>4. PICK i \in 1..Len(Preparing) : Preparing[i] = Event[1]
  BY <1>3, OltpAssumption
<1>5. Len(Preparing) >= 1
  BY <1>1, <1>4
<1> QED
  BY <1>1, <1>2, <1>5, OltpAssumption

(* The statement the worker is at. *)
LEMMA StepStatements ==
  ASSUME OltpTypeOK
  PROVE  /\ pc # "prepare" => /\ step \in 1..Len(Event) /\ Event[step] \in Stmts
                              /\ Kind[Event[step]] \in {"read", "write", "other", "call"}
         /\ pc = "prepare" => step \in 1..Len(Preparing) /\ Preparing[step] \in Stmts
<1>1. /\ pc # "prepare" => step \in 1..Len(Event)
      /\ pc = "prepare" => step \in 1..Len(Preparing)
  BY DEF OltpTypeOK
<1> QED
  BY <1>1, EventStatements, PreparingStatements

LEMMA ConStays ==
  ASSUME ConInv, UNCHANGED dbVars
  PROVE  ConInv'
  BY DEF dbVars, ConInv, ConTypeOK, Held, Open

LEMMA ExecuteTypes ==
  ASSUME ConInv, NEW s \in Stmts, NEW done, NEW kind \in {"read", "write", "other", "call"},
         DbExecute(s, kind, done)
  PROVE  /\ ConInv'
         /\ \A t \in Stmts : /\ stmt'[t].life = stmt[t].life
                             /\ stmt'[t].emulated = stmt[t].emulated
                             /\ stmt'[t].bound = stmt[t].bound
<1>1. CASE stmt[s].bound
  BY <1>1, RunTypes DEF DbExecute
<1>2. CASE ~stmt[s].bound
  BY <1>2 DEF DbExecute, Crash, ConInv, ConTypeOK, Held, Open
<1> QED
  BY <1>1, <1>2

LEMMA QueryTypes ==
  ASSUME ConInv, NEW done, NEW kind \in {"read", "write", "other", "call"}, DbQuery(kind, done)
  PROVE  /\ ConInv'
         /\ \A t \in Stmts : /\ stmt'[t].life = stmt[t].life
                             /\ stmt'[t].emulated = stmt[t].emulated
                             /\ stmt'[t].bound = stmt[t].bound
  BY RunTypes DEF DbQuery

(* Every step of every script keeps the types of the connection. *)
LEMMA ConStep ==
  ASSUME ConInv, OltpTypeOK, [Next]_vars
  PROVE  ConInv'
<1>1. CASE UNCHANGED vars
  BY <1>1, ConStays DEF vars
<1>2. CASE StartThreads
  BY <1>2, ConStays DEF StartThreads
<1>3. CASE RunScript
  <2>1. pc = "prepare" => Preparing[step] \in Stmts
    BY StepStatements
  <2>2. pc = "event" => /\ Event[step] \in Stmts
                        /\ Kind[Event[step]] \in {"read", "write", "other", "call"}
    BY StepStatements
  <2>3. CASE Connect \/ Reconnect \/ Disconnect
    BY <2>3, OtherCallsTypes DEF Connect, Reconnect, Disconnect
  <2>4. CASE Prepare
    BY <2>1, <2>4, PrepareTypes DEF Prepare
  <2>5. CASE MoreEvents \/ NoMoreEvents \/ NextStatement \/ Fatal \/ Prepared
    BY <2>5, ConStays DEF MoreEvents, NoMoreEvents, NextStatement, Fatal, Prepared
  <2>6. CASE Execute
    BY <2>6, <2>2, ExecuteTypes DEF Execute
  <2>7. CASE Restart \/ CheckReconnect \/ CloseStatements
    <3>1. DbClose(Stmts) \/ UNCHANGED dbVars
      BY <2>7 DEF Restart, CheckReconnect, CloseStatements, dbVars
    <3> QED
      BY <3>1, ConStays, CloseTypes
  <2>8. CASE RaiseError
    BY <2>8 DEF RaiseError, ConInv, ConTypeOK, Held, Open
  <2>9. CASE Reconnected \/ GiveUp \/ Drop \/ OthersFail
    BY <2>9, OtherCallsTypes
  <2> QED
    BY <1>3, <2>3, <2>4, <2>5, <2>6, <2>7, <2>8, <2>9 DEF RunScript, OltpNext, WorkerStep
<1>4. CASE PrepareScript
  <2>1. CASE ConnectLoader
    BY <2>1, OtherCallsTypes DEF ConnectLoader
  <2>2. CASE CreateTable \/ Insert \/ Commit \/ CreateIndex
    BY <2>2, QueryTypes DEF CreateTable, Insert, Commit, CreateIndex
  <2>3. CASE TableCreated \/ InitBulk \/ BulkNext \/ AppendRow \/ BulkDone \/ Inserted
             \/ Committed \/ FreeBuffer \/ NextTable
    <3>1. UNCHANGED dbVars
      BY <2>3 DEF TableCreated, Outcome, InitBulk, BulkNext, AppendRow, BulkDone, Inserted,
                  Committed, FreeBuffer, NextTable, dbVars
    <3> QED
      BY <3>1, ConStays
  <2>4. CASE Reconnected \/ GiveUp \/ Drop \/ OthersFail
    BY <2>4, OtherCallsTypes
  <2> QED
    BY <1>4, <2>1, <2>2, <2>3, <2>4 DEF PrepareScript, LoaderNext, LoaderStep
<1>5. CASE OwnScript
  <2>1. CASE \E s \in Stmts : DbPrepare(s)
    BY <2>1, PrepareTypes
  <2>2. CASE \E s \in Stmts : \E kind \in {Kind[s], "call"} : DbExecute(s, kind, Effect(s))
    <3>1. PICK s \in Stmts : \E kind \in {Kind[s], "call"} : DbExecute(s, kind, Effect(s))
      BY <2>2
    <3>2. PICK kind \in {Kind[s], "call"} : DbExecute(s, kind, Effect(s))
      BY <3>1
    <3>3. kind \in {"read", "write", "other", "call"}
      BY EventStatements
    <3> QED
      BY <3>2, <3>3, ExecuteTypes
  <2>3. CASE \E s \in Stmts : DbClose({s})
    <3>1. PICK s \in Stmts : DbClose({s})
      BY <2>3
    <3>2. {s} \in SUBSET Stmts
      OBVIOUS
    <3> QED
      BY <3>1, <3>2, CloseTypes
  <2>4. CASE \E kind \in {"read", "write", "call"} : DbQuery(kind, data)
    BY <2>4, QueryTypes
  <2>5. CASE DbNextResult \/ DbStmtNextResult
    BY <2>5, NextResultTypes
  <2>6. CASE \/ DbConnect \/ FreeThroughDangling \/ FreeResults \/ DbReconnect \/ DbDisconnect
             \/ DbRefused \/ Reconnected \/ GiveUp \/ Drop \/ OthersFail
    BY <2>6, OtherCallsTypes
  <2> QED
    BY <1>5, <2>1, <2>2, <2>3, <2>4, <2>5, <2>6 DEF OwnScript, OwnNext, OwnCall
<1> QED
  BY <1>1, <1>2, <1>3, <1>4, <1>5 DEF Next

-----------------------------------------------------------------------------
(* The worker's places and counters. *)
LEMMA PointsStep ==
  ASSUME WorkerPoints, [Next]_vars
  PROVE  WorkerPoints'
<1>0. /\ Len(Event) \in Nat /\ Len(Event) >= 2 /\ MaxEvents \in Nat /\ script' = script
      /\ Len(Preparing) \in Nat /\ Len(Preparing) >= 1
  BY EventStatements, PreparingStatements, OltpAssumption DEF Next, vars
<1> USE <1>0 DEF WorkerPoints, OltpTypeOK, oltpVars
<1>1. CASE UNCHANGED oltpVars
  BY <1>1
<1>2. CASE RunScript
  <2> USE <1>2 DEF RunScript
  <2>1. CASE Connect
    BY <2>1 DEF Connect, Goto
  <2>2. CASE Prepare
    BY <2>2 DEF Prepare
  <2>3. CASE MoreEvents \/ NoMoreEvents
    BY <2>3 DEF MoreEvents, NoMoreEvents, Goto
  <2>4. CASE Execute
    BY <2>4 DEF Execute
  <2>5. CASE NextStatement
    BY <2>5 DEF NextStatement, Goto
  <2>6. CASE Restart
    BY <2>6 DEF Restart, Goto
  <2>7. CASE Fatal
    BY <2>7 DEF Fatal, Goto
  <2>8. CASE CheckReconnect
    BY <2>8 DEF CheckReconnect, Goto
  <2>9. CASE Reconnect
    BY <2>9 DEF Reconnect, Goto
  <2>10. CASE Prepared
    BY <2>10 DEF Prepared, Goto
  <2>11. CASE CloseStatements \/ Disconnect
    BY <2>11 DEF CloseStatements, Disconnect, Goto
  <2>12. CASE UNCHANGED oltpVars
    BY <2>12
  <2> QED
    BY <1>2, <2>1, <2>2, <2>3, <2>4, <2>5, <2>6, <2>7, <2>8, <2>9, <2>10, <2>11, <2>12
    DEF RunScript, OltpNext, WorkerStep, RaiseError
<1> QED
  BY <1>1, <1>2 DEF Next, PrepareScript, OwnScript, StartThreads, vars

-----------------------------------------------------------------------------
(* Whose result the connection refers to. *)
LEMMA OwnedKept ==
  ASSUME ConInv, OwnedInv, opt' = opt, script' = script, rs' = rs,
         \A s \in Stmts : stmt'[s].life = stmt[s].life /\ stmt'[s].emulated = stmt[s].emulated
  PROVE  OwnedInv'
  BY DEF OwnedInv, OfStatement

(* A call that leaves no result. *)
LEMMA OwnedFreed ==
  ASSUME ConInv, OwnedInv, opt' = opt, script' = script, ~rs'.ptr,
         script = "prepare" /\ rs.statement = NoStmt => rs'.statement = NoStmt,
         \A s \in Stmts : \/ stmt'[s].life = "free"
                          \/ stmt'[s].life = stmt[s].life /\ stmt'[s].emulated = stmt[s].emulated
  PROVE  OwnedInv'
  BY DEF OwnedInv

(* A statement of a worker or a loader leaves a result of its own. *)
LEMMA OwnedRun ==
  ASSUME ConInv, OwnedInv, script' = script,
         NEW s \in Stmts \cup {NoStmt}, NEW done, NEW kind \in {"read", "write", "other", "call"},
         IF script = "prepare" THEN s = NoStmt ELSE s \in Stmts /\ stmt[s].life = "prepared",
         Run(s, kind, done) \/ LostWithoutState
  PROVE  OwnedInv'
<1>1. CASE Run(s, kind, done)
  <2>1. PICK a \in Answers(s, kind) : Receive(s, a, done)
    BY <1>1 DEF Run
  <2>2. /\ opt' = opt
        /\ rs'.statement = IF s = NoStmt THEN FreedRs.statement ELSE s
        /\ \A t \in Stmts : stmt'[t].life = stmt[t].life /\ stmt'[t].emulated = stmt[t].emulated
    BY <1>1, <2>1, RunTypes DEF Receive, Result
  <2>3. script = "prepare" /\ rs.statement = NoStmt => rs'.statement = NoStmt
    BY <2>2 DEF FreedRs
  <2>4. s \in Stmts /\ stmt[s].emulated => ~OfStatement'
    BY <2>2, DbAssumption DEF OfStatement, Dangling
  <2>5. rs'.statement = NoStmt => ~OfStatement'
    BY DbAssumption DEF OfStatement, Dangling
  <2> QED
    BY <2>2, <2>3, <2>4, <2>5 DEF OwnedInv
<1>2. CASE LostWithoutState
  BY <1>2, OwnedKept DEF LostWithoutState, Crash
<1> QED
  BY <1>1, <1>2

(* Every step keeps a worker's and a loader's results apart from statements. *)
LEMMA OwnedStep ==
  ASSUME ConInv, OltpTypeOK, OwnedInv, [Next]_vars
  PROVE  OwnedInv'
<1>0. script' = script
  BY DEF Next, vars
<1>1. CASE UNCHANGED dbVars
  BY <1>0, <1>1, OwnedKept DEF dbVars
<1>2. CASE DbConnect \/ Reconnected \/ GiveUp \/ Drop \/ OthersFail
  BY <1>0, <1>2, OwnedKept DEF DbConnect, Reconnected, GiveUp, Drop, OthersFail
<1>3. CASE RunScript
  <2>1. script = "run"
    BY <1>3 DEF RunScript
  <2>2. pc = "event" => /\ Event[step] \in Stmts
                        /\ Kind[Event[step]] \in {"read", "write", "other", "call"}
    BY StepStatements
  <2>3. CASE Prepare
    <3> DEFINE s == Preparing[step]
    <3>0. s \in Stmts
      BY <2>3, StepStatements DEF Prepare
    <3>1. /\ stmt'[s].life = "prepared" /\ opt.ps = "client" => stmt'[s].emulated
          /\ \A t \in Stmts \ {s} : stmt'[t] = stmt[t]
          /\ opt' = opt /\ rs' = rs
      BY <3>0, <2>3, PrepareTypes DEF Prepare, DbPrepare
    <3>2. stmt[s].life = "free" /\ (stmt' = stmt \/ stmt'[s].life = "prepared")
      <4>1. DbPrepare(s) /\ stmt \in [Stmts -> StmtRecord]
        BY <2>3 DEF Prepare, ConInv, ConTypeOK
      <4> HIDE DEF s
      <4> QED
        BY <4>1, <3>0 DEF DbPrepare, s
    <3>3. opt.ps = "client" => \A t \in Stmts :
            \/ stmt'[t].emulated
            \/ stmt'[t].life = stmt[t].life /\ stmt'[t].emulated = stmt[t].emulated
      BY <3>0, <3>1, <3>2
    <3>4. ~OfStatement /\ opt.driver = "mysql" /\ opt.ps = "client" => ~OfStatement'
      BY <3>1, <3>3 DEF OfStatement
    <3>5. stmt' \in [Stmts -> StmtRecord]
      BY <3>0, <2>3, PrepareTypes DEF Prepare, ConInv, ConTypeOK
    <3>6. opt.driver = "mysql" /\ opt.ps = "client" =>
            \A t \in Stmts : stmt'[t].life = "prepared" => stmt'[t].emulated
      BY <2>1, <3>3 DEF OwnedInv
    <3> QED
      BY <1>0, <2>1, <3>1, <3>4, <3>6 DEF OwnedInv
  <2>4. CASE Execute
    <3>1. pc = "event" /\ DbExecute(Event[step], Kind[Event[step]], Effect(Event[step]))
      BY <2>4 DEF Execute
    <3>2. CASE stmt[Event[step]].bound
      BY <1>0, <2>1, <2>2, <3>1, <3>2, OwnedRun DEF DbExecute
    <3>3. CASE ~stmt[Event[step]].bound
      BY <1>0, <3>1, <3>3, OwnedKept DEF DbExecute, Crash
    <3> QED
      BY <3>2, <3>3
  <2>5. CASE DbClose(Stmts)
    <3>1. ~rs'.ptr /\ opt' = opt /\ \A s \in Stmts : stmt'[s].life = "free"
      <4>1. Stmts \in SUBSET Stmts
        OBVIOUS
      <4>2. rs'.ptr = FreedRs.ptr /\ \A s \in Stmts : stmt'[s] = Unprepared
        BY <2>5, <4>1, CloseTypes
      <4> QED
        BY <2>5, <4>2, FreedTypes DEF DbClose, Unprepared
    <3> QED
      BY <1>0, <2>1, <3>1, OwnedFreed
  <2>6. CASE DbReconnect \/ DbDisconnect
    <3>1. ~rs'.ptr /\ opt' = opt
          /\ \A s \in Stmts : stmt'[s].life = stmt[s].life /\ stmt'[s].emulated = stmt[s].emulated
      BY <2>6, FreedTypes DEF DbReconnect, DbDisconnect
    <3> QED
      BY <1>0, <2>1, <3>1, OwnedFreed
  <2>7. CASE RaiseError
    BY <1>0, <2>7, OwnedKept DEF RaiseError
  <2> QED
    BY <1>1, <1>2, <1>3, <2>3, <2>4, <2>5, <2>6, <2>7
    DEF RunScript, OltpNext, WorkerStep, Connect, MoreEvents, NoMoreEvents, NextStatement, Restart,
        Fatal, CheckReconnect, Reconnect, Prepared, CloseStatements, Disconnect, dbVars
<1>4. CASE PrepareScript
  <2>1. script = "prepare"
    BY <1>4 DEF PrepareScript
  <2>2. CASE CreateTable \/ Insert \/ Commit \/ CreateIndex
    BY <1>0, <2>1, <2>2, OwnedRun DEF CreateTable, Insert, Commit, CreateIndex, DbQuery
  <2> QED
    BY <1>1, <1>2, <1>4, <2>2
    DEF PrepareScript, LoaderNext, LoaderStep, ConnectLoader, TableCreated, Outcome, InitBulk, BulkNext,
        AppendRow, BulkDone, Inserted, Committed, FreeBuffer, NextTable, dbVars
<1>5. CASE OwnScript
  BY <1>0, <1>5 DEF OwnScript, OwnedInv
<1> QED
  BY <1>1, <1>3, <1>4, <1>5 DEF Next, StartThreads, vars

-----------------------------------------------------------------------------
(* What a statement that runs leaves behind. *)
LEMMA RunOutcome ==
  ASSUME ConInv, NEW s \in Stmts \cup {NoStmt}, NEW kind \in {"read", "write", "other", "call"},
         NEW S, data \in Contents(S), NEW done \in Contents(S), Run(s, kind, done)
  PROVE  /\ data' \in Contents(S)
         /\ \/ /\ con'.error = "NONE" /\ con'.errno = "none" /\ waiting' = "no"
               /\ link = "open" /\ link' = "open" /\ data' = done
            \/ /\ \/ waiting' = "statement" /\ con'.errno = "lost"
                  \/ waiting' = "no" /\ con'.error # "NONE"
               /\ \/ data' = data
                  \/ data'.trx = <<>> /\ data'.kept \in {data.kept, done.kept}
         /\ waiting' = "no" => \A t \in Stmts : stmt'[t].attached = stmt[t].attached
<1>1. PICK a \in Answers(s, kind) :
        /\ Receive(s, a, done)
        /\ more' \in IF a = "rows" /\ kind = "call" /\ opt.driver = "mysql" THEN BOOLEAN ELSE {more}
  BY DEF Run
<1>2. a \in Verdicts /\ (a \in Good => link = "open") /\ (a = "lost" /\ link = "open" => budget.drops < MaxDrops)
  BY <1>1, AnswersKnown
<1>3. more' \in BOOLEAN
  BY <1>1 DEF ConInv, ConTypeOK
<1>4. ~Reconnects(a) => \A t \in Stmts : stmt'[t].attached = stmt[t].attached
  BY <1>1, <1>2, <1>3, ReceiveTypes
<1>5. /\ data' \in Contents(S)
      /\ a \in Good => data' = done
      /\ a \notin Good => \/ data' = data
                          \/ data'.trx = <<>> /\ data'.kept \in {data.kept, done.kept}
  BY <1>1, <1>2, ServeData DEF Receive
<1>6. a \in Good => ~Reconnects(a) /\ Verdict(a) = "NONE" /\ a # "lost"
  BY DEF Reconnects, Verdict, Good
<1>7. a \notin Good => Verdict(a) # "NONE"
  BY DEF Verdict, MySqlVerdict, PgSqlVerdict
<1>8. /\ con'.error = IF Reconnects(a) THEN con.error ELSE Verdict(a)
      /\ con'.errno = IF a \in Good THEN "none" ELSE a
      /\ waiting' = IF Reconnects(a) THEN "statement" ELSE "no"
      /\ link' = IF Reconnects(a) THEN "closed" ELSE IF a = "lost" THEN "dropped" ELSE link
  BY <1>1 DEF Receive
<1>9. Reconnects(a) => a = "lost" /\ a \notin Good
  BY DEF Reconnects, Good
<1> QED
  BY <1>2, <1>4, <1>5, <1>6, <1>7, <1>8, <1>9

-----------------------------------------------------------------------------
(* A call of the worker waits only where it expects to. *)
LEMMA WaitStep ==
  ASSUME ConInv, WorkerInv, [Next]_vars
  PROVE  WaitInv'
<1>0. script' = script
  BY DEF Next, vars
<1>1. CASE UNCHANGED <<oltpVars, con, waiting>>
  BY <1>0, <1>1 DEF WorkerInv, WaitInv, oltpVars
<1>2. CASE RunScript
  <2>1. script = "run" /\ data \in Contents(Stmts)
    BY <1>2 DEF RunScript, WorkerInv, TrxInv
  <2>2. pc = "event" => /\ Event[step] \in Stmts
                        /\ Kind[Event[step]] \in {"read", "write", "other", "call"}
    BY StepStatements DEF WorkerInv, WorkerPoints
  <2> USE <1>0, <2>1 DEF WorkerInv, WaitInv
  <2>3. CASE Connect
    <3>1. waiting' = "no"
      BY <2>3 DEF Connect, DbConnect
    <3>2. pc' # "check_error"
      BY <2>3 DEF Connect, Goto
    <3> QED
      BY <3>1, <3>2
  <2>4. CASE Prepare
    <3>1. waiting' = "no"
      BY <2>4 DEF Prepare, DbPrepare, Usable
    <3>2. pc' # "check_error"
      BY <2>4 DEF Prepare, WorkerPoints, OltpTypeOK
    <3> QED
      BY <3>1, <3>2
  <2>5. CASE MoreEvents \/ NoMoreEvents \/ NextStatement \/ Fatal \/ Prepared
    BY <2>5 DEF MoreEvents, NoMoreEvents, NextStatement, Fatal, Prepared, Goto, dbVars
  <2>6. CASE Execute
    <3>1. pc' = "check_error" /\ Usable
      BY <2>6 DEF Execute, DbExecute
    <3>2. CASE waiting' = "crashed"
      BY <3>1, <3>2
    <3>3. CASE \E done : Run(Event[step], Kind[Event[step]], done)
      <4>1. PICK done : Run(Event[step], Kind[Event[step]], done)
        BY <3>3
      <4>2. PICK a \in Answers(Event[step], Kind[Event[step]]) : Receive(Event[step], a, done)
        BY <4>1 DEF Run
      <4>3. /\ con'.error = IF Reconnects(a) THEN con.error ELSE Verdict(a)
            /\ con'.errno = IF a \in Good THEN "none" ELSE a
            /\ waiting' = IF Reconnects(a) THEN "statement" ELSE "no"
        BY <4>2 DEF Receive
      <4>4. Reconnects(a) => a = "lost" /\ a \notin Good
        BY DEF Reconnects, Good
      <4>5. a \notin Good => Verdict(a) # "NONE"
        BY DEF Verdict, MySqlVerdict, PgSqlVerdict
      <4> QED
        BY <3>1, <4>3, <4>4, <4>5
    <3> QED
      BY <2>6, <3>2, <3>3 DEF Execute, DbExecute, LostWithoutState, Crash
  <2>7. CASE Restart \/ CheckReconnect \/ CloseStatements
    BY <2>7 DEF Restart, CheckReconnect, CloseStatements, DbClose, Usable, Goto, dbVars
  <2>8. CASE Reconnect \/ Disconnect
    BY <2>8 DEF Reconnect, Disconnect, DbReconnect, DbDisconnect, Usable, Goto
  <2>9. CASE RaiseError \/ ((Drop \/ OthersFail) /\ UNCHANGED oltpVars)
    BY <2>9 DEF RaiseError, Drop, OthersFail, oltpVars
  <2>10. CASE (Reconnected \/ GiveUp) /\ UNCHANGED oltpVars
    BY <2>10 DEF Reconnected, GiveUp, oltpVars, ConInv, ConTypeOK
  <2> QED
    BY <1>2, <2>3, <2>4, <2>5, <2>6, <2>7, <2>8, <2>9, <2>10
    DEF RunScript, OltpNext, WorkerStep
<1>3. CASE script # "run"
  BY <1>0, <1>3 DEF WaitInv
<1> QED
  BY <1>0, <1>1, <1>2, <1>3
  DEF Next, PrepareScript, OwnScript, StartThreads, vars, dbVars

-----------------------------------------------------------------------------
(* The statements an event uses are those of the session. *)
LEMMA ReadyKept ==
  ASSUME NEW t \in Stmts, Ready(t),
         stmt'[t].life = stmt[t].life, stmt'[t].emulated = stmt[t].emulated,
         stmt'[t].bound = stmt[t].bound, stmt'[t].attached = stmt[t].attached
  PROVE  Ready(t)'
  BY DEF Ready

(* An event, and each of its restarts, finds its statements prepared in the
   session it is in. *)
LEMMA ReadyStep ==
  ASSUME ConInv, WorkerInv, [Next]_vars
  PROVE  ReadyInv'
<1>0. script' = script
  BY DEF Next, vars
<1>1. CASE UNCHANGED <<oltpVars, stmt, con>>
  BY <1>0, <1>1 DEF WorkerInv, ReadyInv, Ready, oltpVars
<1>2. CASE RunScript
  <2>1. script = "run" /\ data \in Contents(Stmts) /\ after \in {"more", "event"}
    BY <1>2 DEF RunScript, WorkerInv, WorkerPoints, OltpTypeOK, TrxInv
  <2>2. pc = "event" => /\ Event[step] \in Stmts
                        /\ Kind[Event[step]] \in {"read", "write", "other", "call"}
    BY StepStatements DEF WorkerInv, WorkerPoints
  <2>3. /\ pc \in {"more", "event", "executed"} => \A s \in Stmts : Ready(s)
        /\ pc = "check_error" /\ con.errno # "lost" => \A s \in Stmts : Ready(s)
        /\ pc = "prepare" => \A i \in 1..step - 1 : Ready(Preparing[i])
        /\ pc = "check_error" /\ waiting = "no" /\ con.error = "NONE" => con.errno # "lost"
        /\ waiting = "statement" => pc = "check_error" /\ con.errno = "lost"
    BY <2>1 DEF WorkerInv, ReadyInv, WaitInv
  <2>4. CASE Connect
    <3>1. pc' = "failed" \/ (pc' = "prepare" /\ step' = 1)
      BY <2>4 DEF Connect, Goto
    <3> QED
      BY <3>1 DEF ReadyInv
  <2>5. CASE Prepare
    <3>0. PICK s \in Stmts : s = Preparing[step]
      BY <2>5, StepStatements DEF Prepare, WorkerInv, WorkerPoints
    <3>9. step \in 1..Len(Preparing) /\ Len(Preparing) \in Nat
      BY <2>5, StepStatements, PreparingStatements DEF Prepare, WorkerInv, WorkerPoints
    <3>1. /\ stmt'[s].life = "prepared" => Ready(s)'
          /\ \A t \in Stmts \ {s} : stmt'[t] = stmt[t]
      <4>1. DbPrepare(s)
        BY <3>0, <2>5 DEF Prepare
      <4>2. /\ stmt'[s].life = "prepared" /\ stmt'[s].bound => stmt'[s].emulated \/ stmt'[s].attached
            /\ \A t \in Stmts \ {s} : stmt'[t] = stmt[t]
        BY <4>1, PrepareTypes
      <4> QED
        BY <4>2 DEF Ready
    <3>2. stmt' \in [Stmts -> StmtRecord]
      BY <3>0, <2>5, PrepareTypes DEF Prepare, ConInv, ConTypeOK
    <3>3. /\ pc = "prepare"
          /\ pc' = IF stmt'[s].life = "free" THEN "failed"
                   ELSE IF step < Len(Preparing) THEN "prepare" ELSE after
          /\ step' = IF pc' = "prepare" THEN step + 1 ELSE 1
      BY <3>0, <2>5 DEF Prepare
    <3>4. stmt'[s].life # "free" => Ready(s)'
      BY <3>1, <3>2 DEF StmtRecord
    <3>5. ASSUME NEW i \in 1..step - 1
          PROVE  Ready(Preparing[i])'
      <4>0. i \in 1..Len(Preparing) /\ i # step
        BY <3>9
      <4>1. Ready(Preparing[i]) /\ Preparing[i] \in Stmts
        <5>1. Ready(Preparing[i])
          BY <2>3, <3>3
        <5> QED
          BY <4>0, <5>1, PreparingStatements
      <4>2. Preparing[i] # s
        BY <3>0, <3>9, <4>0, PreparingStatements
      <4>3. stmt'[Preparing[i]] = stmt[Preparing[i]]
        BY <3>1, <4>1, <4>2
      <4> QED
        BY <4>1, <4>3 DEF Ready
    <3>6. pc' # "failed" => \A i \in 1..step : Ready(Preparing[i])'
      <4>1. ASSUME pc' # "failed", NEW i \in 1..step
            PROVE  Ready(Preparing[i])'
        <5>1. i = step \/ i \in 1..step - 1
          BY <3>9
        <5> QED
          BY <3>0, <3>3, <3>4, <3>5, <4>1, <5>1
      <4> QED
        BY <4>1
    <3>7. CASE step < Len(Preparing)
      <4>1. pc' = "failed" \/ (pc' = "prepare" /\ step' - 1 = step)
        BY <3>9, <3>3, <3>7
      <4> QED
        BY <3>6, <4>1 DEF ReadyInv
    <3>8. CASE ~(step < Len(Preparing))
      <4>1. step = Len(Preparing) /\ pc' \in {"failed", "more", "event"}
        BY <2>1, <3>9, <3>3, <3>8
      <4>2. pc' # "failed" => \A t \in Stmts : Ready(t)'
        <5>1. ASSUME pc' # "failed", NEW t \in Stmts
              PROVE  Ready(t)'
          <6>1. PICK i \in 1..Len(Preparing) : Preparing[i] = t
            BY PreparingStatements
          <6> QED
            BY <3>6, <4>1, <5>1, <6>1
        <5> QED
          BY <5>1
      <4> QED
        BY <4>1, <4>2 DEF ReadyInv
    <3> QED
      BY <3>7, <3>8
  <2>6. CASE MoreEvents \/ NoMoreEvents \/ NextStatement \/ Fatal
    BY <1>0, <2>3, <2>6
    DEF MoreEvents, NoMoreEvents, NextStatement, Fatal, Goto, dbVars, ReadyInv, Ready
  <2>7. CASE Prepared
    <3>1. pc' = "failed" \/ (pc' = "prepare" /\ step' = 1)
      BY <2>7 DEF Prepared, Goto
    <3> QED
      BY <3>1 DEF ReadyInv
  <2>8. CASE Execute
    <3>1. /\ pc = "event" /\ pc' = "check_error" /\ Usable
          /\ DbExecute(Event[step], Kind[Event[step]], Effect(Event[step]))
      BY <2>8 DEF Execute, DbExecute
    <3>2. CASE waiting' = "crashed" /\ stmt' = stmt
      BY <2>3, <3>1, <3>2 DEF ReadyInv, Ready
    <3>3. CASE Run(Event[step], Kind[Event[step]], Effect(Event[step]))
      <4>1. PICK a \in Answers(Event[step], Kind[Event[step]]) :
              /\ Receive(Event[step], a, Effect(Event[step]))
              /\ more' \in IF a = "rows" /\ Kind[Event[step]] = "call" /\ opt.driver = "mysql"
                           THEN BOOLEAN ELSE {more}
        BY <3>3 DEF Run
      <4>2. more' \in BOOLEAN
        BY <4>1 DEF ConInv, ConTypeOK
      <4>3. CASE Reconnects(a)
        <5>1. con'.errno = "lost"
          BY <4>1, <4>3 DEF Receive, Reconnects, Good
        <5> QED
          BY <3>1, <5>1 DEF ReadyInv
      <4>4. CASE ~Reconnects(a)
        <5>1. \A t \in Stmts : /\ stmt'[t].life = stmt[t].life
                               /\ stmt'[t].emulated = stmt[t].emulated
                               /\ stmt'[t].bound = stmt[t].bound
                               /\ stmt'[t].attached = stmt[t].attached
          BY <2>2, <3>1, <4>1, <4>2, <4>4, AnswersKnown, ReceiveTypes
        <5>2. \A t \in Stmts : Ready(t)'
          BY <2>3, <3>1, <5>1, ReadyKept
        <5> QED
          BY <3>1, <5>2 DEF ReadyInv
      <4> QED
        BY <4>3, <4>4
    <3> QED
      BY <3>1, <3>2, <3>3 DEF DbExecute, LostWithoutState, Crash
  <2>9. CASE Restart
    BY <1>0, <2>3, <2>9 DEF Restart, Goto, dbVars, ReadyInv, Ready
  <2>10. CASE CheckReconnect
    BY <1>0, <2>3, <2>10 DEF CheckReconnect, Goto, dbVars, ReadyInv, Ready
  <2>11. CASE Reconnect \/ CloseStatements \/ Disconnect
    BY <2>11 DEF Reconnect, CloseStatements, Disconnect, Goto, ReadyInv
  <2>12. CASE RaiseError \/ ((Drop \/ OthersFail) /\ UNCHANGED oltpVars)
    BY <1>1, <2>12 DEF RaiseError, Drop, OthersFail
  <2>13. CASE (Reconnected \/ GiveUp) /\ UNCHANGED oltpVars
    <3>1. stmt' = stmt /\ con'.errno = con.errno /\ UNCHANGED oltpVars
      BY <2>13 DEF Reconnected, GiveUp, ConInv, ConTypeOK
    <3> QED
      BY <1>0, <2>1, <2>3, <3>1 DEF ReadyInv, Ready, oltpVars
  <2> QED
    BY <1>2, <2>4, <2>5, <2>6, <2>7, <2>8, <2>9, <2>10, <2>11, <2>12, <2>13
    DEF RunScript, OltpNext, WorkerStep
<1>3. CASE script # "run"
  BY <1>0, <1>3 DEF ReadyInv
<1> QED
  BY <1>0, <1>1, <1>2, <1>3
  DEF Next, PrepareScript, OwnScript, StartThreads, vars, dbVars

-----------------------------------------------------------------------------
(* One more statement of an event, and all of them. *)
LEMMA EventParts ==
  /\ SubSeq(Event, 1, 1) = <<Event[1]>>
  /\ \A i \in 2..Len(Event) : SubSeq(Event, 1, i) = Append(SubSeq(Event, 1, i - 1), Event[i])
  /\ SubSeq(Event, 1, Len(Event)) = Event
<1>1. Event \in Seq(Stmts) /\ Len(Event) \in Nat /\ Len(Event) >= 2
  BY EventStatements
<1>2. ASSUME NEW i \in 1..Len(Event)
      PROVE  SubSeq(Event, 1, i) = Append(SubSeq(Event, 1, i - 1), Event[i])
  <2>1. SubSeq(Event, 1, i) = SubSeq(Event, 1, i - 1) \o <<Event[i]>>
    BY <1>1, SubSeqRecursiveSecond
  <2>2. SubSeq(Event, 1, i - 1) \in Seq(Stmts) /\ Event[i] \in Stmts
    BY <1>1, EventStatements, SubSeqProperties
  <2> QED
    BY <2>1, <2>2, AppendIsConcat
<1>3. SubSeq(Event, 1, 1) = <<Event[1]>>
  <2>1. SubSeq(Event, 1, 0) = <<>>
    BY SubSeqEmpty
  <2>2. SubSeq(Event, 1, 1) = SubSeq(Event, 1, 1 - 1) \o <<Event[1]>>
    <3>1. 1 \in 1..Len(Event)
      BY <1>1
    <3> QED
      BY <1>1, <3>1, SubSeqRecursiveSecond
  <2>3. 1 - 1 = 0
    OBVIOUS
  <2>4. Event[1] \in Stmts
    BY <1>1, EventStatements
  <2>5. <<>> \o <<Event[1]>> = <<Event[1]>>
    BY <2>4
  <2> QED
    BY <2>1, <2>2, <2>3, <2>5
<1> QED
  BY <1>1, <1>2, <1>3, SubSeqFull

(* What BEGIN, a statement in between, and COMMIT make of the tables. *)
LEMMA EffectTypes ==
  ASSUME data \in Contents(Stmts), NEW i \in 1..Len(Event)
  PROVE  /\ Effect(Event[i]) \in Contents(Stmts)
         /\ i = 1 => Effect(Event[i]).trx = <<Event[1]>>
         /\ i > 1 /\ i < Len(Event) => Effect(Event[i]).trx = Append(data.trx, Event[i])
         /\ i = Len(Event) => Effect(Event[i]).kept = Append(data.trx, Event[i])
<1>1. Event[i] \in Stmts /\ Event[1] \in Stmts /\ Len(Event) \in Nat /\ Len(Event) >= 2
  BY EventStatements
<1>2. data.trx \in Seq(Stmts) /\ data.kept \in Seq(Stmts) /\ <<>> \in Seq(Stmts)
  BY DEF Contents
<1>3. CASE i = 1
  <2>0. i # Len(Event)
    <3>1. \A n \in Nat : n >= 2 => n # 1
      OBVIOUS
    <3> QED
      BY <1>1, <1>3, <3>1
  <2>1. Event[i] = Event[1] /\ Event[i] # Event[Len(Event)] /\ i # Len(Event)
    <3>1. Event[i] = Event[1]
      BY <1>3
    <3>2. Event[i] # Event[Len(Event)]
      BY <2>0, EventStatements
    <3> QED
      BY <2>0, <3>1, <3>2
  <2>2. Effect(Event[i]) = [trx |-> <<Event[i]>>, kept |-> IF data.trx = <<>> THEN data.kept ELSE data.trx]
    BY <2>1 DEF Effect
  <2>3. <<Event[i]>> \in Seq(Stmts)
    BY <1>1
  <2> QED
    BY <1>1, <1>2, <1>3, <2>1, <2>2, <2>3 DEF Contents
<1>4. CASE i = Len(Event)
  <2>1. Event[i] # Event[1] /\ i # 1 /\ Event[i] = Event[Len(Event)]
    BY <1>1, <1>4, EventStatements
  <2>2. Effect(Event[i]) = [trx |-> <<>>, kept |-> Append(data.trx, Event[i])]
    BY <2>1 DEF Effect
  <2>3. Append(data.trx, Event[i]) \in Seq(Stmts)
    BY <1>1, <1>2
  <2> QED
    BY <1>2, <1>4, <2>1, <2>2, <2>3 DEF Contents
<1>5. CASE i # 1 /\ i # Len(Event)
  <2>1. Event[i] # Event[1] /\ Event[i] # Event[Len(Event)]
    BY <1>5, EventStatements
  <2>2. Effect(Event[i]) = [data EXCEPT !.trx = Append(@, Event[i])]
    BY <2>1 DEF Effect
  <2>3. Append(data.trx, Event[i]) \in Seq(Stmts)
    BY <1>1, <1>2
  <2> QED
    BY <1>2, <1>5, <2>2, <2>3 DEF Contents
<1> QED
  BY <1>3, <1>4, <1>5

(* What is on the server of an event. *)
LEMMA TrxStep ==
  ASSUME ConInv, WorkerInv, [Next]_vars
  PROVE  TrxInv'
<1>0. script' = script
  BY DEF Next, vars
<1>1. CASE UNCHANGED <<oltpVars, dbVars>>
  BY <1>0, <1>1 DEF WorkerInv, TrxInv, EventsWhole, oltpVars, dbVars
<1>2. CASE RunScript
  <2>1. /\ script = "run" /\ (pc # "prepare" => step \in 1..Len(Event)) /\ data \in Contents(Stmts)
        /\ after \in {"more", "event"} /\ Len(Event) \in Nat /\ Len(Event) >= 2
    BY <1>2, EventStatements DEF RunScript, WorkerInv, WorkerPoints, OltpTypeOK, TrxInv
  <2>2. pc = "event" => /\ Event[step] \in Stmts
                        /\ Kind[Event[step]] \in {"read", "write", "other", "call"}
    BY StepStatements DEF WorkerInv, WorkerPoints
  <2>3. /\ pc = "event" /\ step > 1 /\ link = "open" => data.trx = SubSeq(Event, 1, step - 1)
        /\ pc = "check_error" /\ waiting = "no" /\ con.error = "NONE" =>
             IF step < Len(Event) THEN link = "open" => data.trx = SubSeq(Event, 1, step)
                                  ELSE data.kept = Event
        /\ pc = "executed" => data.kept = Event
        /\ waiting = "reconnect" => pc = "reconnecting"
    BY <2>1 DEF WorkerInv, TrxInv, EventsWhole, WaitInv
  <2>4. CASE Connect
    <3>1. data' = data /\ pc' \in {"failed", "prepare"}
      BY <2>4 DEF Connect, DbConnect, Goto
    <3> QED
      BY <2>1, <3>1 DEF TrxInv, EventsWhole
  <2>5. CASE Prepare
    <3>1. data' = data /\ (pc' \in {"failed", "prepare", "more"} \/ (pc' = "event" /\ step' = 1))
      BY <2>1, <2>5 DEF Prepare, DbPrepare
    <3> QED
      BY <2>1, <3>1 DEF TrxInv, EventsWhole
  <2>6. CASE MoreEvents \/ NoMoreEvents \/ Fatal
    <3>1. data' = data /\ (pc' \in {"failed", "thread_done"} \/ (pc' = "event" /\ step' = 1))
      BY <2>6 DEF MoreEvents, NoMoreEvents, Fatal, Goto, dbVars
    <3> QED
      BY <2>1, <3>1 DEF TrxInv, EventsWhole
  <2>7. CASE NextStatement
    BY <2>1, <2>3, <2>7 DEF NextStatement, Goto, dbVars, TrxInv, EventsWhole
  <2>8. CASE Prepared
    <3>1. data' = data /\ pc' \in {"failed", "prepare"}
      BY <2>8 DEF Prepared, Goto, dbVars
    <3> QED
      BY <2>1, <3>1 DEF TrxInv, EventsWhole
  <2>9. CASE Execute
    <3>1. /\ pc = "event" /\ pc' = "check_error" /\ step' = step
          /\ DbExecute(Event[step], Kind[Event[step]], Effect(Event[step]))
      BY <2>9 DEF Execute
    <3>2. CASE waiting' = "crashed" /\ data' = data
      BY <2>1, <3>1, <3>2 DEF TrxInv, EventsWhole
    <3>3. CASE Run(Event[step], Kind[Event[step]], Effect(Event[step]))
      <4> DEFINE done == Effect(Event[step])
      <4>1. done \in Contents(Stmts)
        BY <2>1, <3>1, EffectTypes
      <4>2. /\ data' \in Contents(Stmts)
            /\ waiting' = "no" /\ con'.error = "NONE" => link = "open" /\ data' = done
        BY <2>1, <2>2, <3>1, <3>3, <4>1, RunOutcome
      <4>3. link = "open" /\ step < Len(Event) => done.trx = SubSeq(Event, 1, step)
        <5>1. CASE step = 1
          BY <2>1, <3>1, <5>1, EffectTypes, EventParts
        <5>2. CASE step # 1
          <6>1. ASSUME link = "open", step < Len(Event)
                PROVE  done.trx = SubSeq(Event, 1, step)
            <7>1. step > 1 /\ step \in 2..Len(Event)
              BY <2>1, <3>1, <5>2
            <7>2. data.trx = SubSeq(Event, 1, step - 1)
              BY <2>3, <3>1, <6>1, <7>1
            <7>3. done.trx = Append(data.trx, Event[step])
              BY <2>1, <3>1, <6>1, <7>1, EffectTypes
            <7> QED
              BY <7>1, <7>2, <7>3, EventParts
          <6> QED
            BY <6>1
        <5> QED
          BY <5>1, <5>2
      <4>4. link = "open" /\ step = Len(Event) => done.kept = Event
        <5>1. ASSUME link = "open", step = Len(Event)
              PROVE  done.kept = Event
          <6>1. step > 1 /\ step \in 2..Len(Event)
            BY <2>1, <3>1, <5>1
          <6>2. data.trx = SubSeq(Event, 1, step - 1)
            BY <2>3, <3>1, <5>1, <6>1
          <6>3. done.kept = Append(data.trx, Event[step])
            BY <2>1, <3>1, <5>1, EffectTypes
          <6>4. SubSeq(Event, 1, step) = Append(SubSeq(Event, 1, step - 1), Event[step])
            BY <6>1, EventParts
          <6>5. SubSeq(Event, 1, step) = Event
            BY <5>1, EventParts
          <6> QED
            BY <6>2, <6>3, <6>4, <6>5
        <5> QED
          BY <5>1
      <4> HIDE DEF done
      <4> QED
        BY <2>1, <3>1, <4>2, <4>3, <4>4 DEF TrxInv, EventsWhole
    <3> QED
      BY <3>1, <3>2, <3>3 DEF DbExecute, LostWithoutState, Crash
  <2>10. CASE Restart
    <3>1. data' = data /\ (pc' = "prepare" \/ (pc' = "event" /\ step' = 1))
      BY <2>10 DEF Restart, DbClose, Goto, dbVars
    <3> QED
      BY <2>1, <3>1 DEF TrxInv, EventsWhole
  <2>11. CASE CheckReconnect \/ CloseStatements
    <3>1. data' = data /\ pc' \in {"reconnect", "more", "disconnect"}
      BY <2>11 DEF CheckReconnect, CloseStatements, DbClose, Goto, dbVars
    <3> QED
      BY <2>1, <3>1 DEF TrxInv, EventsWhole
  <2>12. CASE Reconnect \/ Disconnect
    <3>1. data' \in Contents(Stmts) /\ pc' \in {"reconnecting", "done"}
      BY <2>1, <2>12, DropData DEF Reconnect, Disconnect, DbReconnect, DbDisconnect, Goto
    <3> QED
      BY <2>1, <3>1 DEF TrxInv, EventsWhole
  <2>13. CASE RaiseError \/ (OthersFail /\ UNCHANGED oltpVars)
    <3>1. UNCHANGED <<oltpVars, data, con, waiting, link>>
      BY <2>13 DEF RaiseError, OthersFail
    <3> QED
      BY <1>0, <2>1, <2>3, <3>1 DEF TrxInv, EventsWhole, oltpVars
  <2>14. CASE Drop /\ UNCHANGED oltpVars
    <3>1. UNCHANGED <<oltpVars, con, waiting>> /\ link' = "dropped" /\ data' = Undone
      BY <2>14 DEF Drop
    <3>2. data' \in Contents(Stmts) /\ data'.kept = data.kept
      BY <2>1, <3>1, DropData
    <3> QED
      BY <1>0, <2>1, <2>3, <3>1, <3>2 DEF TrxInv, EventsWhole, oltpVars
  <2>15. CASE (Reconnected \/ GiveUp) /\ UNCHANGED oltpVars
    <3>1. /\ UNCHANGED <<oltpVars, data>>
          /\ waiting = "statement" => con'.error # "NONE"
          /\ waiting \in {"statement", "reconnect"}
      BY <2>15 DEF Reconnected, GiveUp, ConInv, ConTypeOK
    <3>2. pc # "event" /\ (pc = "check_error" => con'.error # "NONE")
      BY <2>1, <2>3, <3>1 DEF WorkerInv, WaitInv
    <3> QED
      BY <1>0, <2>1, <2>3, <3>1, <3>2 DEF TrxInv, EventsWhole, oltpVars
  <2> QED
    BY <1>2, <2>4, <2>5, <2>6, <2>7, <2>8, <2>9, <2>10, <2>11, <2>12, <2>13, <2>14, <2>15
    DEF RunScript, OltpNext, WorkerStep
<1>3. CASE script # "run"
  BY <1>0, <1>3 DEF TrxInv
<1> QED
  BY <1>0, <1>1, <1>2, <1>3
  DEF Next, PrepareScript, OwnScript, StartThreads, vars, dbVars

-----------------------------------------------------------------------------
(* A driver that is initialised has a place to go on from. *)
PositionsInv ==
  /\ DriverTypeOK
  /\ initialized => hosts_pos \in 1..lists.hosts /\ ports_pos \in 1..lists.ports
  /\ ~initialized => handedOut = <<>>
  /\ \A t \in Starters : starting[t] \notin {"create", "failed"} => initialized
  /\ handedOut \in Seq(Nat \X Nat)
  /\ \A k \in DOMAIN handedOut : handedOut[k] \in Places

(* The places the current round has been at already. *)
Behind(place) ==
  IF lists.sockets > 0
  THEN place[2] <= sockets_pos
  ELSE place[1] < hosts_pos \/ (place[1] = hosts_pos /\ place[2] < ports_pos)

(* They have been used once more than those that are still to come. *)
RoundInv ==
  \E rounds \in Nat : \A place \in Places :
    Uses(place) = IF Behind(place) THEN rounds + 1 ELSE rounds

(* The lists of a command line. *)
LEMMA ListsTypes ==
  ASSUME DriverTypeOK
  PROVE  lists.hosts \in Nat /\ lists.ports \in Nat /\ lists.sockets \in Nat
  BY DriverAssumption DEF DriverTypeOK

(* A connection uses its place once. *)
LEMMA UsesAppend ==
  ASSUME handedOut \in Seq(Nat \X Nat), NEW taken \in Nat \X Nat,
         handedOut' = Append(handedOut, taken), NEW place
  PROVE  /\ Uses(place) \in Nat
         /\ Uses(place)' = IF place = taken THEN Uses(place) + 1 ELSE Uses(place)
<1> DEFINE n == Len(handedOut)
           A == {k \in DOMAIN handedOut : handedOut[k] = place}
           B == {k \in DOMAIN handedOut' : handedOut'[k] = place}
<1>1. /\ n \in Nat /\ DOMAIN handedOut = 1..n /\ DOMAIN handedOut' = 1..(n + 1)
      /\ handedOut'[n + 1] = taken /\ \A k \in 1..n : handedOut'[k] = handedOut[k]
  OBVIOUS
<1>2. IsFiniteSet(A) /\ Cardinality(A) \in Nat
  <2>1. A \subseteq 1..n
    BY <1>1
  <2>2. IsFiniteSet(1..n)
    BY <1>1, FS_Interval
  <2> QED
    BY <2>1, <2>2, FS_Subset, FS_CardinalityType
<1>3. CASE place = taken
  <2>1. B = A \cup {n + 1} /\ n + 1 \notin A
    BY <1>1, <1>3
  <2>2. Cardinality(B) = Cardinality(A) + 1
    BY <1>2, <2>1, FS_AddElement
  <2> QED
    BY <1>2, <1>3, <2>2 DEF Uses
<1>4. CASE place # taken
  <2>1. B = A
    BY <1>1, <1>4
  <2> QED
    BY <1>2, <1>4, <2>1 DEF Uses
<1> QED
  BY <1>3, <1>4

(* The lists are circular, their heads are skipped. *)
LEMMA PositionsStep ==
  ASSUME PositionsInv, [Next]_vars
  PROVE  PositionsInv'
<1>0. lists.hosts \in Nat /\ lists.ports \in Nat /\ lists.sockets \in Nat
  BY ListsTypes DEF PositionsInv
<1>1. CASE UNCHANGED driverVars
  BY <1>1 DEF driverVars, positions, PositionsInv, DriverTypeOK, Places
<1>2. ASSUME NEW t \in Starters, CreateDriver(t)
      PROVE  PositionsInv'
  <2>1. CASE initialized
    BY <1>0, <1>2, <2>1 DEF CreateDriver, StartingAt, positions, PositionsInv, DriverTypeOK, Places
  <2>2. CASE ~initialized
    BY <1>0, <1>2, <2>2 DEF CreateDriver, StartingAt, positions, PositionsInv, DriverTypeOK, Places
  <2> QED
    BY <2>1, <2>2
<1>3. ASSUME NEW t \in Starters, ThreadInit(t) \/ RealConnect(t) \/ ConnectAgain(t)
      PROVE  PositionsInv'
  BY <1>3 DEF ThreadInit, RealConnect, ConnectAgain, StartingAt, positions, PositionsInv, DriverTypeOK, Places
<1>4. ASSUME NEW t \in Starters, TakeHost(t)
      PROVE  PositionsInv'
  <2> DEFINE taken == <<hosts_pos, ports_pos>>
  <2>1. /\ handedOut' = Append(handedOut, taken) /\ handedOut \in Seq(Nat \X Nat)
        /\ UNCHANGED <<lists, initialized, sockets_pos>>
        /\ starting' = [starting EXCEPT ![t] = "connecting"] /\ starting[t] = "connect"
        /\ ports_pos' = NextOrFirst(ports_pos, lists.ports)
        /\ hosts_pos' \in {hosts_pos, NextOrFirst(hosts_pos, lists.hosts)}
        /\ ~(lists.sockets > 0)
    BY <1>0, <1>4 DEF TakeHost, StartingAt, PositionsInv
  <2>2. initialized /\ hosts_pos \in 1..lists.hosts /\ ports_pos \in 1..lists.ports
    BY <2>1 DEF PositionsInv
  <2>3. taken \in Places /\ taken \in Nat \X Nat
    BY <1>0, <2>1, <2>2 DEF Places
  <2> HIDE DEF taken
  <2>4. handedOut' \in Seq(Nat \X Nat) /\ \A k \in DOMAIN handedOut' : handedOut'[k] \in Places
    BY <2>1, <2>3 DEF PositionsInv
  <2>5. Places' = Places
    BY <2>1 DEF Places
  <2>6. hosts_pos' \in 1..lists.hosts /\ ports_pos' \in 1..lists.ports
    BY <1>0, <2>1, <2>2 DEF NextOrFirst
  <2>7. starting' \in [Starters -> {"create", "thread_init", "connect", "connecting",
                                "connected", "failed"}]
    BY <2>1 DEF PositionsInv, DriverTypeOK
  <2>8. DriverTypeOK'
    BY <1>0, <2>1, <2>6, <2>7 DEF PositionsInv, DriverTypeOK
  <2> QED
    BY <2>1, <2>2, <2>4, <2>5, <2>6, <2>8 DEF PositionsInv
<1>5. ASSUME NEW t \in Starters, TakeSocket(t)
      PROVE  PositionsInv'
  <2> DEFINE taken == <<0, sockets_pos'>>
  <2>1. /\ handedOut' = Append(handedOut, taken) /\ handedOut \in Seq(Nat \X Nat)
        /\ UNCHANGED <<lists, initialized, hosts_pos, ports_pos>>
        /\ starting' = [starting EXCEPT ![t] = "connecting"] /\ starting[t] = "connect"
        /\ sockets_pos' = NextOrFirst(sockets_pos, lists.sockets)
        /\ lists.sockets > 0
    BY <1>0, <1>5 DEF TakeSocket, StartingAt, PositionsInv
  <2>2. initialized
    BY <2>1 DEF PositionsInv
  <2>6. sockets_pos' \in 1..lists.sockets
    BY <1>0, <2>1, <2>2 DEF NextOrFirst, PositionsInv, DriverTypeOK
  <2>3. taken \in Places /\ taken \in Nat \X Nat
    BY <1>0, <2>1, <2>6 DEF Places
  <2> HIDE DEF taken
  <2>4. handedOut' \in Seq(Nat \X Nat) /\ \A k \in DOMAIN handedOut' : handedOut'[k] \in Places
    BY <2>1, <2>3 DEF PositionsInv
  <2>5. Places' = Places
    BY <2>1 DEF Places
  <2>7. starting' \in [Starters -> {"create", "thread_init", "connect", "connecting",
                                "connected", "failed"}]
    BY <2>1 DEF PositionsInv, DriverTypeOK
  <2>8. DriverTypeOK'
    BY <1>0, <2>1, <2>6, <2>7 DEF PositionsInv, DriverTypeOK
  <2> QED
    BY <2>1, <2>2, <2>4, <2>5, <2>6, <2>8 DEF PositionsInv
<1> QED
  BY <1>1, <1>2, <1>3, <1>4, <1>5 DEF Next, StartThreads, DriverNext, vars

(* The rounds are even. *)
LEMMA RoundStep ==
  ASSUME PositionsInv, RoundInv, [Next]_vars
  PROVE  RoundInv'
<1>0. /\ lists.hosts \in Nat /\ lists.ports \in Nat /\ lists.sockets \in Nat
      /\ sockets_pos \in 0..lists.sockets
  BY ListsTypes DEF PositionsInv, DriverTypeOK
<1>1. CASE UNCHANGED <<lists, positions, handedOut>>
  <2>1. Places' = Places /\ \A place : (Behind(place)' <=> Behind(place)) /\ Uses(place)' = Uses(place)
    BY <1>1, Zenon DEF positions, Behind, Places, Uses
  <2>2. PICK m \in Nat : \A place \in Places : Uses(place) = IF Behind(place) THEN m + 1 ELSE m
    BY DEF RoundInv
  <2>3. \A place \in Places' : Uses(place)' = IF Behind(place)' THEN m + 1 ELSE m
    BY <2>1, <2>2
  <2> QED
    BY <2>3 DEF RoundInv
<1>2. ASSUME NEW t \in Starters, CreateDriver(t), ~initialized
      PROVE  RoundInv'
  <2>1. /\ UNCHANGED <<lists, handedOut, sockets_pos>> /\ handedOut = <<>>
        /\ hosts_pos' = IF lists.hosts > 0 THEN 1 ELSE hosts_pos
        /\ ports_pos' = IF lists.hosts > 0 /\ lists.ports > 0 THEN 1 ELSE ports_pos
    BY <1>2 DEF CreateDriver, PositionsInv
  <2>2. \A place : Uses(place) = 0 /\ Uses(place)' = 0
    <3>1. \A place : {k \in DOMAIN handedOut : handedOut[k] = place} = {}
      BY <2>1
    <3> QED
      BY <2>1, <3>1, FS_EmptySet DEF Uses
  <2>3. Places' = Places
    BY <2>1 DEF Places
  <2>4. CASE lists.sockets > 0
    <3>1. \A place \in Places : Behind(place)' = Behind(place)
      BY <2>1, <2>4 DEF Behind
    <3> QED
      BY <2>2, <2>3, <3>1 DEF RoundInv
  <2>5. CASE ~(lists.sockets > 0)
    <3>1. \A place \in Places : ~Behind(place)'
      BY <1>0, <2>1, <2>5 DEF Behind, Places
    <3> QED
      BY <2>2, <2>3, <3>1 DEF RoundInv
  <2> QED
    BY <2>4, <2>5
<1>4. ASSUME NEW t \in Starters, TakeHost(t)
      PROVE  RoundInv'
  <2>1. PICK h, p : h = hosts_pos /\ p = ports_pos
    OBVIOUS
  <2>2. /\ handedOut' = Append(handedOut, <<h, p>>) /\ handedOut \in Seq(Nat \X Nat)
        /\ ~(lists.sockets > 0) /\ lists' = lists /\ starting[t] = "connect"
        /\ ports_pos' = NextOrFirst(p, lists.ports)
        /\ hosts_pos' = IF NextItem(p, lists.ports) = 0 THEN NextOrFirst(h, lists.hosts) ELSE h
    BY <1>0, <1>4, <2>1 DEF TakeHost, PositionsInv
  <2>3. h \in 1..lists.hosts /\ p \in 1..lists.ports
    BY <2>1, <2>2 DEF PositionsInv
  <2>4. NextItem(p, lists.ports) = 0 <=> p = lists.ports
    <3>1. p < lists.ports => (p + 1) % (lists.ports + 1) = p + 1
      BY <1>0, <2>3
    <3>2. (lists.ports + 1) % (lists.ports + 1) = 0
      BY <1>0
    <3> QED
      BY <1>0, <2>3, <3>1, <3>2 DEF NextItem
  <2>5. PICK m \in Nat : \A place \in Places : Uses(place) = IF Behind(place) THEN m + 1 ELSE m
    BY DEF RoundInv
  <2>6. Places = (1..lists.hosts) \X (1..lists.ports) /\ Places' = Places
    BY <2>2 DEF Places
  <2>7. \A place \in Places : Uses(place)' = IF place = <<h, p>> THEN Uses(place) + 1 ELSE Uses(place)
    <3>1. <<h, p>> \in Nat \X Nat
      BY <1>0, <2>3
    <3> QED
      BY <2>2, <3>1, UsesAppend
  <2>8. ASSUME NEW a \in 1..lists.hosts, NEW b \in 1..lists.ports
        PROVE  /\ Behind(<<a, b>>) <=> (a < h \/ (a = h /\ b < p))
               /\ Behind(<<a, b>>)' <=> (a < hosts_pos' \/ (a = hosts_pos' /\ b < ports_pos'))
               /\ <<a, b>> = <<h, p>> <=> a = h /\ b = p
               /\ <<a, b>> \in Places
    BY <2>1, <2>2, <2>6 DEF Behind
  <2>9. CASE p # lists.ports
    <3>1. hosts_pos' = h /\ ports_pos' = p + 1
      BY <2>2, <2>4, <2>9 DEF NextOrFirst
    <3>2. ASSUME NEW a \in 1..lists.hosts, NEW b \in 1..lists.ports
          PROVE  Uses(<<a, b>>)' = IF Behind(<<a, b>>)' THEN m + 1 ELSE m
      BY <1>0, <2>3, <2>5, <2>7, <2>8, <3>1, <3>2
    <3>4. \A place \in Places : Uses(place)' = IF Behind(place)' THEN m + 1 ELSE m
      <4> TAKE place \in Places
      <4>1. PICK a \in 1..lists.hosts, b \in 1..lists.ports : place = <<a, b>>
        BY <2>6
      <4> QED
        BY <3>2, <4>1
    <3> QED
      BY <2>5, <2>6, <3>4 DEF RoundInv
  <2>10. CASE p = lists.ports /\ h # lists.hosts
    <3>1. hosts_pos' = h + 1 /\ ports_pos' = 1
      BY <2>2, <2>4, <2>10 DEF NextOrFirst
    <3>2. ASSUME NEW a \in 1..lists.hosts, NEW b \in 1..lists.ports
          PROVE  Uses(<<a, b>>)' = IF Behind(<<a, b>>)' THEN m + 1 ELSE m
      BY <1>0, <2>3, <2>5, <2>7, <2>8, <2>10, <3>1, <3>2
    <3>4. \A place \in Places : Uses(place)' = IF Behind(place)' THEN m + 1 ELSE m
      <4> TAKE place \in Places
      <4>1. PICK a \in 1..lists.hosts, b \in 1..lists.ports : place = <<a, b>>
        BY <2>6
      <4> QED
        BY <3>2, <4>1
    <3> QED
      BY <2>5, <2>6, <3>4 DEF RoundInv
  <2>11. CASE p = lists.ports /\ h = lists.hosts
    <3>1. hosts_pos' = 1 /\ ports_pos' = 1
      BY <2>2, <2>4, <2>11 DEF NextOrFirst
    <3>2. ASSUME NEW a \in 1..lists.hosts, NEW b \in 1..lists.ports
          PROVE  Uses(<<a, b>>)' = m + 1 /\ ~Behind(<<a, b>>)'
      BY <1>0, <2>3, <2>5, <2>7, <2>8, <2>11, <3>1, <3>2
    <3>3. m + 1 \in Nat
      BY <2>5
    <3>4. \A place \in Places : Uses(place)' = IF Behind(place)' THEN (m + 1) + 1 ELSE m + 1
      <4> TAKE place \in Places
      <4>1. PICK a \in 1..lists.hosts, b \in 1..lists.ports : place = <<a, b>>
        BY <2>6
      <4> QED
        BY <3>2, <4>1
    <3> QED
      BY <2>5, <2>6, <3>3, <3>4 DEF RoundInv
  <2> QED
    BY <2>9, <2>10, <2>11
<1>5. ASSUME NEW t \in Starters, TakeSocket(t)
      PROVE  RoundInv'
  <2>1. PICK s : s = sockets_pos'
    OBVIOUS
  <2>2. /\ handedOut' = Append(handedOut, <<0, s>>) /\ handedOut \in Seq(Nat \X Nat)
        /\ lists.sockets > 0 /\ lists' = lists
        /\ s = NextOrFirst(sockets_pos, lists.sockets)
    BY <1>5, <2>1 DEF TakeSocket, PositionsInv
  <2>3. s \in 1..lists.sockets
    BY <1>0, <2>2 DEF NextOrFirst
  <2>5. PICK m \in Nat : \A place \in Places : Uses(place) = IF Behind(place) THEN m + 1 ELSE m
    BY DEF RoundInv
  <2>6. Places = {0} \X (1..lists.sockets) /\ Places' = Places
    BY <2>2 DEF Places
  <2>7. \A place \in Places : Uses(place)' = IF place = <<0, s>> THEN Uses(place) + 1 ELSE Uses(place)
    <3>1. <<0, s>> \in Nat \X Nat
      BY <1>0, <2>3
    <3> QED
      BY <2>2, <3>1, UsesAppend
  <2>8. ASSUME NEW b \in 1..lists.sockets
        PROVE  /\ Behind(<<0, b>>) <=> b <= sockets_pos
               /\ Behind(<<0, b>>)' <=> b <= s
               /\ <<0, b>> = <<0, s>> <=> b = s
               /\ <<0, b>> \in Places
    BY <2>1, <2>2, <2>6 DEF Behind
  <2>9. CASE sockets_pos # lists.sockets
    <3>1. s = sockets_pos + 1
      BY <2>2, <2>9 DEF NextOrFirst
    <3>2. ASSUME NEW b \in 1..lists.sockets
          PROVE  Uses(<<0, b>>)' = IF Behind(<<0, b>>)' THEN m + 1 ELSE m
      BY <1>0, <2>3, <2>5, <2>7, <2>8, <3>1, <3>2
    <3> QED
      BY <2>6, <3>2 DEF RoundInv
  <2>10. CASE sockets_pos = lists.sockets
    <3>1. s = 1
      BY <2>2, <2>10 DEF NextOrFirst
    <3>2. ASSUME NEW b \in 1..lists.sockets
          PROVE  Uses(<<0, b>>)' = IF Behind(<<0, b>>)' THEN (m + 1) + 1 ELSE m + 1
      BY <1>0, <2>3, <2>5, <2>7, <2>8, <2>10, <3>1, <3>2
    <3>3. m + 1 \in Nat
      BY <2>5
    <3> QED
      BY <2>6, <3>2, <3>3 DEF RoundInv
  <2> QED
    BY <2>9, <2>10
<1>6. ASSUME NEW t \in Starters,
             ThreadInit(t) \/ RealConnect(t) \/ ConnectAgain(t) \/ (CreateDriver(t) /\ initialized)
      PROVE  RoundInv'
  <2>1. UNCHANGED <<lists, positions, handedOut>>
    BY <1>6 DEF ThreadInit, RealConnect, ConnectAgain, CreateDriver
  <2> QED
    BY <1>1, <2>1
<1> QED
  BY <1>1, <1>2, <1>4, <1>5, <1>6 DEF Next, StartThreads, DriverNext, vars, driverVars

(* Even rounds are what ConnectionsSpread promises. *)
LEMMA SpreadFollows ==
  ASSUME PositionsInv, RoundInv
  PROVE  ConnectionsSpread
<1>1. PICK m \in Nat : \A place \in Places : Uses(place) = IF Behind(place) THEN m + 1 ELSE m
  BY DEF RoundInv
<1>2. \A p \in Places : Uses(p) \in {m, m + 1}
  BY <1>1
<1> QED
  BY <1>1, <1>2 DEF ConnectionsSpread, PositionsInv

-----------------------------------------------------------------------------
(* The rows of the tables before the one that is being filled. *)
Before == (table - 1) * TableSize

Idle == {"connect", "create", "created", "init"}
Flushing == {"insert", "inserted", "commit", "committed"}
Full == {"free", "index", "indexed", "end"}

(* Where the loader is, and what it has in its buffer. *)
BulkPoints ==
  /\ BulkTypeOK
  /\ buffer \in Seq(Nat)
  /\ at \in Idle => given = Before
  /\ at \in Flushing \cup {"next", "append"} => given \in Before..Before + TableSize
  /\ at \in Full => given = Before + TableSize
  /\ at \in Flushing =>
       IF flushFor = "free" THEN given = Before + TableSize
                            ELSE given < Before + TableSize /\ row \in RowLens
  /\ at = "append" => /\ given < Before + TableSize /\ row \in RowLens
                      /\ buffer = <<>> /\ bulkPtr = Header
  /\ at \in {"next", "insert", "inserted", "append"} => commitCnt + Len(buffer) <= given - Before
  /\ at \in {"commit", "committed"} => commitCnt <= given - Before
  /\ at \in Flushing \cup {"next"} =>
       /\ Len(buffer) <= given
       /\ \A i \in 1..Len(buffer) : buffer[i] = (given - Len(buffer)) + i
  /\ script # "prepare" => at = "connect"

FirstRows(k) == [i \in 1..k |-> i]
Delivered == data.kept \o data.trx
Fine == waiting = "no" /\ con.error = "NONE"

(* What is on the server of the rows: never more than the first so many, and
   all of those that have left the buffer unless a session is gone, which the
   next statement will notice. *)
BooksInv ==
  script = "prepare" =>
    /\ data \in Contents(Nat) /\ waiting # "reconnect"
    /\ waiting = "statement" => at \in {"created", "inserted", "committed", "indexed"}
    /\ at = "connect" => data.kept = <<>> /\ data.trx = <<>> /\ given = 0
    /\ Delivered = FirstRows(Len(Delivered)) /\ Len(Delivered) <= given
    /\ ~NeedsCommit => data.trx = <<>>
    /\ at \in (Idle \cup Full) \ {"connect"} \/ (at = "next" /\ buffer = <<>>) \/ (at = "committed" /\ Fine)
         => data.trx = <<>> /\ data.kept = FirstRows(given)
    /\ at \in {"next", "insert", "append"} /\ (link = "open" \/ ~NeedsCommit)
         => Delivered = FirstRows(given - Len(buffer))
    /\ at = "inserted" /\ Fine /\ (link = "open" \/ ~NeedsCommit) => Delivered = FirstRows(given)
    /\ at = "commit" => NeedsCommit
    /\ at = "commit" /\ link = "open" => Delivered = FirstRows(given)

(* Rows that wait for a COMMIT are counted. *)
CommitInv ==
  script = "prepare" =>
    /\ at \in {"next", "insert", "append"} => Len(data.trx) <= commitCnt
    /\ at \in {"next", "insert", "inserted", "append"} => commitCnt < RowsBeforeCommit
    /\ at = "inserted" /\ Fine /\ NeedsCommit => Len(data.trx) <= commitCnt + Len(buffer)

-----------------------------------------------------------------------------
(* The first so many rows, taken apart and put together. *)
LEMMA FirstRowsTypes ==
  ASSUME NEW k \in Nat
  PROVE  /\ FirstRows(k) \in Seq(Nat) /\ Len(FirstRows(k)) = k
         /\ \A i \in 1..k : FirstRows(k)[i] = i
  BY DEF FirstRows

(* Rows in their order from the first one on. *)
LEMMA FirstRowsEqual ==
  ASSUME NEW s \in Seq(Nat), \A i \in 1..Len(s) : s[i] = i
  PROVE  s = FirstRows(Len(s))
<1>1. DOMAIN s = 1..Len(s) /\ s = [i \in DOMAIN s |-> s[i]]
  OBVIOUS
<1> QED
  BY <1>1 DEF FirstRows

LEMMA FirstRowsPrefix ==
  ASSUME NEW s \in Seq(Nat), NEW t \in Seq(Nat), NEW k \in Nat, s \o t = FirstRows(k)
  PROVE  s = FirstRows(Len(s)) /\ Len(s) + Len(t) = k
<1>1. Len(s) \in Nat /\ Len(t) \in Nat /\ Len(s \o t) = Len(s) + Len(t)
      /\ \A i \in 1..Len(s) : (s \o t)[i] = s[i]
  OBVIOUS
<1>2. Len(s) + Len(t) = k
  BY <1>1, FirstRowsTypes
<1>3. ASSUME NEW i \in 1..Len(s)
      PROVE  s[i] = i
  <2>1. i \in 1..k
    BY <1>1, <1>2
  <2>2. FirstRows(k)[i] = i
    BY <2>1, FirstRowsTypes
  <2> QED
    BY <1>1, <2>2
<1> QED
  BY <1>2, <1>3, FirstRowsEqual

LEMMA FirstRowsConcat ==
  ASSUME NEW s \in Seq(Nat), NEW t \in Seq(Nat), s = FirstRows(Len(s)),
         \A i \in 1..Len(t) : t[i] = Len(s) + i
  PROVE  s \o t = FirstRows(Len(s) + Len(t)) /\ s \o t \in Seq(Nat)
<1>1. /\ Len(s) \in Nat /\ Len(t) \in Nat /\ s \o t \in Seq(Nat) /\ Len(s \o t) = Len(s) + Len(t)
      /\ \A i \in 1..Len(s) : (s \o t)[i] = s[i]
      /\ \A i \in Len(s) + 1..Len(s) + Len(t) : (s \o t)[i] = t[i - Len(s)]
  OBVIOUS
<1>2. \A i \in 1..Len(s) : s[i] = i
  BY <1>1, FirstRowsTypes
<1>3. ASSUME NEW i \in 1..Len(s \o t)
      PROVE  (s \o t)[i] = i
  <2>1. CASE i <= Len(s)
    BY <1>1, <1>2, <2>1
  <2>2. CASE i > Len(s)
    <3>1. i \in Len(s) + 1..Len(s) + Len(t) /\ i - Len(s) \in 1..Len(t)
      BY <1>1, <2>2
    <3>2. t[i - Len(s)] = Len(s) + (i - Len(s))
      BY <3>1
    <3> QED
      BY <1>1, <3>1, <3>2
  <2> QED
    BY <1>1, <2>1, <2>2
<1> QED
  BY <1>1, <1>3, FirstRowsEqual

LEMMA RowsAssociate ==
  ASSUME NEW s \in Seq(Nat), NEW t \in Seq(Nat), NEW u \in Seq(Nat)
  PROVE  s \o (t \o u) = (s \o t) \o u
  BY ConcatAssociative

LEMMA FirstRowsEmpty ==
  ASSUME NEW s \in Seq(Nat)
  PROVE  s \o <<>> = s
  OBVIOUS

-----------------------------------------------------------------------------
(* The rows of one more table. *)
LEMMA TableRows ==
  ASSUME table \in 1..Tables
  PROVE  /\ Before \in Nat /\ table * TableSize = Before + TableSize
         /\ Before + TableSize <= Tables * TableSize
<1>1. Tables \in Nat /\ TableSize \in Nat /\ table \in Nat /\ table - 1 \in Nat
  BY BulkAssumption
<1>2. \A a, b \in Nat : a * b \in Nat
  OBVIOUS
<1>3. \A a, b \in Nat : (a + 1) * b = a * b + b
  OBVIOUS
<1>4. (table - 1) + 1 = table
  BY <1>1
<1>5. table * TableSize = Before + TableSize
  BY <1>1, <1>3, <1>4 DEF Before
<1>6. Before \in Nat
  BY <1>1, <1>2 DEF Before
<1>7. Tables - table \in Nat /\ table + (Tables - table) = Tables
  BY <1>1
<1>8. \A a, b, c \in Nat : (a + c) * b = a * b + c * b
  OBVIOUS
<1>9. Tables * TableSize = table * TableSize + (Tables - table) * TableSize
  BY <1>1, <1>7, <1>8
<1>10. (Tables - table) * TableSize \in Nat
  BY <1>1, <1>2, <1>7
<1> QED
  BY <1>1, <1>5, <1>6, <1>9, <1>10

(* The loader's places, its counters and its buffer. *)
LEMMA BulkPointsStep ==
  ASSUME BulkPoints, [Next]_vars
  PROVE  BulkPoints'
<1>0. /\ table \in 1..Tables /\ Tables \in Nat /\ Before \in Nat /\ TableSize \in Nat
      /\ table * TableSize = Before + TableSize /\ Before + TableSize <= Tables * TableSize
      /\ Tables * TableSize \in Nat
  BY TableRows, BulkAssumption DEF BulkPoints, BulkTypeOK
<1>1. /\ Header \in Nat /\ RowLens \subseteq Nat /\ BulkPacketSize \in Nat /\ Header < BulkPacketSize
      /\ \A l \in RowLens : Header + l + 1 <= BulkPacketSize
  BY BulkAssumption
<1>2. script' = script
  BY DEF Next, vars
<1>3. CASE UNCHANGED bulkVars
  BY <1>2, <1>3 DEF bulkVars, BulkPoints, BulkTypeOK, Before
<1>4. ASSUME NEW label, Go(label), at \notin {"failed", "end"}, script = "prepare",
             label \in {"create", "created", "init", "inserted", "committed", "index", "indexed", "end", "failed"},
             label \in {"create", "created", "init"} => at \in Idle,
             label = "inserted" => at = "insert",
             label = "committed" => at = "commit",
             label \in {"index", "indexed", "end"} => at \in Full
      PROVE  BulkPoints'
  <2>1. at' = label /\ UNCHANGED <<table, given, row, buffer, bulkPtr, commitCnt, flushFor>>
    BY <1>4 DEF Go
  <2>2. Before' = Before
    BY <2>1 DEF Before
  <2>3. BulkTypeOK'
    BY <1>4, <2>1 DEF BulkPoints, BulkTypeOK
  <2>4. CASE label \in {"create", "created", "init"}
    BY <1>2, <1>4, <2>1, <2>2, <2>3, <2>4 DEF BulkPoints, Idle, Full, Flushing
  <2>5. CASE label \in {"indexed", "end", "index", "failed"}
    BY <1>2, <1>4, <2>1, <2>2, <2>3, <2>5 DEF BulkPoints, Idle, Full, Flushing
  <2>6. CASE label = "inserted"
    BY <1>2, <1>4, <2>1, <2>2, <2>3, <2>6 DEF BulkPoints, Idle, Full, Flushing
  <2>7. CASE label = "committed"
    BY <1>2, <1>4, <2>1, <2>2, <2>3, <2>7 DEF BulkPoints, Idle, Full, Flushing
  <2> QED
    BY <1>4, <2>4, <2>5, <2>6, <2>7
<1>5. ASSUME NEW length \in RowLens, Store(length), script = "prepare", row' \in RowLens,
             given < Before + TableSize, at \in {"next", "append"},
             bulkPtr + length + Comma < BulkPacketSize
      PROVE  BulkPoints'
  <2> DEFINE n == Len(buffer)
  <2>1. /\ buffer \in Seq(Nat) /\ n \in Nat /\ given \in Nat /\ given >= Before /\ n <= given
        /\ commitCnt \in Nat /\ commitCnt + n <= given - Before /\ bulkPtr \in Nat
        /\ \A i \in 1..n : buffer[i] = (given - n) + i
        /\ given <= Tables * TableSize
    BY <1>0, <1>5 DEF BulkPoints, BulkTypeOK, Flushing
  <2>2. /\ at' = "next" /\ given' = given + 1 /\ buffer' = Append(buffer, given + 1)
        /\ bulkPtr' = bulkPtr + length + Comma /\ UNCHANGED <<table, commitCnt, flushFor>>
    BY <1>5 DEF Store
  <2>3. /\ buffer' \in Seq(Nat) /\ Len(buffer') = n + 1
        /\ \A i \in 1..n : buffer'[i] = buffer[i]
        /\ buffer'[n + 1] = given + 1
    BY <2>1, <2>2
  <2>4. ASSUME NEW i \in 1..n + 1
        PROVE  buffer'[i] = ((given + 1) - (n + 1)) + i
    <3>1. CASE i = n + 1
      BY <2>1, <2>3, <3>1
    <3>2. CASE i # n + 1
      <4>1. i \in 1..n
        BY <2>1, <3>2
      <4>2. buffer'[i] = (given - n) + i
        BY <2>1, <2>3, <4>1
      <4> QED
        BY <2>1, <4>1, <4>2
    <3> QED
      BY <3>1, <3>2
  <2>5. Before' = Before
    BY <2>2 DEF Before
  <2>6. commitCnt + (n + 1) <= (given + 1) - Before /\ given + 1 \in Before..Before + TableSize
        /\ n + 1 <= given + 1
    BY <1>0, <1>5, <2>1
  <2>7. bulkPtr' \in 0..BulkPacketSize - 1
    BY <1>1, <1>5, <2>1, <2>2 DEF Comma
  <2>8. given' \in 0..Tables * TableSize
    BY <1>0, <1>5, <2>1, <2>2
  <2>9. BulkTypeOK'
    BY <1>5, <2>2, <2>7, <2>8 DEF BulkPoints, BulkTypeOK
  <2> HIDE DEF n
  <2> QED
    BY <1>2, <1>5, <2>2, <2>3, <2>4, <2>5, <2>6, <2>9 DEF BulkPoints, Idle, Full, Flushing
<1>6. CASE PrepareScript
  <2>0. script = "prepare"
    BY <1>6 DEF PrepareScript
  <2>1. CASE ConnectLoader \/ CreateTable \/ TableCreated \/ Insert \/ Commit \/ CreateIndex
    BY <1>4, <2>0, <2>1
    DEF ConnectLoader, CreateTable, TableCreated, Outcome, Insert, Commit, CreateIndex, Idle, Full
  <2>2. CASE InitBulk
    <3>1. CASE Go("failed")
      BY <1>4, <2>0, <2>2, <3>1 DEF InitBulk
    <3>2. CASE /\ at' = "next" /\ buffer' = <<>> /\ bulkPtr' = Header /\ commitCnt' = 0
               /\ UNCHANGED <<table, given, row, flushFor>>
      <4>1. Before' = Before /\ given = Before
        BY <2>2, <3>2 DEF Before, InitBulk, BulkPoints, Idle
      <4>2. Len(buffer') = 0 /\ buffer' \in Seq(Nat)
        BY <3>2
      <4> QED
        BY <1>0, <1>1, <1>2, <2>0, <3>2, <4>1, <4>2 DEF BulkPoints, BulkTypeOK, Idle, Full, Flushing
    <3> QED
      BY <2>2, <3>1, <3>2 DEF InitBulk
  <2>3. CASE BulkNext
    <3>1. PICK length \in RowLens :
            /\ row' = length
            /\ IF Fits(length)
               THEN Store(length)
               ELSE /\ at' = "insert" /\ flushFor' = "append"
                    /\ UNCHANGED <<table, given, buffer, bulkPtr, commitCnt>>
      BY <2>3 DEF BulkNext
    <3>2. at = "next" /\ given < Before + TableSize
      BY <1>0, <2>3 DEF BulkNext
    <3>3. CASE Fits(length)
      <4>1. bulkPtr + length + Comma < BulkPacketSize
        BY <1>1, <3>3 DEF Fits, Comma, BulkPoints, BulkTypeOK
      <4> QED
        BY <1>5, <2>0, <3>1, <3>2, <3>3, <4>1
    <3>4. CASE ~Fits(length)
      <4>1. Before' = Before
        BY <3>1, <3>4 DEF Before
      <4> QED
        BY <1>2, <2>0, <3>1, <3>2, <3>4, <4>1 DEF BulkPoints, BulkTypeOK, Idle, Full, Flushing
    <3> QED
      BY <3>3, <3>4
  <2>4. CASE AppendRow
    <3>1. /\ at = "append" /\ Store(row) /\ row' = row /\ row \in RowLens
          /\ given < Before + TableSize /\ buffer = <<>> /\ bulkPtr = Header
      BY <2>4 DEF AppendRow, BulkPoints
    <3>2. bulkPtr + row + Comma < BulkPacketSize
      BY <1>1, <3>1 DEF Comma
    <3>3. PICK length \in RowLens : length = row
      BY <3>1
    <3>4. Store(length) /\ bulkPtr + length + Comma < BulkPacketSize /\ row' \in RowLens
      BY <3>1, <3>2, <3>3
    <3> QED
      BY <1>5, <2>0, <3>1, <3>4
  <2>5. CASE BulkDone
    <3>1. /\ at = "next" /\ given = Before + TableSize /\ flushFor' = "free"
          /\ at' = IF buffer = <<>> THEN "free" ELSE "insert"
          /\ UNCHANGED <<table, given, row, buffer, bulkPtr, commitCnt>>
      BY <1>0, <2>5 DEF BulkDone
    <3>2. Before' = Before
      BY <3>1 DEF Before
    <3> QED
      BY <1>2, <2>0, <3>1, <3>2 DEF BulkPoints, BulkTypeOK, Idle, Full, Flushing
  <2>6. CASE Inserted
    <3>0. at = "inserted"
      BY <2>6 DEF Inserted
    <3>1. CASE Go("failed")
      BY <1>4, <2>0, <3>0, <3>1
    <3>2. CASE at' = flushFor /\ Emptied /\ UNCHANGED <<table, given, row, flushFor>>
               /\ commitCnt' \in {commitCnt, commitCnt + Len(buffer)}
      <4>1. Before' = Before /\ buffer' = <<>> /\ bulkPtr' = Header /\ Len(buffer') = 0 /\ buffer' \in Seq(Nat)
        BY <3>2 DEF Before, Emptied
      <4>2. commitCnt + Len(buffer) <= given - Before /\ given \in Before..Before + TableSize
            /\ commitCnt \in Nat /\ Len(buffer) \in Nat
        BY <3>0 DEF BulkPoints, BulkTypeOK, Flushing
      <4>3. commitCnt' <= given - Before /\ commitCnt' \in 0..TableSize
        BY <1>0, <3>2, <4>2
      <4>4. flushFor \in {"append", "free"}
            /\ (flushFor = "free" => given = Before + TableSize)
            /\ (flushFor = "append" => given < Before + TableSize /\ row \in RowLens)
        BY <3>0 DEF BulkPoints, BulkTypeOK, Flushing
      <4>5. BulkTypeOK'
        BY <1>1, <3>2, <4>1, <4>3, <4>4 DEF BulkPoints, BulkTypeOK
      <4> QED
        <5>1. CASE flushFor = "free"
          BY <1>2, <2>0, <3>2, <4>1, <4>4, <4>5, <5>1 DEF BulkPoints, Idle, Full, Flushing
        <5>2. CASE flushFor = "append"
          <6>1. commitCnt' + Len(buffer') <= given - Before /\ given \in Before..Before + TableSize
            <7>1. Len(buffer') = 0
              BY <4>1
            <7>2. commitCnt' \in Int /\ commitCnt' <= given - Before
              BY <1>0, <4>3
            <7> QED
              BY <4>2, <7>1, <7>2
          <6>2. at' = "append" /\ given' = given /\ row' = row
            BY <3>2, <5>2
          <6> QED
            BY <1>2, <2>0, <4>1, <4>4, <4>5, <5>2, <6>1, <6>2 DEF BulkPoints, Idle, Full, Flushing
        <5> QED
          BY <4>4, <5>1, <5>2
    <3>3. CASE /\ commitCnt' = commitCnt + Len(buffer) /\ at' = "commit"
               /\ UNCHANGED <<buffer, bulkPtr, table, given, row, flushFor>>
      <4>1. Before' = Before
        BY <3>3 DEF Before
      <4>2. commitCnt + Len(buffer) <= given - Before /\ given \in Before..Before + TableSize
            /\ commitCnt \in Nat /\ Len(buffer) \in Nat
        BY <3>0 DEF BulkPoints, BulkTypeOK, Flushing
      <4>3. commitCnt' <= given - Before /\ commitCnt' \in 0..TableSize
        BY <1>0, <3>3, <4>2
      <4>4. BulkTypeOK'
        BY <3>3, <4>3 DEF BulkPoints, BulkTypeOK
      <4> QED
        BY <1>2, <2>0, <3>0, <3>3, <4>1, <4>3, <4>4 DEF BulkPoints, Idle, Full, Flushing
    <3> QED
      BY <2>6, <3>1, <3>2, <3>3 DEF Inserted
  <2>7. CASE Committed
    <3>0. at = "committed"
      BY <2>7 DEF Committed
    <3>1. CASE Go("failed")
      BY <1>4, <2>0, <3>0, <3>1
    <3>2. CASE at' = flushFor /\ Emptied /\ commitCnt' = 0 /\ UNCHANGED <<table, given, row, flushFor>>
      <4>1. Before' = Before /\ buffer' = <<>> /\ bulkPtr' = Header /\ Len(buffer') = 0 /\ buffer' \in Seq(Nat)
        BY <3>2 DEF Before, Emptied
      <4>4. flushFor \in {"append", "free"} /\ given \in Before..Before + TableSize
            /\ (flushFor = "free" => given = Before + TableSize)
            /\ (flushFor = "append" => given < Before + TableSize /\ row \in RowLens)
        BY <3>0 DEF BulkPoints, BulkTypeOK, Flushing
      <4>5. BulkTypeOK'
        BY <1>0, <1>1, <3>2, <4>1, <4>4 DEF BulkPoints, BulkTypeOK
      <4> QED
        BY <1>0, <1>2, <2>0, <3>2, <4>1, <4>4, <4>5 DEF BulkPoints, Idle, Full, Flushing
    <3> QED
      BY <2>7, <3>1, <3>2 DEF Committed
  <2>8. CASE FreeBuffer
    <3>1. /\ at = "free" /\ at' = "index" /\ buffer' = <<>>
          /\ UNCHANGED <<table, given, row, bulkPtr, commitCnt, flushFor>>
      BY <2>8 DEF FreeBuffer
    <3>2. Before' = Before /\ buffer' \in Seq(Nat)
      BY <3>1 DEF Before
    <3> QED
      BY <1>2, <2>0, <3>1, <3>2 DEF BulkPoints, BulkTypeOK, Idle, Full, Flushing
  <2>9. CASE NextTable
    <3>0. at = "indexed"
      BY <2>9 DEF NextTable
    <3>1. CASE Go("end") \/ Go("failed")
      BY <1>4, <2>0, <3>0, <3>1 DEF Full
    <3>2. CASE /\ table < Tables /\ at' = "create" /\ table' = table + 1
               /\ UNCHANGED <<given, row, buffer, bulkPtr, commitCnt, flushFor>>
      <4>1. table' - 1 = table /\ table' \in 1..Tables
        BY <1>0, <3>2
      <4>2. Before' = table * TableSize
        BY <4>1 DEF Before
      <4>3. given = Before + TableSize
        BY <3>0 DEF BulkPoints, Full
      <4> HIDE DEF Before
      <4> QED
        BY <1>0, <1>2, <2>0, <3>2, <4>1, <4>2, <4>3 DEF BulkPoints, BulkTypeOK, Idle, Full, Flushing
    <3> QED
      BY <2>9, <3>1, <3>2 DEF NextTable
  <2>10. CASE UNCHANGED bulkVars
    BY <1>3, <2>10
  <2> QED
    BY <1>6, <2>1, <2>2, <2>3, <2>4, <2>5, <2>6, <2>7, <2>8, <2>9, <2>10
    DEF PrepareScript, LoaderNext, LoaderStep
<1> QED
  BY <1>3, <1>6 DEF Next, RunScript, OwnScript, StartThreads, vars

-----------------------------------------------------------------------------
(* What the loader makes of the answer to a query. *)
LEMMA QueryOutcome ==
  ASSUME ConInv, NEW kind \in {"read", "write", "other", "call"},
         data \in Contents(Nat), NEW done \in Contents(Nat), DbQuery(kind, done)
  PROVE  /\ data' \in Contents(Nat) /\ opt' = opt /\ waiting' # "reconnect"
         /\ \/ Fine' /\ link = "open" /\ link' = "open" /\ data' = done
            \/ /\ ~Fine'
               /\ \/ data' = data
                  \/ data'.trx = <<>> /\ data'.kept \in {data.kept, done.kept}
<1>1. CASE LostWithoutState
  BY <1>1 DEF LostWithoutState, Crash, Fine
<1>2. CASE Run(NoStmt, kind, done)
  <2>1. /\ data' \in Contents(Nat)
        /\ \/ /\ con'.error = "NONE" /\ con'.errno = "none" /\ waiting' = "no"
              /\ link = "open" /\ link' = "open" /\ data' = done
           \/ /\ \/ waiting' = "statement" /\ con'.errno = "lost"
                 \/ waiting' = "no" /\ con'.error # "NONE"
              /\ \/ data' = data
                 \/ data'.trx = <<>> /\ data'.kept \in {data.kept, done.kept}
    BY <1>2, RunOutcome
  <2>2. opt' = opt
    BY <1>2 DEF Run, Receive
  <2> QED
    BY <2>1, <2>2 DEF Fine
<1> QED
  BY <1>1, <1>2 DEF DbQuery

(* The rows of a transaction are the last ones. *)
LEMMA KeptIsPrefix ==
  ASSUME data \in Contents(Nat), Delivered = FirstRows(Len(Delivered))
  PROVE  /\ data.kept \in Seq(Nat) /\ data.trx \in Seq(Nat) /\ Delivered \in Seq(Nat)
         /\ data.kept = FirstRows(Len(data.kept)) /\ Len(data.kept) <= Len(Delivered)
         /\ data.trx = <<>> => Delivered = data.kept
<1>1. data.kept \in Seq(Nat) /\ data.trx \in Seq(Nat)
  BY DEF Contents
<1>2. Delivered \in Seq(Nat) /\ Len(Delivered) \in Nat
  <2>1. \A s, t \in Seq(Nat) : s \o t \in Seq(Nat) /\ Len(s \o t) \in Nat
    OBVIOUS
  <2> QED
    BY <1>1, <2>1 DEF Delivered
<1>3. data.kept = FirstRows(Len(data.kept)) /\ Len(data.kept) + Len(data.trx) = Len(Delivered)
  BY <1>1, <1>2, FirstRowsPrefix DEF Delivered
<1>4. Len(data.kept) \in Nat /\ Len(data.trx) \in Nat
  BY <1>1
<1>5. data.trx = <<>> => Delivered = data.kept
  BY <1>1, FirstRowsEmpty DEF Delivered
<1>6. Len(data.kept) <= Len(Delivered)
  <2>1. \A k, l, m \in Nat : k + l = m => k <= m
    OBVIOUS
  <2> QED
    BY <1>2, <1>3, <1>4, <2>1
<1> QED
  BY <1>1, <1>2, <1>3, <1>5, <1>6

(* The buffer goes on where the server has come to. *)
LEMMA BufferFollows ==
  ASSUME BulkPoints, at \in Flushing \cup {"next"},
         NEW s \in Seq(Nat), s = FirstRows(given - Len(buffer))
  PROVE  /\ s \o buffer = FirstRows(given) /\ s \o buffer \in Seq(Nat)
         /\ Len(s) = given - Len(buffer)
<1>1. /\ buffer \in Seq(Nat) /\ Len(buffer) \in Nat /\ given \in Nat /\ Len(buffer) <= given
      /\ \A i \in 1..Len(buffer) : buffer[i] = (given - Len(buffer)) + i
  BY DEF BulkPoints, BulkTypeOK
<1>2. given - Len(buffer) \in Nat
  BY <1>1
<1>3. Len(s) = given - Len(buffer)
  BY <1>2, FirstRowsTypes
<1>4. s = FirstRows(Len(s)) /\ \A i \in 1..Len(buffer) : buffer[i] = Len(s) + i
  BY <1>1, <1>3
<1>5. s \o buffer = FirstRows(Len(s) + Len(buffer)) /\ s \o buffer \in Seq(Nat)
  BY <1>1, <1>4, FirstRowsConcat
<1>6. Len(s) + Len(buffer) = given
  BY <1>1, <1>3
<1> QED
  BY <1>3, <1>5, <1>6

-----------------------------------------------------------------------------
(* A step that touches neither the server nor the session. *)
LEMMA BooksLocal ==
  ASSUME ConInv, BulkPoints, BulkPoints', BooksInv, script = "prepare", script' = script,
         \/ TableCreated \/ InitBulk \/ BulkNext \/ AppendRow \/ BulkDone \/ Inserted
         \/ Committed \/ FreeBuffer \/ NextTable
  PROVE  BooksInv'
<1> DEFINE n == Len(buffer)
<1>0. /\ UNCHANGED <<data, link, waiting, con, opt>>
      /\ given \in Nat /\ buffer \in Seq(Nat) /\ n \in Nat
  BY DEF TableCreated, Outcome, InitBulk, BulkNext, AppendRow, BulkDone, Inserted, Committed,
         FreeBuffer, NextTable, dbVars, BulkPoints, BulkTypeOK
<1>1. /\ data \in Contents(Nat) /\ waiting # "reconnect"
      /\ waiting = "statement" => at \in {"created", "inserted", "committed", "indexed"}
      /\ Delivered = FirstRows(Len(Delivered)) /\ Len(Delivered) <= given
      /\ ~NeedsCommit => data.trx = <<>>
      /\ at \in (Idle \cup Full) \ {"connect"} \/ (at = "next" /\ buffer = <<>>) \/ (at = "committed" /\ Fine)
           => data.trx = <<>> /\ data.kept = FirstRows(given)
      /\ at \in {"next", "insert", "append"} /\ (link = "open" \/ ~NeedsCommit)
           => Delivered = FirstRows(given - n)
      /\ at = "inserted" /\ Fine /\ (link = "open" \/ ~NeedsCommit) => Delivered = FirstRows(given)
  BY DEF BooksInv
<1>2. /\ data.kept \in Seq(Nat) /\ Len(Delivered) \in Nat
      /\ data.trx = <<>> => Delivered = data.kept
  BY <1>1, KeptIsPrefix
<1>3. Delivered' = Delivered /\ NeedsCommit' = NeedsCommit /\ Fine' = Fine
  BY <1>0 DEF Delivered, NeedsCommit, Fine
<1>4. ASSUME given' = given,
             at' \in (Idle \cup Full \cup {"failed"}) \ {"connect"},
             waiting = "no",
             at' # "failed" => data.trx = <<>> /\ data.kept = FirstRows(given)
      PROVE  BooksInv'
  BY <1>0, <1>1, <1>3, <1>4 DEF BooksInv, Idle, Full
<1>5. waiting = "no" \/ waiting = "crashed" \/ at \in {"created", "inserted", "committed", "indexed"}
  BY <1>1 DEF ConInv, ConTypeOK
<1>6. ASSUME NEW length, Store(length), at \in {"next", "append"}
      PROVE  BooksInv'
  <2>1. at' = "next" /\ given' = given + 1 /\ buffer' = Append(buffer, given + 1)
    BY <1>6 DEF Store
  <2>2. Len(buffer') = n + 1 /\ buffer' # <<>>
    BY <1>0, <2>1
  <2>3. given' - Len(buffer') = given - n /\ Len(Delivered) <= given'
    BY <1>0, <1>1, <1>2, <2>1, <2>2
  <2>4. at' \notin {"created", "inserted", "committed", "indexed"} /\ waiting # "statement"
    BY <1>1, <1>6, <2>1
  <2> HIDE DEF n
  <2> QED
    BY <1>0, <1>1, <1>3, <1>6, <2>1, <2>2, <2>3, <2>4 DEF BooksInv, Idle, Full
<1>7. CASE TableCreated
  <2>1. at = "created" /\ waiting = "no" /\ given' = given /\ at' \in {"init", "failed"}
    BY <1>7 DEF TableCreated, Outcome, Go
  <2> QED
    BY <1>1, <1>4, <2>1 DEF Idle, Full
<1>8. CASE InitBulk
  <2>1. at = "init" /\ given' = given /\ (at' = "failed" \/ (at' = "next" /\ buffer' = <<>>))
    BY <1>8 DEF InitBulk, Go
  <2>2. data.trx = <<>> /\ data.kept = FirstRows(given) /\ waiting # "statement" /\ Delivered = data.kept
    BY <1>1, <1>2, <2>1 DEF Idle
  <2>3. at' = "next" => given' - Len(buffer') = given
    BY <1>0, <2>1
  <2> QED
    BY <1>0, <1>1, <1>3, <2>1, <2>2, <2>3 DEF BooksInv, Idle, Full
<1>9. CASE BulkNext
  <2>1. PICK length \in RowLens :
            /\ row' = length
            /\ IF Fits(length)
               THEN Store(length)
               ELSE /\ at' = "insert" /\ flushFor' = "append"
                    /\ UNCHANGED <<table, given, buffer, bulkPtr, commitCnt>>
    BY <1>9 DEF BulkNext
  <2>2. at = "next"
    BY <1>9 DEF BulkNext
  <2>3. CASE Fits(length)
    BY <1>6, <2>1, <2>2, <2>3
  <2>4. CASE ~Fits(length)
    <3>1. at' = "insert" /\ given' = given /\ buffer' = buffer
      BY <2>1, <2>4
    <3>2. waiting # "statement"
      BY <1>1, <2>2
    <3> QED
      BY <1>0, <1>1, <1>3, <2>2, <3>1, <3>2 DEF BooksInv, Idle, Full
  <2> QED
    BY <2>3, <2>4
<1>10. CASE AppendRow
  BY <1>6, <1>10 DEF AppendRow
<1>11. CASE BulkDone
  <2>1. /\ at = "next" /\ given' = given /\ buffer' = buffer
        /\ at' = IF buffer = <<>> THEN "free" ELSE "insert"
    BY <1>11 DEF BulkDone
  <2>2. waiting # "statement"
    BY <1>1, <2>1
  <2>3. CASE buffer = <<>>
    BY <1>0, <1>1, <1>3, <2>1, <2>2, <2>3 DEF BooksInv, Idle, Full
  <2>4. CASE buffer # <<>>
    BY <1>0, <1>1, <1>3, <2>1, <2>2, <2>4 DEF BooksInv, Idle, Full
  <2> QED
    BY <2>3, <2>4
<1>12. CASE Inserted
  <2>1. at = "inserted" /\ waiting = "no" /\ given' = given
    BY <1>12 DEF Inserted, Go
  <2>2. CASE at' = "failed"
    BY <1>4, <2>1, <2>2
  <2>3. CASE Fine /\ NeedsCommit /\ at' = "commit"
    BY <1>0, <1>1, <1>3, <2>1, <2>3 DEF BooksInv, Idle, Full
  <2>4. CASE Fine /\ at' = "append" /\ buffer' = <<>>
    <3>1. given' - Len(buffer') = given
      BY <1>0, <2>1, <2>4
    <3> QED
      BY <1>0, <1>1, <1>3, <2>1, <2>4, <3>1 DEF BooksInv, Idle, Full
  <2>5. CASE Fine /\ ~NeedsCommit /\ at' = "free"
    <3>1. data.trx = <<>> /\ data.kept = FirstRows(given)
      BY <1>1, <1>2, <2>1, <2>5
    <3> QED
      BY <1>4, <2>1, <2>5, <3>1 DEF Full
  <2>6. flushFor \in {"append", "free"}
    BY DEF BulkPoints, BulkTypeOK
  <2> QED
    BY <1>12, <2>1, <2>2, <2>3, <2>4, <2>5, <2>6 DEF Inserted, Go, Fine, Emptied, CommitDue
<1>13. CASE Committed
  <2>1. at = "committed" /\ waiting = "no" /\ given' = given
    BY <1>13 DEF Committed, Go
  <2>2. CASE at' = "failed"
    BY <1>4, <2>1, <2>2
  <2>3. CASE Fine /\ at' = flushFor /\ buffer' = <<>>
    <3>1. data.trx = <<>> /\ data.kept = FirstRows(given) /\ Delivered = FirstRows(given)
      BY <1>1, <1>2, <2>1, <2>3
    <3>2. given' - Len(buffer') = given
      BY <1>0, <2>1, <2>3
    <3>3. at' \in {"append", "free"}
      BY <2>3 DEF BulkPoints, BulkTypeOK
    <3>4. CASE at' = "free"
      BY <1>4, <2>1, <3>1, <3>4 DEF Full
    <3>5. CASE at' = "append"
      BY <1>0, <1>1, <1>3, <2>1, <3>1, <3>2, <3>5 DEF BooksInv, Idle, Full
    <3> QED
      BY <3>3, <3>4, <3>5
  <2> QED
    BY <1>13, <2>1, <2>2, <2>3 DEF Committed, Go, Fine, Emptied
<1>14. CASE FreeBuffer
  <2>1. at = "free" /\ at' = "index" /\ given' = given
    BY <1>14 DEF FreeBuffer
  <2>2. waiting # "statement"
    BY <1>1, <2>1
  <2> QED
    BY <1>0, <1>1, <1>3, <2>1, <2>2 DEF BooksInv, Idle, Full
<1>15. CASE NextTable
  <2>1. at = "indexed" /\ waiting = "no" /\ given' = given /\ at' \in {"create", "end", "failed"}
    BY <1>15 DEF NextTable, Go
  <2> QED
    BY <1>1, <1>4, <2>1 DEF Idle, Full
<1> QED
  BY <1>7, <1>8, <1>9, <1>10, <1>11, <1>12, <1>13, <1>14, <1>15

-----------------------------------------------------------------------------
(* A call of the loader, or something that happens to its session. *)
LEMMA BooksServer ==
  ASSUME ConInv, BulkPoints, BooksInv, script = "prepare", script' = script,
         \/ ConnectLoader \/ CreateTable \/ Insert \/ Commit \/ CreateIndex
         \/ (Reconnected \/ GiveUp) /\ UNCHANGED bulkVars
         \/ at \notin {"connect", "end"} /\ Drop /\ UNCHANGED bulkVars
         \/ OthersFail /\ UNCHANGED bulkVars
  PROVE  BooksInv'
<1> DEFINE n == Len(buffer)
           g == given - n
<1>0. /\ UNCHANGED <<opt, given, buffer>>
      /\ given \in Nat /\ buffer \in Seq(Nat) /\ n \in Nat
  BY DEF ConnectLoader, CreateTable, Insert, Commit, CreateIndex, Reconnected, GiveUp, Drop, OthersFail,
         Go, bulkVars, DbConnect, DbQuery, Run, Receive, LostWithoutState, Crash, BulkPoints, BulkTypeOK
<1>1. /\ data \in Contents(Nat) /\ waiting # "reconnect"
      /\ waiting = "statement" => at \in {"created", "inserted", "committed", "indexed"}
      /\ at = "connect" => data.kept = <<>> /\ data.trx = <<>> /\ given = 0
      /\ Delivered = FirstRows(Len(Delivered)) /\ Len(Delivered) <= given
      /\ ~NeedsCommit => data.trx = <<>>
      /\ at \in (Idle \cup Full) \ {"connect"} \/ (at = "next" /\ buffer = <<>>) \/ (at = "committed" /\ Fine)
           => data.trx = <<>> /\ data.kept = FirstRows(given)
      /\ at \in {"next", "insert", "append"} /\ (link = "open" \/ ~NeedsCommit)
           => Delivered = FirstRows(given - n)
      /\ at = "inserted" /\ Fine /\ (link = "open" \/ ~NeedsCommit) => Delivered = FirstRows(given)
      /\ at = "commit" => NeedsCommit
      /\ at = "commit" /\ link = "open" => Delivered = FirstRows(given)
  BY DEF BooksInv
<1>2. /\ data.kept \in Seq(Nat) /\ data.trx \in Seq(Nat) /\ Delivered \in Seq(Nat)
      /\ data.kept = FirstRows(Len(data.kept)) /\ Len(data.kept) <= given
      /\ data.trx = <<>> => Delivered = data.kept
  <2>1. /\ data.kept \in Seq(Nat) /\ data.trx \in Seq(Nat) /\ Delivered \in Seq(Nat)
        /\ data.kept = FirstRows(Len(data.kept)) /\ Len(data.kept) <= Len(Delivered)
        /\ data.trx = <<>> => Delivered = data.kept
    BY <1>1, KeptIsPrefix
  <2>2. Len(data.kept) \in Nat /\ Len(Delivered) \in Nat
    BY <2>1
  <2>3. Len(data.kept) <= given
    BY <1>0, <1>1, <2>1, <2>2
  <2> QED
    BY <2>1, <2>3
<1>3. NeedsCommit' = NeedsCommit
  BY <1>0 DEF NeedsCommit
(* What has been lost is the end of the rows. *)
<1>4. ASSUME data' \in Contents(Nat), data'.trx = <<>>, data'.kept = data.kept
      PROVE  Delivered' = data.kept
             /\ Delivered' = FirstRows(Len(Delivered')) /\ Len(Delivered') <= given'
  <2>1. Delivered' = data.kept
    BY <1>2, <1>4, FirstRowsEmpty DEF Delivered
  <2> QED
    BY <1>0, <1>2, <2>1
<1>5. ASSUME data' = data
      PROVE  Delivered' = Delivered /\ Delivered' = FirstRows(Len(Delivered')) /\ Len(Delivered') <= given'
  BY <1>0, <1>1, <1>5 DEF Delivered
<1>6. CASE ConnectLoader
  <2>1. at = "connect" /\ at' \in {"create", "failed"} /\ data' = data /\ waiting' = "no"
    BY <1>6 DEF ConnectLoader, DbConnect, Go
  <2>2. data.trx = <<>> /\ data.kept = FirstRows(given)
    <3>1. data.kept = <<>> /\ Len(data.kept) = 0 /\ given = 0
      BY <1>1, <2>1
    <3> QED
      BY <1>1, <1>2, <2>1, <3>1
  <2> QED
    BY <1>0, <1>1, <1>3, <1>5, <2>1, <2>2 DEF BooksInv, Idle, Full
<1>7. CASE CreateTable \/ CreateIndex
  <2>1. /\ at \in {"create", "index"} /\ at' \in {"created", "indexed"} /\ DbQuery("other", data)
    BY <1>7 DEF CreateTable, CreateIndex, Go
  <2>2. data.trx = <<>> /\ data.kept = FirstRows(given)
    BY <1>1, <2>1 DEF Idle, Full
  <2>3. data' \in Contents(Nat) /\ waiting' # "reconnect" /\ data'.trx = <<>> /\ data'.kept = data.kept
    BY <1>1, <2>1, <2>2, QueryOutcome
  <2> QED
    BY <1>0, <1>1, <1>3, <1>4, <2>1, <2>2, <2>3 DEF BooksInv, Idle, Full
<1>8. CASE Insert /\ NeedsCommit
  <2> DEFINE done == [data EXCEPT !.trx = @ \o buffer]
  <2>1. at = "insert" /\ at' = "inserted" /\ DbQuery("write", done)
    BY <1>8 DEF Insert, Go
  <2>2. data.trx \o buffer \in Seq(Nat)
    BY <1>0, <1>2
  <2>3. done \in Contents(Nat) /\ done.trx = data.trx \o buffer /\ done.kept = data.kept
    BY <1>1, <2>2 DEF Contents
  <2> HIDE DEF done
  <2>4. /\ data' \in Contents(Nat) /\ waiting' # "reconnect"
        /\ \/ Fine' /\ link = "open" /\ data' = done
           \/ ~Fine' /\ (data' = data \/ (data'.trx = <<>> /\ data'.kept = data.kept))
    <3>1. \/ Fine' /\ link = "open" /\ link' = "open" /\ data' = done
          \/ ~Fine' /\ (data' = data \/ (data'.trx = <<>> /\ data'.kept \in {data.kept, done.kept}))
      BY <1>1, <2>1, <2>3, QueryOutcome
    <3>2. data' \in Contents(Nat) /\ waiting' # "reconnect"
      BY <1>1, <2>1, <2>3, QueryOutcome
    <3> QED
      BY <2>3, <3>1, <3>2
  <2>5. CASE Fine' /\ link = "open" /\ data' = done
    <3>1. Delivered = FirstRows(given - Len(buffer))
      BY <1>1, <2>1, <2>5
    <3>2. Delivered \o buffer = FirstRows(given)
      BY <1>2, <2>1, <3>1, BufferFollows DEF Flushing
    <3>3. Delivered' = data.kept \o (data.trx \o buffer)
      BY <2>3, <2>5 DEF Delivered
    <3>4. Delivered' = Delivered \o buffer
      <4>1. data.kept \o (data.trx \o buffer) = (data.kept \o data.trx) \o buffer
        BY <1>0, <1>2, RowsAssociate
      <4> QED
        BY <3>3, <4>1 DEF Delivered
    <3>5. Len(Delivered') = given
      BY <1>0, <3>2, <3>4, FirstRowsTypes
    <3>6. Delivered' = FirstRows(given) /\ Len(Delivered') <= given
      BY <1>0, <3>2, <3>4, <3>5
    <3> QED
      BY <1>0, <1>3, <1>8, <2>1, <2>4, <3>5, <3>6 DEF BooksInv, Idle, Full
  <2>6. CASE ~Fine' /\ data' = data
    BY <1>0, <1>1, <1>3, <1>5, <1>8, <2>1, <2>4, <2>6 DEF BooksInv, Idle, Full
  <2>7. CASE ~Fine' /\ data'.trx = <<>> /\ data'.kept = data.kept
    BY <1>0, <1>1, <1>3, <1>4, <1>8, <2>1, <2>4, <2>7 DEF BooksInv, Idle, Full
  <2> QED
    BY <2>4, <2>5, <2>6, <2>7
<1>9. CASE Insert /\ ~NeedsCommit
  <2> DEFINE done == [data EXCEPT !.kept = @ \o buffer]
  <2>1. at = "insert" /\ at' = "inserted" /\ DbQuery("write", done)
    BY <1>9 DEF Insert, Go
  <2>2. data.kept \o buffer \in Seq(Nat)
    BY <1>0, <1>2
  <2>3. data.trx = <<>> /\ data.kept = FirstRows(given - Len(buffer))
    BY <1>1, <1>2, <1>9, <2>1
  <2>4. done \in Contents(Nat) /\ done.trx = <<>> /\ done.kept = data.kept \o buffer
    BY <1>1, <2>2, <2>3 DEF Contents
  <2>5. data.kept \o buffer = FirstRows(given)
    BY <1>2, <2>1, <2>3, BufferFollows DEF Flushing
  <2> HIDE DEF done
  <2>6. /\ data' \in Contents(Nat) /\ waiting' # "reconnect" /\ data'.trx = <<>>
        /\ data'.kept \in {data.kept, done.kept}
        /\ Fine' => data'.kept = done.kept
    <3>1. \/ Fine' /\ link = "open" /\ link' = "open" /\ data' = done
          \/ ~Fine' /\ (data' = data \/ (data'.trx = <<>> /\ data'.kept \in {data.kept, done.kept}))
      BY <1>1, <2>1, <2>4, QueryOutcome
    <3>2. data' \in Contents(Nat) /\ waiting' # "reconnect"
      BY <1>1, <2>1, <2>4, QueryOutcome
    <3> QED
      BY <2>3, <2>4, <3>1, <3>2
  <2>7. data'.kept \in Seq(Nat)
    BY <2>6 DEF Contents
  <2>8. Delivered' = data'.kept
    BY <2>6, <2>7, FirstRowsEmpty DEF Delivered
  <2>9. CASE data'.kept = done.kept
    <3>1. Delivered' = FirstRows(given)
      BY <2>4, <2>5, <2>8, <2>9
    <3>2. Len(Delivered') = given
      BY <1>0, <3>1, FirstRowsTypes
    <3>3. Delivered' = FirstRows(Len(Delivered')) /\ Len(Delivered') <= given
      BY <1>0, <3>1, <3>2
    <3> QED
      BY <1>0, <1>3, <1>9, <2>1, <2>6, <3>1, <3>3 DEF BooksInv, Idle, Full
  <2>10. CASE ~Fine' /\ data'.kept = data.kept
    BY <1>0, <1>3, <1>4, <1>9, <2>1, <2>6, <2>10 DEF BooksInv, Idle, Full
  <2> QED
    BY <2>6, <2>9, <2>10
<1>10. CASE Commit
  <2> DEFINE done == [trx |-> <<>>, kept |-> data.kept \o data.trx]
  <2>1. at = "commit" /\ at' = "committed" /\ DbQuery("other", done)
    BY <1>10 DEF Commit, Go
  <2>2. done \in Contents(Nat) /\ done.trx = <<>> /\ done.kept = Delivered
    <3>1. <<>> \in Seq(Nat)
      OBVIOUS
    <3> QED
      BY <1>2, <3>1 DEF Contents, Delivered
  <2> HIDE DEF done
  <2>3. /\ data' \in Contents(Nat) /\ waiting' # "reconnect" /\ NeedsCommit
        /\ \/ Fine' /\ link = "open" /\ data' = done
           \/ ~Fine' /\ data' = data
           \/ ~Fine' /\ data'.trx = <<>> /\ data'.kept \in {data.kept, Delivered}
    <3>1. \/ Fine' /\ link = "open" /\ link' = "open" /\ data' = done
          \/ ~Fine' /\ (data' = data \/ (data'.trx = <<>> /\ data'.kept \in {data.kept, done.kept}))
      BY <1>1, <2>1, <2>2, QueryOutcome
    <3>2. data' \in Contents(Nat) /\ waiting' # "reconnect"
      BY <1>1, <2>1, <2>2, QueryOutcome
    <3> QED
      BY <1>1, <2>1, <2>2, <3>1, <3>2
  <2>4. ASSUME data'.trx = <<>>, data'.kept = Delivered
        PROVE  Delivered' = Delivered /\ Delivered' = FirstRows(Len(Delivered')) /\ Len(Delivered') <= given'
    <3>1. Delivered' = Delivered
      BY <1>2, <2>4, FirstRowsEmpty DEF Delivered
    <3> QED
      BY <1>0, <1>1, <3>1
  <2>5. CASE Fine' /\ link = "open" /\ data' = done
    <3>1. data'.trx = <<>> /\ data'.kept = Delivered /\ Delivered = FirstRows(given)
      BY <1>1, <2>1, <2>2, <2>5
    <3> QED
      BY <1>0, <1>3, <2>1, <2>3, <2>4, <3>1 DEF BooksInv, Idle, Full
  <2>6. CASE ~Fine' /\ data' = data
    BY <1>0, <1>3, <1>5, <2>1, <2>3, <2>6 DEF BooksInv, Idle, Full
  <2>7. CASE ~Fine' /\ data'.trx = <<>> /\ data'.kept = data.kept
    BY <1>0, <1>3, <1>4, <2>1, <2>3, <2>7 DEF BooksInv, Idle, Full
  <2>8. CASE ~Fine' /\ data'.trx = <<>> /\ data'.kept = Delivered
    BY <1>0, <1>3, <2>1, <2>3, <2>4, <2>8 DEF BooksInv, Idle, Full
  <2> QED
    BY <2>3, <2>5, <2>6, <2>7, <2>8
<1>11. CASE (Reconnected \/ GiveUp) /\ UNCHANGED bulkVars
  <2>1. /\ UNCHANGED <<at, data>> /\ waiting = "statement" /\ waiting' = "no" /\ ~Fine'
    BY <1>1, <1>11 DEF Reconnected, GiveUp, bulkVars, Fine, ConInv, ConTypeOK
  <2>2. at \in {"created", "inserted", "committed", "indexed"}
    BY <1>1, <2>1
  <2> QED
    BY <1>0, <1>1, <1>3, <1>5, <2>1, <2>2 DEF BooksInv, Idle, Full
<1>12. CASE at \notin {"connect", "end"} /\ Drop /\ UNCHANGED bulkVars
  <2>1. UNCHANGED <<at, con, waiting>> /\ link' = "dropped" /\ data' = Undone /\ Fine' = Fine
    BY <1>12 DEF Drop, bulkVars, Fine
  <2>2. data' \in Contents(Nat) /\ data'.trx = <<>> /\ data'.kept = data.kept
    BY <1>1, <2>1, DropData
  <2>3. data.trx = <<>> => Delivered' = Delivered
    BY <1>2, <1>4, <2>2
  <2> QED
    BY <1>0, <1>1, <1>3, <1>4, <1>12, <2>1, <2>2, <2>3 DEF BooksInv, Idle, Full
<1>13. CASE OthersFail /\ UNCHANGED bulkVars
  <2>1. UNCHANGED <<at, data, con, waiting, link>> /\ Fine' = Fine
    BY <1>13 DEF OthersFail, bulkVars, Fine
  <2> QED
    BY <1>0, <1>1, <1>3, <1>5, <2>1 DEF BooksInv, Idle, Full
<1> QED
  BY <1>6, <1>7, <1>8, <1>9, <1>10, <1>11, <1>12, <1>13

(* The books are kept by every step of the loader, of the server and of the
   other threads. *)
LEMMA BooksStep ==
  ASSUME ConInv, BulkPoints, BulkPoints', BooksInv, [Next]_vars
  PROVE  BooksInv'
<1>1. script' = script
  BY DEF Next, vars
<1>2. CASE script # "prepare"
  BY <1>1, <1>2 DEF BooksInv
<1>3. CASE UNCHANGED <<bulkVars, dbVars>>
  BY <1>1, <1>3 DEF BooksInv, bulkVars, dbVars, Delivered, NeedsCommit, Fine
<1>4. CASE PrepareScript
  <2>1. script = "prepare"
    BY <1>4 DEF PrepareScript
  <2> QED
    BY <1>1, <1>4, <2>1, BooksLocal, BooksServer DEF PrepareScript, LoaderNext, LoaderStep
<1> QED
  BY <1>2, <1>3, <1>4 DEF Next, RunScript, OwnScript, StartThreads, vars

-----------------------------------------------------------------------------
(* What waits for a COMMIT is counted in every step. *)
LEMMA CommitStep ==
  ASSUME ConInv, BulkPoints, BooksInv, CommitInv, [Next]_vars
  PROVE  CommitInv'
<1> DEFINE n == Len(buffer)
<1>0. /\ script' = script /\ RowsBeforeCommit \in Nat \ {0}
      /\ buffer \in Seq(Nat) /\ n \in Nat /\ commitCnt \in Nat
  BY BulkAssumption DEF Next, vars, BulkPoints, BulkTypeOK
<1>1. CASE script # "prepare"
  BY <1>0, <1>1 DEF CommitInv
<1>2. CASE UNCHANGED <<bulkVars, dbVars>>
  BY <1>0, <1>2 DEF CommitInv, bulkVars, dbVars, Fine, NeedsCommit
<1>3. CASE PrepareScript
  <2>1. script = "prepare"
    BY <1>3 DEF PrepareScript
  <2>2. /\ at \in {"next", "insert", "append"} => Len(data.trx) <= commitCnt
        /\ at \in {"next", "insert", "inserted", "append"} => commitCnt < RowsBeforeCommit
        /\ at = "inserted" /\ Fine /\ NeedsCommit => Len(data.trx) <= commitCnt + n
    BY <2>1 DEF CommitInv
  <2>3. /\ data \in Contents(Nat) /\ data.kept \in Seq(Nat) /\ data.trx \in Seq(Nat)
        /\ Len(data.trx) \in Nat
        /\ ~NeedsCommit => data.trx = <<>>
        /\ at \in (Idle \cup Full) \ {"connect"} \/ (at = "next" /\ buffer = <<>>) \/ (at = "committed" /\ Fine)
             => data.trx = <<>>
        /\ waiting = "statement" => at \in {"created", "inserted", "committed", "indexed"}
        /\ waiting # "reconnect"
    BY <2>1 DEF BooksInv, Contents
  <2>4. ASSUME at' \notin {"next", "insert", "append", "inserted"}
        PROVE  CommitInv'
    BY <2>4 DEF CommitInv
  <2>5. CASE ConnectLoader \/ CreateTable \/ TableCreated \/ Commit \/ FreeBuffer \/ CreateIndex \/ NextTable
    BY <2>4, <2>5
    DEF ConnectLoader, CreateTable, TableCreated, Outcome, Commit, FreeBuffer, CreateIndex, NextTable, Go
  <2>6. CASE InitBulk
    <3>1. at = "init" /\ data' = data /\ (at' = "failed" \/ (at' = "next" /\ commitCnt' = 0))
      BY <2>6 DEF InitBulk, Go, dbVars
    <3>2. data'.trx = <<>> /\ Len(data'.trx) = 0
      BY <2>3, <3>1 DEF Idle
    <3> QED
      BY <1>0, <3>1, <3>2 DEF CommitInv
  <2>7. CASE BulkNext \/ AppendRow \/ BulkDone
    <3>1. /\ at \in {"next", "append"} /\ at' \in {"next", "insert", "free"}
          /\ UNCHANGED <<data, commitCnt>>
      BY <2>7 DEF BulkNext, AppendRow, BulkDone, Store, dbVars
    <3> QED
      BY <2>2, <3>1 DEF CommitInv
  <2>8. CASE Insert /\ NeedsCommit
    <3> DEFINE done == [data EXCEPT !.trx = @ \o buffer]
    <3>1. at = "insert" /\ at' = "inserted" /\ UNCHANGED <<commitCnt, buffer>> /\ DbQuery("write", done)
      BY <2>8 DEF Insert, Go
    <3>2. data.trx \o buffer \in Seq(Nat) /\ Len(data.trx \o buffer) = Len(data.trx) + n
      BY <1>0, <2>3
    <3>3. done \in Contents(Nat) /\ done.trx = data.trx \o buffer
      BY <2>3, <3>2 DEF Contents
    <3> HIDE DEF done
    <3>4. Fine' => data' = done
      BY <2>3, <3>1, <3>3, QueryOutcome
    <3>5. Fine' => Len(data'.trx) <= commitCnt + n
      BY <1>0, <2>2, <2>3, <3>1, <3>2, <3>3, <3>4
    <3> QED
      BY <2>2, <3>1, <3>5 DEF CommitInv
  <2>9. CASE Insert /\ ~NeedsCommit
    <3>1. at = "insert" /\ at' = "inserted" /\ UNCHANGED <<commitCnt, buffer, opt>>
      BY <2>9 DEF Insert, Go, DbQuery, Run, Receive, LostWithoutState, Crash
    <3>2. ~NeedsCommit'
      BY <2>9, <3>1 DEF NeedsCommit
    <3> QED
      BY <2>2, <3>1, <3>2 DEF CommitInv
  <2>10. CASE Inserted
    <3>1. at = "inserted" /\ waiting = "no" /\ data' = data
      BY <2>10 DEF Inserted, dbVars
    <3>2. CASE at' = "failed"
      BY <2>4, <3>2
    <3>3. CASE at' = "commit"
      BY <2>4, <3>3
    <3>4. CASE at' = flushFor /\ ~NeedsCommit /\ commitCnt' = commitCnt
      <4>1. at' \in {"append", "free"} /\ Len(data'.trx) = 0
        BY <2>3, <3>1, <3>4 DEF BulkPoints, BulkTypeOK
      <4> QED
        BY <1>0, <2>2, <3>1, <3>4, <4>1 DEF CommitInv
    <3>5. CASE Fine /\ at' = flushFor /\ NeedsCommit /\ commitCnt' = commitCnt + n /\ ~CommitDue
      <4>1. at' \in {"append", "free"}
        BY <3>5 DEF BulkPoints, BulkTypeOK
      <4>2. commitCnt' < RowsBeforeCommit /\ Len(data'.trx) <= commitCnt'
        BY <1>0, <2>2, <3>1, <3>5 DEF CommitDue
      <4> QED
        BY <4>1, <4>2 DEF CommitInv
    <3> QED
      BY <2>10, <3>1, <3>2, <3>3, <3>4, <3>5 DEF Inserted, Go, Fine
  <2>11. CASE Committed
    <3>1. at = "committed" /\ waiting = "no" /\ data' = data
      BY <2>11 DEF Committed, dbVars
    <3>2. CASE at' = "failed"
      BY <2>4, <3>2
    <3>3. CASE Fine /\ at' = flushFor /\ commitCnt' = 0
      <4>1. at' \in {"append", "free"} /\ Len(data'.trx) = 0
        BY <2>3, <3>1, <3>3 DEF BulkPoints, BulkTypeOK
      <4> QED
        BY <1>0, <3>3, <4>1 DEF CommitInv
    <3> QED
      BY <2>11, <3>1, <3>2, <3>3 DEF Committed, Go, Fine
  <2>12. CASE (Reconnected \/ GiveUp) /\ UNCHANGED bulkVars
    <3>1. UNCHANGED <<at, data, commitCnt, buffer>> /\ ~Fine'
      BY <2>3, <2>12 DEF Reconnected, GiveUp, bulkVars, Fine, ConInv, ConTypeOK
    <3> QED
      BY <2>2, <3>1 DEF CommitInv
  <2>13. CASE Drop /\ UNCHANGED bulkVars
    <3>1. UNCHANGED <<at, commitCnt, buffer>> /\ data' = Undone
      BY <2>13 DEF Drop, bulkVars
    <3>2. Len(data'.trx) = 0
      BY <2>3, <3>1, DropData
    <3>3. 0 <= commitCnt /\ 0 <= commitCnt + n
      BY <1>0
    <3> QED
      BY <1>0, <2>2, <3>1, <3>2, <3>3 DEF CommitInv
  <2>14. CASE OthersFail /\ UNCHANGED bulkVars
    <3>1. UNCHANGED <<at, data, commitCnt, buffer, con, waiting, opt>>
      BY <2>14 DEF OthersFail, bulkVars
    <3> QED
      BY <2>1, <3>1 DEF CommitInv, Fine, NeedsCommit
  <2> QED
    BY <1>3, <2>5, <2>6, <2>7, <2>8, <2>9, <2>10, <2>11, <2>12, <2>13, <2>14
    DEF PrepareScript, LoaderNext, LoaderStep
<1> QED
  BY <1>1, <1>2, <1>3 DEF Next, RunScript, OwnScript, StartThreads, vars

-----------------------------------------------------------------------------
(* A step of the loader is a step of the ledger, or none of its own. *)
LEMMA LedgerStep ==
  ASSUME BulkPoints, BooksInv, BooksInv', [Next]_vars
  PROVE  [Ledger!Accept \/ Ledger!Deliver \/ Ledger!Lose \/ Ledger!Finish]_(Ledger!vars)
<1> DEFINE delivered == IF at = "connect" THEN <<>> ELSE data.kept \o data.trx
<1>0. Ledger!vars = <<given, delivered, at = "end">>
      /\ Ledger!vars' = <<given', delivered', at' = "end">>
  BY DEF Ledger!vars
<1>1. CASE UNCHANGED <<bulkVars, data>>
  <2>1. UNCHANGED <<given, at, data>>
    BY <1>1 DEF bulkVars
  <2> QED
    BY <1>0, <2>1
<1>2. CASE script # "prepare"
  <2>1. UNCHANGED bulkVars /\ at = "connect"
    BY <1>2 DEF Next, RunScript, PrepareScript, OwnScript, StartThreads, vars, BulkPoints
  <2> QED
    BY <1>0, <2>1 DEF bulkVars
<1>3. CASE PrepareScript
  <2>1. script = "prepare"
    BY <1>3 DEF PrepareScript, Next
  <2>2. /\ data \in Contents(Nat) /\ given \in Nat
        /\ at = "connect" => data.kept = <<>> /\ data.trx = <<>>
        /\ Delivered = FirstRows(Len(Delivered)) /\ Len(Delivered) <= given
        /\ at = "indexed" => data.trx = <<>> /\ data.kept = FirstRows(given)
    BY <1>3 DEF PrepareScript, BooksInv, Full, BulkPoints, BulkTypeOK
  <2>3. /\ Delivered' = FirstRows(Len(Delivered')) /\ Len(Delivered') <= given'
        /\ data' \in Contents(Nat)
        /\ at' = "connect" => data'.kept = <<>> /\ data'.trx = <<>>
    BY <1>3 DEF PrepareScript, BooksInv, Next, vars
  <2>4. delivered = Delivered /\ delivered' = Delivered'
        /\ Len(Delivered) \in Nat /\ Len(Delivered') \in Nat
    <3>1. \A s, t \in Seq(Nat) : Len(s \o t) \in Nat
      OBVIOUS
    <3>2. <<>> \o <<>> = <<>>
      OBVIOUS
    <3> QED
      BY <2>2, <2>3, <3>1, <3>2 DEF Delivered, Contents
  <2> HIDE DEF delivered
  <2>5. ASSUME given' = given, at # "end", at' # "end"
        PROVE  Ledger!Deliver \/ Ledger!Lose
    <3>1. delivered' = FirstRows(Len(Delivered')) /\ Len(Delivered') <= given
      BY <2>3, <2>4, <2>5
    <3>0. Len(delivered) = Len(Delivered)
      BY <2>4
    <3> DEFINE k == Len(Delivered)
               l == Len(Delivered')
    <3>4. k \in Nat /\ l \in Nat /\ l <= given /\ given \in Nat
      BY <2>2, <2>4, <3>1
    <3>2. CASE Len(Delivered') >= Len(Delivered)
      <4>1. Len(Delivered') \in Len(delivered)..given
        <5>1. l >= k
          BY <3>2
        <5> HIDE DEF k, l
        <5>2. l \in k..given
          BY <3>4, <5>1
        <5> QED
          BY <3>0, <5>2 DEF k, l
      <4> QED
        BY <2>5, <3>1, <4>1 DEF Ledger!Deliver, Ledger!FirstRows, FirstRows, delivered
    <3>3. CASE Len(Delivered') < Len(Delivered)
      <4>1. Len(Delivered') \in 0..Len(delivered)
        <5>1. l < k
          BY <3>3
        <5> HIDE DEF k, l
        <5>2. l \in 0..k
          BY <3>4, <5>1
        <5> QED
          BY <3>0, <5>2 DEF k, l
      <4> QED
        BY <2>5, <3>1, <4>1 DEF Ledger!Lose, Ledger!FirstRows, FirstRows, delivered
    <3> QED
      BY <2>4, <3>2, <3>3
  <2>6. ASSUME NEW length, Store(length), at \in {"next", "append"}, UNCHANGED data
        PROVE  Ledger!Accept
    <3>1. at' = "next" /\ given' = given + 1
      BY <2>6 DEF Store
    <3>2. delivered' = delivered
      BY <2>4, <2>6 DEF Delivered
    <3> QED
      BY <2>6, <3>1, <3>2 DEF Ledger!Accept, delivered
  <2>7. CASE ConnectLoader \/ CreateTable \/ TableCreated \/ InitBulk \/ BulkDone \/ Insert \/ Inserted
             \/ Commit \/ Committed \/ FreeBuffer \/ CreateIndex
    <3>1. given' = given /\ at # "end" /\ at' # "end"
      BY <2>7
      DEF ConnectLoader, CreateTable, TableCreated, Outcome, InitBulk, BulkDone, Insert, Inserted,
          Commit, Committed, FreeBuffer, CreateIndex, Go, BulkPoints, BulkTypeOK
    <3> QED
      BY <2>5, <3>1
  <2>8. CASE BulkNext
    <3>1. at = "next" /\ data' = data /\ \E length \in RowLens :
            Store(length) \/ (at' = "insert" /\ given' = given)
      BY <2>8 DEF BulkNext, dbVars
    <3> QED
      BY <2>5, <2>6, <3>1
  <2>9. CASE AppendRow
    BY <2>6, <2>9 DEF AppendRow, dbVars
  <2>10. CASE NextTable
    <3>1. at = "indexed" /\ data' = data /\ given' = given
      BY <2>10 DEF NextTable, Go, dbVars
    <3>2. CASE at' = "end"
      <4>1. Delivered = FirstRows(given)
        <5>1. data.kept \in Seq(Nat)
          BY <2>2 DEF Contents
        <5> QED
          BY <2>2, <3>1, <5>1, FirstRowsEmpty DEF Delivered
      <4>2. Delivered' = Delivered
        BY <3>1 DEF Delivered
      <4> QED
        BY <2>4, <3>1, <3>2, <4>1, <4>2 DEF Ledger!Finish, Ledger!FirstRows, FirstRows, delivered
    <3>3. CASE at' # "end"
      BY <2>5, <3>1, <3>3
    <3> QED
      BY <3>2, <3>3
  <2>11. CASE (Reconnected \/ GiveUp \/ OthersFail) /\ UNCHANGED bulkVars
    BY <1>1, <2>11 DEF Reconnected, GiveUp, OthersFail
  <2>12. CASE at \notin {"connect", "end"} /\ Drop /\ UNCHANGED bulkVars
    BY <2>5, <2>12 DEF bulkVars
  <2> QED
    BY <1>3, <2>7, <2>8, <2>9, <2>10, <2>11, <2>12 DEF PrepareScript, LoaderNext, LoaderStep
<1> QED
  BY <1>1, <1>2, <1>3 DEF Next, RunScript, OwnScript, StartThreads, vars, dbVars

-----------------------------------------------------------------------------
(* For PostgreSQL, and for a worker or a loader with emulated statements, the
   library holds the one result the connection refers to. *)
OneResult == opt.driver = "pgsql" \/ (opt.ps = "client" /\ script # "own")
HeapInv == OneResult => heap = IF rs.ptr THEN 1 ELSE 0

(* Freeing it leaves the library with none. *)
LEMMA FreesAll ==
  ASSUME ConInv, OwnedInv, HeapInv, OneResult
  PROVE  FreedHeap = 0
<1>1. opt.driver \in {"mysql", "pgsql"}
  BY DEF ConInv, ConTypeOK, Options
<1>2. rs.ptr => Open /\ ~OfStatement
  BY <1>1 DEF OneResult, OwnedInv, OfStatement, ConInv, Held
<1> QED
  BY <1>2 DEF FreedHeap, HeapInv

(* Receiving a statement's answer. *)
LEMMA HeapReceives ==
  ASSUME ConInv, OwnedInv, HeapInv, script' = script,
         NEW s \in Stmts \cup {NoStmt}, NEW a, NEW done, Receive(s, a, done),
         s = NoStmt \/ stmt[s].life = "prepared"
  PROVE  HeapInv'
<1>1. opt' = opt /\ OneResult' = OneResult
  BY DEF Receive, OneResult
<1>2. CASE ~OneResult
  BY <1>1, <1>2 DEF HeapInv
<1>3. CASE OneResult
  <2>1. opt.driver \in {"mysql", "pgsql"}
    BY DEF ConInv, ConTypeOK, Options
  <2>2. NewResult(s)
    BY <1>3, <2>1 DEF NewResult, OneResult, OwnedInv
  <2>3. FreedHeap = 0
    BY <1>3, FreesAll
  <2>4. PICK got \in BOOLEAN :
          /\ got <=> a = "rows"
          /\ rs'.ptr = got
          /\ heap' = FreedHeap + (IF got THEN 1 ELSE 0)
    <3>1. (a = "rows" /\ NewResult(s)) = (a = "rows")
      BY <2>2
    <3>2. /\ rs' = [statement |-> IF s = NoStmt THEN FreedRs.statement ELSE s, ptr |-> a = "rows"]
          /\ heap' = FreedHeap + (IF a = "rows" THEN 1 ELSE 0)
      BY <3>1, Zenon DEF Receive, Result
    <3> QED
      BY <3>2
  <2>5. CASE got
    BY <2>3, <2>4, <2>5 DEF HeapInv
  <2>6. CASE ~got
    BY <2>3, <2>4, <2>6 DEF HeapInv
  <2> QED
    BY <2>5, <2>6
<1> QED
  BY <1>2, <1>3

(* Every step of every script keeps the number of results. *)
LEMMA HeapStep ==
  ASSUME ConInv, OwnedInv, OltpTypeOK, HeapInv, [Next]_vars
  PROVE  HeapInv'
<1>0. script' = script
  BY DEF Next, vars
<1>1. ASSUME UNCHANGED <<opt, rs, heap>>
      PROVE  HeapInv'
  BY <1>0, <1>1 DEF HeapInv, OneResult
<1>2. ASSUME opt' = opt, ~rs'.ptr, heap' = FreedHeap
      PROVE  HeapInv'
  BY <1>0, <1>2, FreesAll DEF HeapInv, OneResult
<1>3. ASSUME NEW s \in Stmts \cup {NoStmt}, NEW kind, NEW done, Run(s, kind, done) \/ LostWithoutState,
             s = NoStmt \/ stmt[s].life = "prepared"
      PROVE  HeapInv'
  BY <1>0, <1>1, <1>3, HeapReceives DEF Run, LostWithoutState, Crash
<1>4. ASSUME NEW s \in Stmts, NEW kind, NEW done, DbExecute(s, kind, done)
      PROVE  HeapInv'
  <2>1. CASE stmt[s].bound
    BY <1>3, <1>4, <2>1 DEF DbExecute
  <2>2. CASE ~stmt[s].bound
    BY <1>1, <1>4, <2>2 DEF DbExecute, Crash
  <2> QED
    BY <2>1, <2>2
<1>5. ASSUME NEW kind, NEW done, DbQuery(kind, done)
      PROVE  HeapInv'
  BY <1>3, <1>5 DEF DbQuery
<1>6. ASSUME NEW closed \in SUBSET Stmts, DbClose(closed)
      PROVE  HeapInv'
  <2>1. ~rs'.ptr /\ heap' = FreedHeap /\ opt' = opt
    BY <1>6, CloseTypes, FreedTypes DEF DbClose
  <2> QED
    BY <1>2, <2>1
<1>7. CASE DbReconnect \/ DbDisconnect \/ FreeResults
  BY <1>2, <1>7, FreedTypes DEF DbReconnect, DbDisconnect, FreeResults
<1>8. CASE DbConnect \/ DbRefused \/ FreeThroughDangling \/ Reconnected \/ GiveUp \/ Drop \/ OthersFail
  BY <1>1, <1>8 DEF DbConnect, DbRefused, FreeThroughDangling, Crash, Reconnected, GiveUp, Drop, OthersFail
<1>9. ASSUME NEW s \in Stmts, DbPrepare(s)
      PROVE  HeapInv'
  BY <1>1, <1>9 DEF DbPrepare
<1>10. CASE DbNextResult \/ DbStmtNextResult
  BY <1>0, <1>10, HeapReceives DEF DbNextResult, DbStmtNextResult
<1>11. CASE UNCHANGED dbVars
  BY <1>1, <1>11 DEF dbVars
<1>12. CASE RunScript
  <2>2. CASE Prepare
    BY <1>9, <2>2, StepStatements DEF Prepare
  <2>3. CASE Execute
    BY <1>4, <2>3, StepStatements DEF Execute
  <2>4. CASE DbClose(Stmts)
    <3>1. Stmts \in SUBSET Stmts
      OBVIOUS
    <3> QED
      BY <1>6, <2>4, <3>1
  <2>5. CASE RaiseError
    BY <1>1, <2>5 DEF RaiseError
  <2> QED
    BY <1>7, <1>8, <1>11, <1>12, <2>2, <2>3, <2>4, <2>5
    DEF RunScript, OltpNext, WorkerStep, Connect, MoreEvents, NoMoreEvents, NextStatement, Restart,
        Fatal, CheckReconnect, Reconnect, Prepared, CloseStatements, Disconnect, dbVars
<1>13. CASE PrepareScript
  BY <1>5, <1>8, <1>11, <1>13
  DEF PrepareScript, LoaderNext, LoaderStep, ConnectLoader, CreateTable, Insert, Commit, CreateIndex,
      TableCreated, Outcome, InitBulk, BulkNext, AppendRow, BulkDone, Inserted, Committed, FreeBuffer,
      NextTable, dbVars
<1>14. CASE OwnScript
  <2>1. CASE \E s \in Stmts : DbClose({s})
    <3>1. PICK s \in Stmts : DbClose({s})
      BY <2>1
    <3>2. {s} \in SUBSET Stmts
      OBVIOUS
    <3> QED
      BY <1>6, <3>1, <3>2
  <2>2. CASE \E s \in Stmts : \E kind \in {Kind[s], "call"} : DbExecute(s, kind, Effect(s))
    BY <1>4, <2>2
  <2>3. CASE \E kind \in {"read", "write", "call"} : DbQuery(kind, data)
    BY <1>5, <2>3
  <2> QED
    BY <1>7, <1>8, <1>9, <1>10, <1>14, <2>1, <2>2, <2>3 DEF OwnScript, OwnNext, OwnCall
<1> QED
  BY <1>11, <1>12, <1>13, <1>14 DEF Next, StartThreads, vars

-----------------------------------------------------------------------------
(* All of it together. *)
LuaInv ==
  /\ ConInv /\ WorkerInv /\ OwnedInv /\ HeapInv
  /\ PositionsInv /\ RoundInv
  /\ BulkPoints /\ BooksInv /\ CommitInv

(* It holds at the start. *)
LEMMA LuaStart == Init => LuaInv
<1> SUFFICES ASSUME Init PROVE LuaInv
  OBVIOUS
<1> USE DEF Init, DbInit, OltpInit, BulkInit, DriverInit
<1>1. ConInv
  <2>1. con \in [state : ConStates, error : ConErrors, errno : {"none", "lost"} \cup Refusals]
    BY DEF ConStates, ConErrors
  <2>2. rs \in [statement : Pointers, ptr : BOOLEAN]
    BY DEF Pointers
  <2>3. stmt \in [Stmts -> StmtRecord]
    BY StmtRecords
  <2>4. budget \in [drops : 0..MaxDrops, errors : 0..MaxErrors]
    BY DbAssumption
  <2>5. opt \in Options /\ link \in {"open", "dropped", "closed"} /\ more \in BOOLEAN
        /\ heap \in Nat /\ error \in BOOLEAN
        /\ waiting \in {"no", "statement", "reconnect", "crashed"} /\ Held
    BY DEF Held
  <2> QED
    BY <2>1, <2>2, <2>3, <2>4, <2>5 DEF ConInv, ConTypeOK
<1>2. WorkerPoints /\ WaitInv /\ ReadyInv
  BY EventStatements, OltpAssumption DEF WorkerPoints, OltpTypeOK, WaitInv, ReadyInv
<1>3. data.trx = <<>> /\ data.kept = <<>> /\ \A S : data \in Contents(S)
  <2>1. \A S : <<>> \in Seq(S)
    OBVIOUS
  <2> QED
    BY <2>1 DEF Contents
<1>4. TrxInv
  BY <1>3 DEF TrxInv, EventsWhole
<1>5. OwnedInv /\ HeapInv
  BY DEF OwnedInv, HeapInv, Unprepared
<1>6. lists.hosts \in Nat /\ lists.ports \in Nat /\ lists.sockets \in Nat
  BY DriverAssumption
<1>7. PositionsInv
  <2>1. starting \in [Starters -> {"create", "thread_init", "connect", "connecting",
                                   "connected", "failed"}]
        /\ \A t \in Starters : starting[t] = "create"
    OBVIOUS
  <2>2. DriverTypeOK
    <3>1. hosts_pos \in 0..lists.hosts /\ ports_pos \in 0..lists.ports /\ sockets_pos \in 0..lists.sockets
      BY <1>6
    <3>2. lists \in HostLists /\ initialized \in BOOLEAN
      OBVIOUS
    <3> QED
      BY <2>1, <3>1, <3>2 DEF DriverTypeOK
  <2>3. handedOut = <<>> /\ <<>> \in Seq(Nat \X Nat) /\ DOMAIN handedOut = {} /\ ~initialized
    OBVIOUS
  <2> QED
    BY <2>1, <2>2, <2>3 DEF PositionsInv
<1>8. RoundInv
  <2>1. \A place : Uses(place) = 0
    <3>1. \A place : {k \in DOMAIN handedOut : handedOut[k] = place} = {}
      OBVIOUS
    <3> QED
      BY <3>1, FS_EmptySet DEF Uses
  <2>2. \A place \in Places : ~Behind(place)
    BY <1>6 DEF Places, Behind
  <2> QED
    BY <2>1, <2>2 DEF RoundInv
<1>9. BulkPoints
  <2>1. Tables \in Nat \ {0} /\ TableSize \in Nat /\ BulkPacketSize \in Nat /\ BulkPacketSize > 0
    BY BulkAssumption
  <2>2. Tables * TableSize \in Nat /\ (1 - 1) * TableSize = 0
    <3>1. \A a, b \in Nat : a * b \in Nat /\ (1 - 1) * b = 0
      OBVIOUS
    <3> QED
      BY <2>1, <3>1
  <2>3. Before = 0
    BY <2>2 DEF Before
  <2>4. BulkTypeOK
    BY <2>1, <2>2 DEF BulkTypeOK
  <2> QED
    BY <2>3, <2>4 DEF BulkPoints, Idle, Full, Flushing
<1>10. BooksInv
  <2>1. Delivered = <<>> /\ Len(Delivered) = 0 /\ <<>> \in Seq(Nat)
    BY <1>3 DEF Delivered
  <2>2. <<>> \in Seq(Nat) /\ Len(<<>>) = 0 /\ \A i \in 1..Len(<<>>) : <<>>[i] = i
    OBVIOUS
  <2>3. <<>> = FirstRows(Len(<<>>))
    BY <2>2, FirstRowsEqual
  <2> QED
    BY <1>3, <2>1, <2>3 DEF BooksInv, Idle, Full
<1>11. CommitInv
  BY DEF CommitInv
<1> QED
  BY <1>1, <1>2, <1>4, <1>5, <1>7, <1>8, <1>9, <1>10, <1>11 DEF LuaInv, WorkerInv

(* And in every state. *)
LEMMA LuaInvariant == Spec => []LuaInv
<1>1. LuaInv /\ [Next]_vars => LuaInv'
  <2> SUFFICES ASSUME LuaInv, [Next]_vars PROVE LuaInv'
    OBVIOUS
  <2>1. OltpTypeOK /\ WorkerPoints
    BY DEF LuaInv, WorkerInv, WorkerPoints
  <2>2. ConInv' /\ OwnedInv' /\ HeapInv'
    BY <2>1, ConStep, OwnedStep, HeapStep DEF LuaInv
  <2>3. WorkerInv'
    BY <2>1, PointsStep, WaitStep, ReadyStep, TrxStep DEF LuaInv, WorkerInv
  <2>4. PositionsInv' /\ RoundInv'
    BY PositionsStep, RoundStep DEF LuaInv
  <2>5. BulkPoints' /\ CommitInv'
    BY BulkPointsStep, CommitStep DEF LuaInv
  <2>6. BooksInv'
    BY <2>5, BooksStep DEF LuaInv
  <2> QED
    BY <2>2, <2>3, <2>4, <2>5, <2>6 DEF LuaInv
<1> QED
  BY <1>1, LuaStart, PTL DEF Spec

-----------------------------------------------------------------------------
(* Every variable of the database layer, the scripts and the drivers keeps
   its type, in particular bulk_ptr stays below the size of the buffer. *)
THEOREM ScriptTypesCorrect == Spec => []TypeOK
<1>1. LuaInv => TypeOK
  BY DEF LuaInv, ConInv, ConTypeOK, WorkerInv, WorkerPoints, BulkPoints, PositionsInv, TypeOK,
         ConStates, ConErrors, Pointers, StmtRecord
<1> QED
  BY <1>1, LuaInvariant, PTL

(* db_free_results never frees what is gone, and for PostgreSQL and emulated
   statements nothing is left behind. *)
THEOREM ResultsCorrect == Spec => []ResultsFreed
<1>1. LuaInv => ResultsFreed
  BY DEF LuaInv, ConInv, Held, HeapInv, OneResult, ResultsFreed
<1> QED
  BY <1>1, LuaInvariant, PTL

(* Whatever was lost and reconnected, an event of an OLTP script starts with
   statements of the session it runs in. *)
THEOREM StatementsCorrect == Spec => []StatementsFollowSession
<1>1. LuaInv => StatementsFollowSession
  BY DEF LuaInv, WorkerInv, WorkerPoints, ReadyInv, Ready, StatementsFollowSession, Stale
<1> QED
  BY <1>1, LuaInvariant, PTL

(* An event that counts as executed has its last transaction on the server as
   a whole, whatever errors its restarts have ignored. *)
THEOREM EventsCorrect == Spec => []EventsWhole
<1>1. LuaInv => EventsWhole
  BY DEF LuaInv, WorkerInv, WorkerPoints, TrxInv, EventsWhole
<1> QED
  BY <1>1, LuaInvariant, PTL

(* Fewer than ROWS_BEFORE_COMMIT rows wait for a COMMIT between two calls of
   the bulk insert, and none when its buffer is released. *)
THEOREM CommitsCorrect == Spec => []CommitsInTime
<1>1. LuaInv => CommitsInTime
  <2> SUFFICES ASSUME LuaInv PROVE CommitsInTime
    OBVIOUS
  <2>1. CASE script = "prepare"
    <3>1. at \in {"index", "end"} => data.trx = <<>>
      BY <2>1 DEF LuaInv, BooksInv, Full
    <3>2. ASSUME at = "next"
          PROVE  Len(data.trx) < RowsBeforeCommit
      <4>1. Len(data.trx) <= commitCnt /\ commitCnt < RowsBeforeCommit
        BY <2>1, <3>2 DEF LuaInv, CommitInv
      <4>2. data.trx \in Seq(Nat) /\ commitCnt \in 0..TableSize
        BY <2>1 DEF LuaInv, BooksInv, Contents, BulkPoints, BulkTypeOK
      <4>3. Len(data.trx) \in Nat /\ commitCnt \in Int /\ RowsBeforeCommit \in Nat
        BY <4>2, BulkAssumption
      <4> QED
        BY <4>1, <4>3
    <3> QED
      BY <3>1, <3>2 DEF CommitsInTime
  <2>2. CASE script # "prepare"
    BY <2>2 DEF LuaInv, BulkPoints, CommitsInTime
  <2> QED
    BY <2>1, <2>2
<1> QED
  BY <1>1, LuaInvariant, PTL

(* Whichever threads connect in whatever order, every place is tried as often
   as every other, up to one. *)
THEOREM SpreadCorrect == Spec => []ConnectionsSpread
<1>1. LuaInv => ConnectionsSpread
  BY SpreadFollows DEF LuaInv
<1> QED
  BY <1>1, LuaInvariant, PTL

(* The bulk insert calls implement the ledger: the rows reach the server in
   order and once, and at the end all of them are committed. *)
THEOREM RowsCorrect == Spec => RowsOnce
<1>1. Init => Ledger!Init
  BY DEF Init, BulkInit, Ledger!Init
<1>2. LuaInv /\ LuaInv' /\ [Next]_vars =>
        [Ledger!Accept \/ Ledger!Deliver \/ Ledger!Lose \/ Ledger!Finish]_(Ledger!vars)
  BY LedgerStep DEF LuaInv
<1> QED
  BY <1>1, <1>2, LuaInvariant, PTL DEF Spec, RowsOnce, Ledger!Spec
=============================================================================
