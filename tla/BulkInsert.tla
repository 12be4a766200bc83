----------------------------- MODULE BulkInsert -----------------------------
(***************************************************************************)
(* The prepare command of the OLTP scripts: it creates its tables and      *)
(* fills them through the bulk insert calls of db_driver.c, which gather   *)
(* rows in a buffer of fixed size.  A row is its number, a text its        *)
(* length.                                                                 *)
(***************************************************************************)
EXTENDS DbConn

CONSTANTS Tables,           \* number of tables this thread creates
          TableSize,        \* rows per table
          RowLens,          \* lengths a row can have
          Header,           \* length of "INSERT INTO ... VALUES"
          BulkPacketSize,   \* BULK_PACKET_SIZE, 512 kB in the code
          RowsBeforeCommit  \* ROWS_BEFORE_COMMIT, 1000 in the code

\* Every row fits an empty buffer: the code checks it for the first row only,
\* the rows of the scripts have some two hundred bytes
ASSUME BulkAssumption == /\ Tables \in Nat \ {0} /\ TableSize \in Nat
                         /\ Header \in Nat /\ RowLens \subseteq Nat
                         /\ BulkPacketSize \in Nat /\ Header < BulkPacketSize
                         /\ \A l \in RowLens : Header + l + 1 <= BulkPacketSize
                         /\ RowsBeforeCommit \in Nat \ {0}

VARIABLES
  at,         \* where the command is
  table,      \* the table it is filling
  given,      \* number of rows it has handed over, of all tables
  row,        \* length of the row it is handing over
  buffer,     \* the rows in bulk_buffer
  bulkPtr,    \* bulk_ptr, the length of the text in the buffer
  commitCnt,  \* bulk_commit_cnt
  flushFor    \* what the flush was for: the next row or the end

bulkVars == <<at, table, given, row, buffer, bulkPtr, commitCnt, flushFor>>

BulkTypeOK ==
  /\ at \in {"connect", "create", "created", "init", "next", "insert", "inserted",
             "commit", "committed", "append", "free", "index", "indexed", "end", "failed"}
  /\ table \in 1..Tables /\ given \in 0..Tables * TableSize
  /\ row \in {0} \cup RowLens /\ flushFor \in {"append", "free"}
  /\ bulkPtr \in 0..BulkPacketSize - 1  \* there is room for the final '\0'
  /\ commitCnt \in 0..TableSize

BulkInit ==
  /\ at = "connect" /\ table = 1 /\ given = 0 /\ row = 0
  /\ buffer = <<>> /\ bulkPtr = 0 /\ commitCnt = 0 /\ flushFor = "append"

NeedsCommit == opt.driver = "mysql"
Comma == IF buffer = <<>> THEN 0 ELSE 1

Go(label) == at' = label /\ UNCHANGED <<table, given, row, buffer, bulkPtr, commitCnt, flushFor>>

\* What the caller of a query makes of it: without an error it goes on, any
\* other outcome ends the command, since nothing catches what is thrown
Outcome(from, to) ==
  /\ at = from /\ waiting = "no"
  /\ Go(IF con.error = "NONE" THEN to ELSE "failed")
  /\ UNCHANGED dbVars

ConnectLoader ==
  /\ at = "connect" /\ DbConnect
  /\ Go(IF con'.state = "READY" THEN "create" ELSE "failed")

CreateTable == at = "create" /\ DbQuery("other", data) /\ Go("created")
TableCreated == Outcome("created", "init")

\* db_bulk_insert_init; the PostgreSQL driver describes itself over a
\* connection of its own, which can fail
InitBulk ==
  /\ at = "init"
  /\ \/ /\ at' = "next" /\ buffer' = <<>> /\ bulkPtr' = Header /\ commitCnt' = 0
        /\ UNCHANGED <<table, given, row, flushFor>>
     \/ opt.driver = "pgsql" /\ budget.errors < MaxErrors /\ Go("failed")
  /\ UNCHANGED dbVars

\* Add a row to the buffer
Store(length) ==
  /\ at' = "next"
  /\ given' = given + 1
  /\ buffer' = Append(buffer, given + 1)
  /\ bulkPtr' = bulkPtr + length + Comma
  /\ UNCHANGED <<table, commitCnt, flushFor>>

(* Mutant: no place is kept for the comma. *)
FitsWithoutComma(length) == bulkPtr + length + 1 <= BulkPacketSize
Fits(length) == bulkPtr + length + 1 + Comma <= BulkPacketSize

\* db_bulk_insert_next up to the flush
BulkNext ==
  /\ at = "next" /\ given < table * TableSize
  /\ \E length \in RowLens :
       /\ row' = length
       /\ IF Fits(length)
          THEN Store(length)
          ELSE /\ at' = "insert" /\ flushFor' = "append"
               /\ UNCHANGED <<table, given, buffer, bulkPtr, commitCnt>>
  /\ UNCHANGED dbVars

(* Mutant: the row that did not fit is forgotten. *)
ForgetsRow ==
  /\ at = "append" /\ at' = "next" /\ given' = given + 1
  /\ UNCHANGED <<table, row, buffer, bulkPtr, commitCnt, flushFor, dbVars>>

AppendRow == at = "append" /\ Store(row) /\ UNCHANGED <<row, dbVars>>

\* db_bulk_insert_done up to the flush
BulkDone ==
  /\ at = "next" /\ given = table * TableSize
  /\ at' = IF buffer = <<>> THEN "free" ELSE "insert"
  /\ flushFor' = "free"
  /\ UNCHANGED <<table, given, row, buffer, bulkPtr, commitCnt, dbVars>>

\* db_bulk_do_insert: the INSERT ...
Insert ==
  /\ at = "insert"
  /\ DbQuery("write", IF NeedsCommit THEN [data EXCEPT !.trx = @ \o buffer]
                                     ELSE [data EXCEPT !.kept = @ \o buffer])
  /\ Go("inserted")

Emptied == buffer' = <<>> /\ bulkPtr' = Header

CommitDue == commitCnt + Len(buffer) >= RowsBeforeCommit \/ flushFor = "free"

(* Mutant: the rows of a batch that is not committed are not counted. *)
InsertedUncounted ==
  /\ at = "inserted" /\ waiting = "no"
  /\ \/ con.error # "NONE" /\ Go("failed")
     \/ /\ con.error = "NONE"
        /\ IF NeedsCommit /\ CommitDue
           THEN at' = "commit" /\ UNCHANGED <<buffer, bulkPtr>>
           ELSE at' = flushFor /\ Emptied
        /\ UNCHANGED <<table, given, row, commitCnt, flushFor>>
  /\ UNCHANGED dbVars

Inserted ==
  /\ at = "inserted" /\ waiting = "no"
  /\ \/ con.error # "NONE" /\ Go("failed")
     \/ /\ con.error = "NONE" /\ ~NeedsCommit
        /\ at' = flushFor /\ Emptied
        /\ UNCHANGED <<table, given, row, commitCnt, flushFor>>
     \/ /\ con.error = "NONE" /\ NeedsCommit
        /\ commitCnt' = commitCnt + Len(buffer)
        /\ IF CommitDue THEN at' = "commit" /\ UNCHANGED <<buffer, bulkPtr>>
                        ELSE at' = flushFor /\ Emptied
        /\ UNCHANGED <<table, given, row, flushFor>>
  /\ UNCHANGED dbVars

\* ... and the COMMIT; if it fails, the rows stay in the buffer and counted
Commit ==
  /\ at = "commit"
  /\ DbQuery("other", [trx |-> <<>>, kept |-> data.kept \o data.trx])
  /\ Go("committed")

Committed ==
  /\ at = "committed" /\ waiting = "no"
  /\ \/ con.error # "NONE" /\ Go("failed")
     \/ /\ con.error = "NONE"
        /\ at' = flushFor /\ Emptied /\ commitCnt' = 0
        /\ UNCHANGED <<table, given, row, flushFor>>
  /\ UNCHANGED dbVars

FreeBuffer ==
  /\ at = "free"
  /\ at' = "index" /\ buffer' = <<>>
  /\ UNCHANGED <<table, given, row, bulkPtr, commitCnt, flushFor, dbVars>>

CreateIndex == at = "index" /\ DbQuery("other", data) /\ Go("indexed")

NextTable ==
  /\ at = "indexed" /\ waiting = "no"
  /\ IF con.error = "NONE" /\ table < Tables
     THEN /\ at' = "create" /\ table' = table + 1
          /\ UNCHANGED <<given, row, buffer, bulkPtr, commitCnt, flushFor>>
     ELSE Go(IF con.error = "NONE" THEN "end" ELSE "failed")
  /\ UNCHANGED dbVars

LoaderStep ==
  \/ ConnectLoader \/ CreateTable \/ TableCreated \/ InitBulk \/ BulkNext \/ AppendRow
  \/ BulkDone \/ Insert \/ Inserted \/ Commit \/ Committed \/ FreeBuffer
  \/ CreateIndex \/ NextTable
  \/ (Reconnected \/ GiveUp) /\ UNCHANGED bulkVars

LoaderNext ==
  \/ LoaderStep
  \/ at \notin {"connect", "end"} /\ Drop /\ UNCHANGED bulkVars
  \/ OthersFail /\ UNCHANGED bulkVars

-----------------------------------------------------------------------------
\* The rows the command handed over are on the server in their order, each of
\* them once, whatever the sizes of buffer and commit batches; if the command
\* ends well, all of them are committed.
Ledger == INSTANCE RowLedger
            WITH delivered <- IF at = "connect" THEN <<>> ELSE data.kept \o data.trx,
                 finished <- at = "end"
RowsOnce == Ledger!Spec

\* Between two calls fewer than ROWS_BEFORE_COMMIT rows wait for a COMMIT, and
\* none when the buffer is released: no batch is counted twice or forgotten.
CommitsInTime ==
  /\ at = "next" => Len(data.trx) < RowsBeforeCommit
  /\ at \in {"index", "end"} => data.trx = <<>>

LoaderEnds == <>(at \in {"end", "failed"} \/ waiting = "crashed")

=============================================================================
