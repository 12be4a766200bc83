SPECIFICATION Spec
CONSTANTS
  begin = begin
  select = select
  update = update
  commit = commit
  NoStmt = NoStmt
  Stmts <- MCStmts
  WithParams = {select, update}
  MaxDrops = 2
  MaxErrors = 1
  Preparing <- MCPreparing
  Event <- MCEvent
  Kind <- MCKind
  MaxEvents = 3
  ReconnectEvery = 2
  Tables = 2
  TableSize = 5
  RowLens = {2, 3, 5}
  Header = 2
  BulkPacketSize = 9
  RowsBeforeCommit = 3
  MaxCalls = 6
  Starters = {t1, t2, t3}
  HostLists <- MCHostLists
  MaxConnects = 7
INVARIANTS
  TypeOK
  
  StatementsFollowSession
  EventsWhole
  CommitsInTime
  ConnectionsSpread
PROPERTIES
  RowsOnce
  ThreadsEnd
CHECK_DEADLOCK FALSE
