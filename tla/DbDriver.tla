------------------------------ MODULE DbDriver ------------------------------
(***************************************************************************)
(* How the threads of a process come to their connections: db_create       *)
(* initialises the driver, and each connection of the MySQL driver takes   *)
(* the next of the hosts and ports, or of the sockets, on the command      *)
(* line.  PostgreSQL has one host and port.  The lists are circular with a *)
(* head of their own, position 0.                                          *)
(***************************************************************************)
EXTENDS Naturals, Sequences, FiniteSets

CONSTANTS Starters,    \* the threads
          HostLists,   \* command lines: the lengths of the three lists
          MaxConnects  \* bound on the connections tried

ASSUME DriverAssumption == HostLists \subseteq [hosts : Nat, ports : Nat, sockets : Nat]

VARIABLES
  lists,       \* --mysql-host, --mysql-port and --mysql-socket: their lengths
  initialized, \* of db_driver_t
  hosts_pos, ports_pos, sockets_pos,
  starting,    \* where each thread is
  handedOut    \* the places connections were tried at, in order

positions == <<hosts_pos, ports_pos, sockets_pos>>
driverVars == <<lists, initialized, positions, starting, handedOut>>

DriverInit ==
  /\ lists \in HostLists
  /\ initialized = FALSE
  /\ hosts_pos = 0 /\ ports_pos = 0 /\ sockets_pos = 0
  /\ starting = [t \in Starters |-> "create"]
  /\ handedOut = <<>>

NextItem(pos, length) == (pos + 1) % (length + 1)
NextOrFirst(pos, length) == IF pos = length THEN 1 ELSE pos + 1
StartingAt(t, label) == starting' = [starting EXCEPT ![t] = label]

\* db_create: the first thread to get the driver's mutex initialises it; if
\* that fails, each thread tries again
CreateDriver(t) ==
  /\ starting[t] = "create"
  /\ IF initialized
     THEN UNCHANGED <<initialized, positions>>
     ELSE /\ initialized' = (lists.hosts > 0 /\ lists.ports > 0)
          /\ hosts_pos' = IF lists.hosts > 0 THEN 1 ELSE hosts_pos
          /\ ports_pos' = IF initialized' THEN 1 ELSE ports_pos
          /\ UNCHANGED sockets_pos
  /\ StartingAt(t, IF initialized' THEN "thread_init" ELSE "failed")
  /\ UNCHANGED <<lists, handedOut>>

\* mysql_drv_thread_init
ThreadInit(t) ==
  /\ starting[t] = "thread_init"
  /\ \E label \in {"connect", "failed"} : StartingAt(t, label)
  /\ UNCHANGED <<lists, initialized, positions, handedOut>>

(* Mutant: the head of the list of hosts is not skipped. *)
TakeHead(t) ==
  /\ starting[t] = "connect" /\ Len(handedOut) < MaxConnects
  /\ lists.sockets = 0
  /\ handedOut' = Append(handedOut, <<hosts_pos, ports_pos>>)
  /\ ports_pos' = NextOrFirst(ports_pos, lists.ports)
  /\ hosts_pos' = IF ports_pos = lists.ports THEN NextItem(hosts_pos, lists.hosts) ELSE hosts_pos
  /\ StartingAt(t, "connecting")
  /\ UNCHANGED <<lists, initialized, sockets_pos>>

\* mysql_drv_connect under pos_mutex: the position of the hosts moves on when
\* the ports come round
TakeHost(t) ==
  /\ starting[t] = "connect" /\ Len(handedOut) < MaxConnects
  /\ lists.sockets = 0
  /\ handedOut' = Append(handedOut, <<hosts_pos, ports_pos>>)
  /\ LET round == NextItem(ports_pos, lists.ports) = 0
     IN /\ ports_pos' = NextOrFirst(ports_pos, lists.ports)
        /\ hosts_pos' = IF round THEN NextOrFirst(hosts_pos, lists.hosts) ELSE hosts_pos
  /\ StartingAt(t, "connecting")
  /\ UNCHANGED <<lists, initialized, sockets_pos>>

\* The position of the sockets moves on before it is used
TakeSocket(t) ==
  /\ starting[t] = "connect" /\ Len(handedOut) < MaxConnects
  /\ lists.sockets > 0
  /\ sockets_pos' = NextOrFirst(sockets_pos, lists.sockets)
  /\ handedOut' = Append(handedOut, <<0, sockets_pos'>>)
  /\ StartingAt(t, "connecting")
  /\ UNCHANGED <<lists, initialized, hosts_pos, ports_pos>>

\* mysql_drv_real_connect, outside the mutex
RealConnect(t) ==
  /\ starting[t] = "connecting"
  /\ \E label \in {"connected", "failed"} : StartingAt(t, label)
  /\ UNCHANGED <<lists, initialized, positions, handedOut>>

\* A script may open another connection, also through another driver object
ConnectAgain(t) ==
  /\ starting[t] = "connected" /\ Len(handedOut) < MaxConnects
  /\ \E label \in {"create", "connect"} : StartingAt(t, label)
  /\ UNCHANGED <<lists, initialized, positions, handedOut>>

DriverNext ==
  \E t \in Starters :
    \/ CreateDriver(t) \/ ThreadInit(t) \/ TakeHost(t) \/ TakeSocket(t)
    \/ RealConnect(t) \/ ConnectAgain(t)

-----------------------------------------------------------------------------
DriverTypeOK ==
  /\ lists \in HostLists /\ initialized \in BOOLEAN
  /\ hosts_pos \in 0..lists.hosts /\ ports_pos \in 0..lists.ports /\ sockets_pos \in 0..lists.sockets
  /\ starting \in [Starters -> {"create", "thread_init", "connect", "connecting",
                                "connected", "failed"}]

Places == IF lists.sockets > 0 THEN {0} \X (1..lists.sockets)
                               ELSE (1..lists.hosts) \X (1..lists.ports)
Uses(place) == Cardinality({k \in DOMAIN handedOut : handedOut[k] = place})

\* The connections are spread evenly over the hosts and ports, or the sockets,
\* in whatever order the threads come and whichever attempts fail, and none
\* goes to the head of a list.
ConnectionsSpread ==
  /\ \A k \in DOMAIN handedOut : handedOut[k] \in Places
  /\ \A p, q \in Places : Uses(p) <= Uses(q) + 1

=============================================================================
