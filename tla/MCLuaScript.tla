---------------------------- MODULE MCLuaScript ----------------------------
(***************************************************************************)
(* An instance of LuaScript for TLC: an event that executes one of its     *)
(* four statements twice, a loader of two tables, a user's script of a few *)
(* calls, and three threads that connect.                                  *)
(***************************************************************************)
EXTENDS LuaScript

CONSTANTS begin, select, update, commit

MCStmts == {begin, select, update, commit}
MCPreparing == <<begin, commit, select, update>>
MCEvent == <<begin, select, update, select, commit>>
MCKind == [s \in MCStmts |-> CASE s = select -> "read"
                               [] s = update -> "write"
                               [] OTHER -> "other"]

\* No host at all, two hosts and three ports, and three sockets
MCHostLists == {[hosts |-> 0, ports |-> 1, sockets |-> 0], [hosts |-> 2, ports |-> 3, sockets |-> 0],
                [hosts |-> 1, ports |-> 1, sockets |-> 3]}

=============================================================================
