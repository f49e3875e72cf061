----------------------------- MODULE ProjectData -----------------------------
(***************************************************************************)
(* The requests of Tables while the project they are about is created,     *)
(* suspended or deleted (Projects): a request gets its pool from the map,  *)
(* or opens it, before its first statement, and the pool is ended and its  *)
(* sessions are terminated under it.                                       *)
(***************************************************************************)
EXTENDS Projects, Tables

CONSTANT Served     \* the project the requests are about

ASSUME ServedAssumption == Served \in Projects

DataInit == Init /\ TablesInit

\* poolManager.get, from the row of the connection.
GetPool == UsePool(Served) /\ \E r \in Reqs : Arrive(r)

\* The pool was ended after the request got it.
PoolEnded(r) ==
    /\ Running(r) /\ Op(r) = "connect" /\ Served \notin pools
    /\ Over(r, "error")
    /\ UNCHANGED <<connection, db, unsure, overlapped, vars>>

\* Statements are answered while the database has the pool's sessions.
Serve ==
    /\ Served \in sessions
    /\ \/ \E r \in Reqs : TakeClient(r) \/ Statement(r) \/ Count(r) \/ Query(r)
       \/ \E c \in Conns : Drain(c)
    /\ UNCHANGED vars

ServeFails ==
    /\ \E r \in Reqs :
          ConnectTimesOut(r) \/ StatementFails(r) \/ ConnectionLost(r) \/ QueryFails(r)
    /\ UNCHANGED vars

DataNext ==
    \/ Next /\ UNCHANGED tablesVars
    \/ GetPool \/ Serve \/ ServeFails \/ \E r \in Reqs : PoolEnded(r)

DataSpec == DataInit /\ [][DataNext]_<<vars, tablesVars>>
=============================================================================
