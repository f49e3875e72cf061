-------------------------------- MODULE Tables --------------------------------
(***************************************************************************)
(* Requests that reach the database of one project over its pool: the data *)
(* API (rest.routes.ts), the SQL console (sql.routes.ts), changes of tables *)
(* (database.routes.ts) and imports (import-export.routes.ts).             *)
(*                                                                         *)
(* A request is a program of statements; one that is refused before its    *)
(* first statement (validation, role, rate, quota) changes nothing and is  *)
(* left out, as are row locks.  A part of a request is the place of its    *)
(* statement in the program, and what is committed is a set of parts.      *)
(* PostgreSQL is external: a statement fails, or its connection is lost    *)
(* and its transaction with it, unless COMMIT had arrived.                 *)
(*                                                                         *)
(* unsure and overlapped are history: requests whose text ended the        *)
(* transaction itself or whose last answer was lost, and whether two       *)
(* creations of tables met.                                                *)
(***************************************************************************)
EXTENDS Naturals, Sequences, FiniteSets, Functions

CONSTANTS
    Reqs,           \* requests
    Conns,          \* connections of the pool: its max
    MaxTables,      \* the quota max_tables
    Nobody

\* Requests are finitely many, as the quota counts the tables they create.
ASSUME TablesAssumption ==
    /\ Nobody \notin Reqs \cup Conns
    /\ IsFiniteSet(Reqs) /\ MaxTables \in Nat

VARIABLES
    conns,          \* who holds a connection, and the transaction open on it
    session,        \* whose settings a connection has outside transactions:
                    \* kept is what a ROLLBACK goes back to, now what is in force
    queued,         \* queries a connection has still to answer to nobody
    reqs,           \* how far each request is in its program
    db,             \* parts that are committed
    unsure, overlapped                          \* history

connection == <<conns, session, queued>>
tablesVars == <<connection, reqs, db, unsure, overlapped>>

-----------------------------------------------------------------------------
\* A program names what its statements do: "connect" takes a client for those
\* that follow; "ask", "count" and "put" are pool.query, which borrows one for
\* a statement of its own.  "all" is a query of one Promise.all on a client,
\* which sends them one after the other.  Reads of a kind that follow each other
\* are two.

\* rest.routes.ts, for callers with a key of the project: withIdentity, once, or
\* twice over the same client.
WithIdentity(op) == <<"connect", "begin", "claims", op, "commit">>
WithIdentityTwice(op) ==
    <<"connect", "begin", "claims", op, "commit", "begin", "claims", op, "commit">>
\* What is selected, filtered and ordered is left out.
Select == "read"
GetRows == WithIdentity(Select)
GetRowsAndCount == WithIdentityTwice(Select)
InsertRows == WithIdentity("write")
UpdateRows == WithIdentity("write")
DeleteRows == WithIdentity("write")

\* rest.routes.ts, for the dashboard.
HandleRows == <<"ask", "ask">>
HandleInsertRow == <<"ask", "put">>
HandleDeleteRow == <<"put">>

\* sql.routes.ts.  CancelQuery fails a statement of somebody else.
RunSql == <<"connect", "begin", "limit", "text", "commit">>
ExecuteSql == <<"connect", "begin", "limit", "text", "commit">>
ExplainSql == <<"connect", "begin", "limit", "text", "rollback">>
Catalog == "all"
SchemaCatalog == <<"connect", Catalog, Catalog>>
Diagnostics == <<"connect", "all", "all">>
CancelQuery == <<"ask">>

\* database.routes.ts.
Ddl == <<"connect", "begin", "write", "write", "commit">>
ListTables == <<"ask">>
DescribeTable == <<"ask", "ask">>
Relationships == <<"ask">>
Extensions == <<"ask">>
CreateTable == <<"count", "connect", "begin", "write", "write", "commit">>
DropTable == <<"put">>
AlterTable == <<"put", "put">>
AddColumn == <<"put">>
AlterColumn == Ddl
DropColumn == <<"put">>
AddConstraint == <<"put">>
CreateIndex == <<"put">>
DropIndex == <<"put">>
CreatePolicy == <<"put">>
DropPolicy == <<"put">>
SetRealtime == <<"put">>

\* import-export.routes.ts.
ExportTable == <<"ask">>
DryRun == <<"ask">>

\* Mutant of ImportTable: the batches are written without BEGIN.
ImportUnwrapped == <<"ask", "connect", "limit", "write", "write", "limit">>

ImportTable == <<"ask", "connect", "begin", "write", "write", "commit">>

Programs ==
    {GetRows, GetRowsAndCount, InsertRows, UpdateRows, DeleteRows,
     HandleRows, HandleInsertRow, HandleDeleteRow,
     RunSql, ExecuteSql, ExplainSql, SchemaCatalog, Diagnostics, CancelQuery,
     ListTables, DescribeTable, Relationships, Extensions, CreateTable, DropTable, AlterTable,
     AddColumn, AlterColumn, DropColumn, AddConstraint, CreateIndex, DropIndex,
     CreatePolicy, DropPolicy, SetRealtime, ExportTable, DryRun, ImportTable}

OfPool == {"ask", "count", "put"}
Op(r) == reqs[r].program[reqs[r].pc]
Has(r, op) == op \in Range(reqs[r].program)
Running(r) == reqs[r].at = "run"

\* The parts a request is there to commit.
Wanted(r) == {<<r, i>> : i \in {i \in DOMAIN reqs[r].program :
                                   reqs[r].program[i] \in {"put", "write"}}}

FreshConn == [holder |-> Nobody, tx |-> FALSE, claims |-> Nobody, pending |-> {}]
FreshSession == [kept |-> Nobody, now |-> Nobody]

TablesInit ==
    /\ conns = [c \in Conns |-> FreshConn]
    /\ session = [c \in Conns |-> FreshSession] /\ queued = [c \in Conns |-> 0]
    /\ reqs = [r \in Reqs |-> [program |-> <<>>, at |-> "new", pc |-> 1, conn |-> Nobody]]
    /\ db = {}
    /\ unsure = {} /\ overlapped = FALSE

-----------------------------------------------------------------------------
Free == {c \in Conns : conns[c].holder = Nobody}
\* A connection answers in the order it was asked.
Ready == {c \in Free : queued[c] = 0}

\* Mutant of Ended: the claims are set for the session.
EndedWithoutClaims(x) == [x EXCEPT !.tx = FALSE, !.pending = {}]

\* The end of a transaction takes what was LOCAL to it away.
Ended(x) == [x EXCEPT !.tx = FALSE, !.pending = {}, !.claims = Nobody]

\* Mutant of RolledBack: the error is thrown with the transaction open.
LeftOpen(x) == x

RolledBack(x) == Ended(x)

\* COMMIT keeps the settings of a session, ROLLBACK takes them back.
Keep(c) == session' = [session EXCEPT ![c].kept = session[c].now]
TakeBack(c) == session' = [session EXCEPT ![c].now = session[c].kept]

Release(x) == [x EXCEPT !.holder = Nobody]
PutConn(c, x) == conns' = [conns EXCEPT ![c] = x]

Over(r, at) == reqs' = [reqs EXCEPT ![r].at = at, ![r].conn = Nobody]

\* The next statement, or the answer; a client is released with the answer.
Advance(r, c, x) ==
    IF reqs[r].pc = Len(reqs[r].program)
    THEN Over(r, "ok") /\ PutConn(c, Release(x))
    ELSE reqs' = [reqs EXCEPT ![r].pc = @ + 1] /\ PutConn(c, x)

Arrive(r) ==
    /\ reqs[r].at = "new"
    /\ \E p \in Programs : reqs' = [reqs EXCEPT ![r].program = p, ![r].at = "run"]
    /\ UNCHANGED <<connection, db, unsure, overlapped>>

TakeClient(r) ==
    /\ Running(r) /\ Op(r) = "connect"
    /\ \E c \in Free :
          /\ PutConn(c, [conns[c] EXCEPT !.holder = r])
          /\ reqs' = [reqs EXCEPT ![r].conn = c, ![r].pc = @ + 1]
    /\ UNCHANGED <<session, queued, db, unsure, overlapped>>

\* connectionTimeoutMillis passes, outside every try.
ConnectTimesOut(r) ==
    /\ Running(r) /\ Op(r) \in OfPool \cup {"connect"} /\ Free = {}
    /\ Over(r, "error")
    /\ UNCHANGED <<connection, db, unsure, overlapped>>

\* What r writes, in the transaction that is open or by itself.
Write(r, c) ==
    IF conns[c].tx
    THEN Advance(r, c, [conns[c] EXCEPT !.pending = @ \cup {<<r, reqs[r].pc>>}]) /\ db' = db
    ELSE Advance(r, c, conns[c]) /\ db' = db \cup {<<r, reqs[r].pc>>}

Begin(r, c) ==
    /\ Op(r) = "begin"
    /\ Advance(r, c, [conns[c] EXCEPT !.tx = TRUE])
    /\ UNCHANGED <<session, db, unsure>>

\* set_config(..., true) and SET LOCAL; without a transaction they are void.
Claim(r, c) ==
    /\ Op(r) = "claims"
    /\ Advance(r, c, [conns[c] EXCEPT !.claims = IF conns[c].tx THEN r ELSE @])
    /\ UNCHANGED <<session, db, unsure>>

Read(r, c) ==
    /\ Op(r) \in {"read", "all", "limit"}
    /\ Advance(r, c, conns[c])
    /\ UNCHANGED <<session, db, unsure>>

\* The text of the console, EXPLAIN's too: it writes or not, it may SET
\* something for the session, and it may hold a COMMIT.
Text(r, c) ==
    /\ Op(r) = "text"
    /\ \E now \in {session[c].now, r} :
          \/ /\ \/ Write(r, c)
                \/ Advance(r, c, conns[c]) /\ UNCHANGED db
             /\ session' = [session EXCEPT ![c].now = now]
             /\ UNCHANGED unsure
          \/ /\ Advance(r, c, Ended(conns[c]))
             /\ session' = [session EXCEPT ![c] = [kept |-> now, now |-> now]]
             /\ db' = db \cup {<<r, reqs[r].pc>>}
             /\ unsure' = unsure \cup {r}

Commit(r, c) ==
    /\ Op(r) = "commit"
    /\ Advance(r, c, Ended(conns[c])) /\ Keep(c)
    /\ db' = db \cup conns[c].pending
    /\ unsure' = unsure

Statement(r) ==
    /\ Running(r) /\ reqs[r].conn # Nobody /\ queued[reqs[r].conn] = 0
    /\ LET c == reqs[r].conn IN
          \/ Begin(r, c) \/ Claim(r, c) \/ Read(r, c) \/ Text(r, c) \/ Commit(r, c)
          \/ Op(r) = "write" /\ Write(r, c) /\ UNCHANGED <<session, unsure>>
          \/ /\ Op(r) = "rollback"
             /\ Advance(r, c, RolledBack(conns[c])) /\ TakeBack(c)
             /\ UNCHANGED <<db, unsure>>
    /\ UNCHANGED <<queued, overlapped>>

\* A statement fails, COMMIT included: ROLLBACK, release, and an error.  A
\* text may have committed some of itself before.  Of a Promise.all the first
\* failure is the answer: the client is released with the rest still queued.
StatementFails(r) ==
    /\ Running(r) /\ reqs[r].conn # Nobody /\ queued[reqs[r].conn] = 0
    /\ LET c == reqs[r].conn IN
          /\ PutConn(c, Release(RolledBack(conns[c])))
          /\ queued' = [queued EXCEPT ![c] =
                           IF Op(r) = "all" THEN Len(reqs[r].program) - reqs[r].pc ELSE 0]
          /\ \/ TakeBack(c) /\ UNCHANGED <<db, unsure>>
             \/ /\ Op(r) = "text"
                /\ \E now \in {session[c].now, r} :
                      session' = [session EXCEPT ![c] = [kept |-> now, now |-> now]]
                /\ db' = db \cup {<<r, reqs[r].pc>>} /\ unsure' = unsure \cup {r}
    /\ Over(r, "error")
    /\ UNCHANGED overlapped

\* A query that was left over is answered, or fails: nobody listens.
Drain(c) ==
    /\ queued[c] > 0
    /\ queued' = [queued EXCEPT ![c] = @ - 1]
    /\ UNCHANGED <<conns, session, reqs, db, unsure, overlapped>>

\* The connection goes, and the pool opens another in its place.
ConnectionLost(r) ==
    /\ Running(r) /\ reqs[r].conn # Nobody
    /\ LET c == reqs[r].conn IN
          /\ PutConn(c, FreshConn)
          /\ session' = [session EXCEPT ![c] = FreshSession]
          /\ queued' = [queued EXCEPT ![c] = 0]
          /\ \/ UNCHANGED <<db, unsure>>
             \/ /\ Op(r) = "commit"
                /\ db' = db \cup conns[c].pending /\ unsure' = unsure \cup {r}
    /\ Over(r, "error")
    /\ UNCHANGED overlapped

-----------------------------------------------------------------------------
TablesOf(parts) == {r \in Reqs : Has(r, "count") /\ \E p \in parts : p[1] = r}

\* Mutant of Admits: the table that is about to be created is not counted.
AdmitsOneMore(count) == count <= MaxTables

\* enforceQuota(max_tables) of the count and one.
Admits(count) == count + 1 <= MaxTables

\* Other creations that have counted and not finished.
CountedBefore(r) == {o \in Reqs \ {r} : Running(o) /\ Has(o, "count") /\ reqs[o].pc > 1}

Count(r) ==
    /\ Running(r) /\ Op(r) = "count" /\ Ready # {}
    /\ IF Admits(Cardinality(TablesOf(db)))
       THEN reqs' = [reqs EXCEPT ![r].pc = @ + 1] /\ overlapped' = (overlapped \/ CountedBefore(r) # {})
       ELSE Over(r, "error") /\ UNCHANGED overlapped
    /\ UNCHANGED <<connection, db, unsure>>

Query(r) ==
    /\ Running(r) /\ Op(r) \in {"ask", "put"}
    /\ \E c \in Ready :
          IF Op(r) = "put" THEN Write(r, c) ELSE Advance(r, c, conns[c]) /\ db' = db
    /\ UNCHANGED <<session, queued, unsure, overlapped>>

\* An error, or an answer that is lost when the statement was done.
QueryFails(r) ==
    /\ Running(r) /\ Op(r) \in OfPool /\ Ready # {}
    /\ Over(r, "error")
    /\ \/ UNCHANGED <<db, unsure>>
       \/ Op(r) = "put" /\ db' = db \cup {<<r, reqs[r].pc>>} /\ unsure' = unsure \cup {r}
    /\ UNCHANGED <<connection, overlapped>>

TablesNext ==
    \/ \E r \in Reqs :
        \/ Arrive(r) \/ TakeClient(r) \/ ConnectTimesOut(r)
        \/ Statement(r) \/ StatementFails(r) \/ ConnectionLost(r)
        \/ Count(r) \/ Query(r) \/ QueryFails(r)
    \/ \E c \in Conns : Drain(c)

-----------------------------------------------------------------------------
(* Connections come back, and come back clean (the finally and the catch of *)
(* every handler): one is either held by a request that is still running,  *)
(* or idle with no transaction open, whatever failed and wherever.         *)
ConnectionsComeBack ==
    \A c \in Conns :
        LET h == conns[c].holder
        IN  IF h = Nobody THEN ~conns[c].tx /\ conns[c].pending = {}
            ELSE Running(h) /\ reqs[h].conn = c

\* Whose claims a statement on the connection would run under.
InForce(c) == IF conns[c].claims # Nobody THEN conns[c].claims ELSE session[c].now

(* A statement of the data API runs under the claims of its own request,    *)
(* "exactly as ... a direct connection" (rest.routes.ts:82-84), whatever    *)
(* the session was left with; and what such a request set reaches no other  *)
(* that gets the connection, the dashboard's least of all, which claim      *)
(* nothing.  Only the text of a console may leave settings to the next one: *)
(* a SET, or set_config(..., false), outlives the COMMIT of sql.routes.ts.  *)
ClaimsAreTheCallers ==
    \A c \in Conns :
        LET r == conns[c].holder
        IN  IF r # Nobody /\ Has(r, "claims")
            THEN Op(r) \in {"read", "write"} => InForce(c) = r
            ELSE InForce(c) # Nobody => Has(InForce(c), "text")

(* "Import failed and nothing was written" (import-export.routes.ts:266),   *)
(* and so for every request but the change of a table, which runs its       *)
(* statements one by one (database.routes.ts:245-247): an error means none  *)
(* of its parts is there and success that all are, unless its text ended    *)
(* the transaction or the answer to its last statement was lost.            *)
AllOrNothing ==
    \A r \in Reqs \ unsure :
        /\ reqs[r].at = "ok" => Wanted(r) \subseteq db
        /\ reqs[r].at = "error" /\ reqs[r].program # AlterTable => \A p \in db : p[1] # r

(* A project does not get more tables than max_tables by way of the API     *)
(* (database.routes.ts:162-169), unless two creations overlapped: the count *)
(* is not part of the transaction that adds to it.                          *)
TablesWithinQuota == overlapped \/ Cardinality(TablesOf(db)) <= MaxTables
=============================================================================
