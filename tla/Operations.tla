----------------------------- MODULE Operations -----------------------------
(***************************************************************************)
(* The operations API (operations.routes.ts, events.ts) with the worker it *)
(* queues jobs for: webhooks, backups, and the migrations of one project.  *)
(*                                                                         *)
(* A migration lives in two databases.  Its SQL and its row of             *)
(* schema_migrations change in one transaction of the project's database;  *)
(* applied_at is a statement of its own in the platform's.  Every          *)
(* migration here has a down script; one without is never rolled back.     *)
(*                                                                         *)
(* crossed and lost are history: migrations two requests were about at     *)
(* once, and those whose request ended between the two databases, or whose *)
(* script had committed by itself what was then not recorded.              *)
(***************************************************************************)
EXTENDS Jobs, Integers

CONSTANTS
    Requests,       \* requests at a time
    Names           \* migrations of the project

ASSUME NamesAssumption == None \notin Names

VARIABLES
    deleted,        \* webhooks that are gone; an id is never used again
    requests,       \* what each request does
    applied,        \* project_migrations: "none", "no" or "yes" (applied_at)
    ledger,         \* schema_migrations of the project
    net,            \* times up_sql ran and down_sql did not undo it
    crossed,        \* history
    lost            \* history

migrationVars == <<applied, ledger, net, crossed, lost>>
vars == <<jobVars, deleted, requests, migrationVars>>

-----------------------------------------------------------------------------
Request == [at : {"idle", "add", "sql", "mark"}, job : JobIds \cup {None},
            name : Names \cup {None}, op : {"none", "apply", "rollback"}]
Waits == [at |-> "idle", job |-> None, name |-> None, op |-> "none"]

Set(r, x) == requests' = [requests EXCEPT ![r] = x]
At(r, at) == requests[r].at = at

Init ==
    /\ JobsInit
    /\ deleted = {}
    /\ requests = [r \in Requests |-> Waits]
    /\ applied = [n \in Names |-> "none"]
    /\ ledger = {}
    /\ net = [n \in Names |-> 0]
    /\ crossed = {} /\ lost = {}

-----------------------------------------------------------------------------
\* POST webhooks; an endpoint that is not public is refused before.
CreateWebhook(h) ==
    /\ h \notin hooks \cup deleted
    /\ hooks' = hooks \cup {h}
    /\ UNCHANGED <<jobs, execs, succeeded, backups, objects, again, trouble,
                   deleted, requests, migrationVars>>

\* DELETE webhooks/:id, and the rows of its deliveries with it.
DeleteWebhook(h) ==
    /\ h \in hooks
    /\ hooks' = hooks \ {h} /\ deleted' = deleted \cup {h}
    /\ succeeded' = [j \in JobIds |-> succeeded[j] \ {h}]
    /\ UNCHANGED <<jobs, execs, backups, objects, again, trouble, requests, migrationVars>>

\* publishEvent; a failure of Redis is logged, and nothing is queued.
PublishEvent(j) ==
    /\ jobs[j].kind = "none" /\ backups[j].status = "none"
    /\ Enqueue(j, "webhook")
    /\ UNCHANGED <<execs, hooks, succeeded, backups, objects, again, trouble,
                   deleted, requests, migrationVars>>

\* POST webhooks/:id/test
TestWebhook(j) ==
    /\ jobs[j].kind = "none" /\ backups[j].status = "none" /\ hooks # {}
    /\ Enqueue(j, "test")
    /\ UNCHANGED <<execs, hooks, succeeded, backups, objects, again, trouble,
                   deleted, requests, migrationVars>>

\* POST backups: the row, and then the job.
InsertBackup(r, j) ==
    /\ At(r, "idle") /\ jobs[j].kind = "none" /\ backups[j].status = "none"
    /\ Mark(j, "pending")
    /\ Set(r, [Waits EXCEPT !.at = "add", !.job = j])
    /\ UNCHANGED <<jobs, execs, hooks, succeeded, objects, again, trouble,
                   deleted, migrationVars>>

AddBackup(r) ==
    /\ At(r, "add")
    /\ Enqueue(requests[r].job, "backup")
    /\ Set(r, Waits)
    /\ UNCHANGED <<execs, hooks, succeeded, backups, objects, again, trouble,
                   deleted, migrationVars>>

-----------------------------------------------------------------------------
\* POST migrations; a second one of that name meets the check or the UNIQUE.
CreateMigration(n) ==
    /\ applied[n] = "none"
    /\ applied' = [applied EXCEPT ![n] = "no"]
    /\ UNCHANGED <<jobVars, deleted, requests, ledger, net, crossed, lost>>

Before(op) == IF op = "apply" THEN "no" ELSE "yes"
After(op) == IF op = "apply" THEN "yes" ELSE "no"

\* POST migrations/:id/apply and /rollback: the row is read and judged.
ReadMigration(r, n, op) ==
    /\ At(r, "idle") /\ applied[n] = Before(op)
    /\ Set(r, [Waits EXCEPT !.at = "sql", !.name = n, !.op = op])
    /\ crossed' = IF \E o \in Requests : requests[o].name = n THEN crossed \cup {n} ELSE crossed
    /\ UNCHANGED <<jobVars, deleted, applied, ledger, net, lost>>

Transaction(r) ==
    LET n == requests[r].name IN
    IF requests[r].op = "apply"
    THEN /\ ledger' = ledger \cup {n}
         /\ net' = [net EXCEPT ![n] = @ + 1]
    ELSE /\ ledger' = ledger \ {n}
         /\ net' = [net EXCEPT ![n] = @ - 1]

\* Mutant of Commit: the answer of COMMIT is not waited for.
CommitUnawaited(r) ==
    /\ At(r, "sql")
    /\ Transaction(r) \/ UNCHANGED <<ledger, net>>
    /\ Set(r, [requests[r] EXCEPT !.at = "mark"])
    /\ UNCHANGED <<jobVars, deleted, applied, crossed, lost>>

\* Script and ledger change together.
Commit(r) ==
    /\ At(r, "sql")
    /\ Transaction(r)
    /\ Set(r, [requests[r] EXCEPT !.at = "mark"])
    /\ UNCHANGED <<jobVars, deleted, applied, crossed, lost>>

\* The script fails, and what it did is rolled back.
RollBack(r) ==
    /\ At(r, "sql")
    /\ Set(r, Waits)
    /\ UNCHANGED <<jobVars, deleted, migrationVars>>

\* A script is any text, COMMIT among it: it fails, or its ledger entry does, after what
\* it did was committed, which is reported as rolled back.
CommittedByScript(r) ==
    /\ At(r, "sql")
    /\ LET n == requests[r].name
       IN  /\ net' = [net EXCEPT ![n] = @ + IF requests[r].op = "apply" THEN 1 ELSE -1]
           /\ lost' = lost \cup {n}
    /\ Set(r, Waits)
    /\ UNCHANGED <<jobVars, deleted, applied, ledger, crossed>>

\* The connection is lost with the answer of COMMIT: reported as a failure.
CommitUnanswered(r) ==
    /\ At(r, "sql")
    /\ Transaction(r)
    /\ lost' = lost \cup {requests[r].name}
    /\ Set(r, Waits)
    /\ UNCHANGED <<jobVars, deleted, applied, crossed>>

\* UPDATE project_migrations SET applied_at.
MarkMigration(r) ==
    /\ At(r, "mark")
    /\ applied' = [applied EXCEPT ![requests[r].name] = After(requests[r].op)]
    /\ Set(r, Waits)
    /\ UNCHANGED <<jobVars, deleted, ledger, net, crossed, lost>>

\* A statement fails, Redis does not answer, or the API goes down.
HandlerDies(r) ==
    /\ requests[r].at \in {"add", "sql", "mark"}
    /\ lost' = IF At(r, "mark") THEN lost \cup {requests[r].name} ELSE lost
    /\ trouble' = IF At(r, "add") THEN trouble \cup {requests[r].job} ELSE trouble
    /\ Set(r, Waits)
    /\ UNCHANGED <<jobs, execs, hooks, succeeded, backups, objects, again,
                   deleted, applied, ledger, net, crossed>>

-----------------------------------------------------------------------------
Api(r) ==
    \/ \E j \in JobIds : InsertBackup(r, j)
    \/ \E n \in Names, op \in {"apply", "rollback"} : ReadMigration(r, n, op)
    \/ AddBackup(r) \/ Commit(r) \/ RollBack(r) \/ CommittedByScript(r) \/ CommitUnanswered(r)
    \/ MarkMigration(r) \/ HandlerDies(r)

Work == JobsNext /\ UNCHANGED <<deleted, requests, migrationVars>>

Next ==
    \/ Work
    \/ \E r \in Requests : Api(r)
    \/ \E h \in Hooks : CreateWebhook(h) \/ DeleteWebhook(h)
    \/ \E j \in JobIds : PublishEvent(j) \/ TestWebhook(j)
    \/ \E n \in Names : CreateMigration(n)

\* The handlers that inserted a row go on to queue its job, or fail.
Spec ==
    /\ Init /\ [][Next]_vars
    /\ \A e \in Execs : WF_vars(Progress(e) /\ UNCHANGED <<deleted, requests, migrationVars>>)
    /\ \A j \in JobIds : WF_vars(Stalled(j) /\ UNCHANGED <<deleted, requests, migrationVars>>)
    /\ \A r \in Requests : WF_vars(AddBackup(r))

-----------------------------------------------------------------------------
\* Requests, rows and ledgers keep their shape.
TypeOK ==
    /\ JobsTypeOK
    /\ deleted \subseteq Hooks /\ requests \in [Requests -> Request]
    /\ applied \in [Names -> {"none", "no", "yes"}]
    /\ ledger \subseteq Names /\ net \in [Names -> Int]
    /\ crossed \subseteq Names /\ lost \subseteq Names

(* A migration is "applied" on the platform (operations.routes.ts:177, 206) *)
(* exactly when the project's ledger has it and its script ran once more    *)
(* than it was undone - except while, or after, two requests about it       *)
(* overlapped, one ended between the databases, or a script that commits by *)
(* itself failed, which line 172 calls rolled back.                         *)
MigrationInStep ==
    \A n \in Names \ (crossed \cup lost) :
        (\A r \in Requests : requests[r].name # n) =>
            /\ applied[n] = "yes" <=> n \in ledger
            /\ net[n] = IF applied[n] = "yes" THEN 1 ELSE 0
=============================================================================
