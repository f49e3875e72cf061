------------------------------ MODULE Projects ------------------------------
(***************************************************************************)
(* The life of a project (projects.routes.ts, provisioner.ts): a row on    *)
(* the platform, a role and a database in the cluster, keys, quotas and a  *)
(* bucket, built and torn down one statement at a time while it is in use; *)
(* and the operators of the platform (admin.routes.ts), who may suspend it.*)
(*                                                                         *)
(* deleted, crossed and unrecorded are history: projects whose deletion    *)
(* ran to its end, those deleted while they were created, and those whose  *)
(* creation ended between CREATE ROLE and their connection's row; split    *)
(* says that two requests were about to take operators away at once.       *)
(***************************************************************************)
EXTENDS Naturals, Sequences, FiniteSets

CONSTANTS
    Projects,       \* refs, given once
    Requests,       \* requests at a time
    Operators,      \* users, all of them operators at first
    None

\* Somebody keeps the platform from the start.
ASSUME OperatorsAssumption == Operators # {}

VARIABLES
    status,         \* projects.status; "none" for no row
    gone,           \* projects with deleted_at
    cluster,        \* roles, databases and schemas there are, by project
    rows,           \* what the platform keeps of a project
    pools,          \* projects with a pool in the map
    sessions,       \* projects with sessions in their database
    suspended,      \* projects whose quotas are zero
    operators,      \* users with is_platform_admin
    requests,
    deleted, crossed, unrecorded, split         \* history

tenant == <<status, gone, cluster, rows>>
use == <<pools, sessions, suspended>>
history == <<deleted, crossed, unrecorded>>
admin == <<operators, split>>
vars == <<tenant, use, admin, requests, history>>

-----------------------------------------------------------------------------
\* What POST /projects does after the row, in its order.
Steps == <<"role", "database", "schema", "connection", "keys", "quotas", "active", "bucket">>
InCluster == {"role", "database", "schema"}
OnPlatform == {"connection", "keys", "quotas", "bucket"}

Idle == [at |-> "idle", project |-> None, step |-> 0, known |-> FALSE, user |-> None]
Set(r, x) == requests' = [requests EXCEPT ![r] = x]
At(r, at) == requests[r].at = at
Of(r) == requests[r].project
Tearing == {"deleting", "evict", "terminate", "dropDatabase", "dropRole", "delete"}
Creating(p) == \E r \in Requests : Of(r) = p /\ requests[r].at \in {"create", "fail"}

Init ==
    /\ status = [p \in Projects |-> "none"] /\ gone = {}
    /\ cluster = [p \in Projects |-> {}] /\ rows = [p \in Projects |-> {}]
    /\ pools = {} /\ sessions = {} /\ suspended = {}
    /\ operators = Operators
    /\ requests = [r \in Requests |-> Idle]
    /\ deleted = {} /\ crossed = {} /\ unrecorded = {} /\ split = FALSE

-----------------------------------------------------------------------------
\* POST /projects: project and owner in one transaction.
InsertProject(r, p) ==
    /\ At(r, "idle") /\ status[p] = "none"
    /\ status' = [status EXCEPT ![p] = "provisioning"]
    /\ Set(r, [Idle EXCEPT !.at = "create", !.project = p, !.step = 1])
    /\ UNCHANGED <<gone, cluster, rows, use, admin, history>>

\* Mutant of Built: the project is served before it is whole.
BuiltEarly(p, step) ==
    /\ cluster' = [cluster EXCEPT ![p] = @ \cup ({step} \cap InCluster)]
    /\ rows' = [rows EXCEPT ![p] = @ \cup ({step} \cap OnPlatform)]
    /\ status' = IF step = "connection" THEN [status EXCEPT ![p] = "active"] ELSE status

Built(p, step) ==
    /\ cluster' = [cluster EXCEPT ![p] = @ \cup ({step} \cap InCluster)]
    /\ rows' = [rows EXCEPT ![p] = @ \cup ({step} \cap OnPlatform)]
    /\ status' = IF step = "active" THEN [status EXCEPT ![p] = "active"] ELSE status

\* The next of Steps; a schema needs its database still to be there.
Provision(r) ==
    LET p == Of(r)
        i == requests[r].step
    IN
    /\ At(r, "create")
    /\ Steps[i] = "schema" => "database" \in cluster[p]
    /\ Built(p, Steps[i])
    /\ Set(r, IF i < Len(Steps) THEN [requests[r] EXCEPT !.step = i + 1] ELSE Idle)
    /\ UNCHANGED <<gone, use, admin, history>>

Unrecorded(r) ==
    unrecorded' = IF requests[r].step \in 2..4 THEN unrecorded \cup {Of(r)} ELSE unrecorded

\* One of them fails: into the catch block.
ProvisionFails(r) ==
    /\ At(r, "create")
    /\ Set(r, [requests[r] EXCEPT !.at = "fail"])
    /\ Unrecorded(r)
    /\ UNCHANGED <<tenant, use, admin, deleted, crossed>>

MarkFailed(r) ==
    /\ At(r, "fail")
    /\ status' = [status EXCEPT ![Of(r)] = "failed"]
    /\ Set(r, Idle)
    /\ UNCHANGED <<gone, cluster, rows, use, admin, history>>

-----------------------------------------------------------------------------
\* A request with a key of the project, or of a member, borrows a pool: all it
\* takes is the row of the connection, and a key.
UsePool(p) ==
    /\ {"connection", "keys"} \subseteq rows[p]
    /\ pools' = pools \cup {p}
    /\ sessions' = IF "database" \in cluster[p] THEN sessions \cup {p} ELSE sessions
    /\ UNCHANGED <<tenant, suspended, admin, requests, history>>

\* DELETE /projects/:id: the row of the connection is read.
DeleteProject(r, p) ==
    /\ At(r, "idle") /\ status[p] # "none" /\ p \notin gone
    /\ Set(r, [Idle EXCEPT !.at = "deleting", !.project = p, !.known = "connection" \in rows[p]])
    /\ crossed' = IF Creating(p) THEN crossed \cup {p} ELSE crossed
    /\ UNCHANGED <<tenant, use, admin, deleted, unrecorded>>

MarkDeleting(r) ==
    /\ At(r, "deleting")
    /\ status' = [status EXCEPT ![Of(r)] = "deleting"]
    /\ Set(r, [requests[r] EXCEPT !.at = "evict"])
    /\ UNCHANGED <<gone, cluster, rows, use, admin, history>>

\* poolManager.evict
Evict(r) ==
    /\ At(r, "evict")
    /\ pools' = pools \ {Of(r)} /\ sessions' = sessions \ {Of(r)}
    /\ Set(r, [requests[r] EXCEPT !.at = IF requests[r].known THEN "terminate" ELSE "delete"])
    /\ UNCHANGED <<tenant, suspended, admin, history>>

\* pg_terminate_backend; the sessions of a client that reconnects come after.
Terminate(r) ==
    /\ At(r, "terminate")
    /\ sessions' = sessions \ {Of(r)}
    /\ Set(r, [requests[r] EXCEPT !.at = "dropDatabase"])
    /\ UNCHANGED <<tenant, pools, suspended, admin, history>>

\* DROP DATABASE IF EXISTS, which a session of another keeps from working.
DropDatabase(r) ==
    /\ At(r, "dropDatabase") /\ Of(r) \notin sessions
    /\ cluster' = [cluster EXCEPT ![Of(r)] = @ \ {"database", "schema"}]
    /\ Set(r, [requests[r] EXCEPT !.at = "dropRole"])
    /\ UNCHANGED <<status, gone, rows, use, admin, history>>

DropRole(r) ==
    /\ At(r, "dropRole") /\ "database" \notin cluster[Of(r)]
    /\ cluster' = [cluster EXCEPT ![Of(r)] = @ \ {"role"}]
    /\ Set(r, [requests[r] EXCEPT !.at = "delete"])
    /\ UNCHANGED <<status, gone, rows, use, admin, history>>

\* Mutant of TearDownFails: what could not be dropped is left for later.
TearDownGoesOn(r) ==
    /\ requests[r].at \in Tearing
    /\ Set(r, IF requests[r].at = "dropDatabase" THEN [requests[r] EXCEPT !.at = "delete"] ELSE Idle)
    /\ UNCHANGED <<tenant, use, admin, history>>

\* A statement fails or the API goes down; the deletion may be asked for again.
TearDownFails(r) ==
    /\ requests[r].at \in Tearing
    /\ Set(r, Idle)
    /\ UNCHANGED <<tenant, use, admin, history>>

\* deleted_at, and the status "paused".
MarkDeleted(r) ==
    /\ At(r, "delete")
    /\ gone' = gone \cup {Of(r)} /\ status' = [status EXCEPT ![Of(r)] = "paused"]
    /\ deleted' = deleted \cup {Of(r)}
    /\ Set(r, Idle)
    /\ UNCHANGED <<cluster, rows, use, admin, crossed, unrecorded>>

-----------------------------------------------------------------------------
\* The API goes down during a creation.
CreationDies(r) ==
    /\ requests[r].at \in {"create", "fail"}
    /\ Unrecorded(r)
    /\ Set(r, Idle)
    /\ UNCHANGED <<tenant, use, admin, deleted, crossed>>

\* POST /admin/projects/:ref/suspend: the row of the quotas, if there is one,
\* is set to zero.
Suspend(r, p) ==
    /\ At(r, "idle") /\ operators # {} /\ status[p] # "none" /\ p \notin gone
    /\ suspended' = IF "quotas" \in rows[p] THEN suspended \cup {p} ELSE suspended
    /\ Set(r, [Idle EXCEPT !.at = "suspend", !.project = p])
    /\ UNCHANGED <<tenant, pools, sessions, admin, history>>

\* ... the cached quotas have been dropped, or not: poolManager.evict.
SuspendEvicts(r) ==
    /\ At(r, "suspend")
    /\ pools' = pools \ {Of(r)} /\ sessions' = sessions \ {Of(r)}
    /\ Set(r, Idle)
    /\ UNCHANGED <<tenant, suspended, admin, history>>

\* ... or the API goes down first.
SuspendFails(r) ==
    /\ At(r, "suspend")
    /\ Set(r, Idle)
    /\ UNCHANGED <<tenant, use, admin, history>>

\* PATCH quotas of an operator lifts it.
Resume(p) ==
    /\ operators # {} /\ p \in suspended
    /\ suspended' = suspended \ {p}
    /\ UNCHANGED <<tenant, pools, sessions, admin, requests, history>>

\* PATCH /admin/users/:id/admin, granting.
GrantAdmin(u) ==
    /\ operators # {} /\ u \notin operators
    /\ operators' = operators \cup {u}
    /\ UNCHANGED <<tenant, use, split, requests, history>>

\* bootstrapAdmins, when the API starts: PLATFORM_OPERATORS, whoever that is.
BootstrapAdmins ==
    /\ \A r \in Requests : At(r, "idle")
    /\ \E us \in SUBSET Operators : operators' = operators \cup us
    /\ UNCHANGED <<tenant, use, split, requests, history>>

OthersRemain(u) == operators \ {u} # {}

\* Mutant of CountOperators: who asks is checked, not whom it is about.
CountNobody(r, by, u) ==
    /\ At(r, "idle") /\ by \in operators
    /\ Set(r, [Idle EXCEPT !.at = "revoke", !.user = u])
    /\ split' = (split \/ \E o \in Requests : At(o, "revoke"))
    /\ UNCHANGED <<tenant, use, operators, history>>

\* Revoking: nobody's own, and not the last one's, who are counted before.
CountOperators(r, by, u) ==
    /\ At(r, "idle") /\ by \in operators /\ by # u /\ OthersRemain(u)
    /\ Set(r, [Idle EXCEPT !.at = "revoke", !.user = u])
    /\ split' = (split \/ \E o \in Requests : At(o, "revoke"))
    /\ UNCHANGED <<tenant, use, operators, history>>

RevokeAdmin(r) ==
    /\ At(r, "revoke")
    /\ operators' = operators \ {requests[r].user}
    /\ Set(r, Idle)
    /\ UNCHANGED <<tenant, use, split, history>>

-----------------------------------------------------------------------------
Next ==
    \/ \E r \in Requests, p \in Projects :
          InsertProject(r, p) \/ DeleteProject(r, p) \/ Suspend(r, p)
    \/ \E r \in Requests :
          \/ Provision(r) \/ ProvisionFails(r) \/ MarkFailed(r) \/ CreationDies(r)
          \/ MarkDeleting(r) \/ Evict(r) \/ Terminate(r) \/ DropDatabase(r) \/ DropRole(r)
          \/ MarkDeleted(r) \/ TearDownFails(r)
          \/ SuspendEvicts(r) \/ SuspendFails(r)
          \/ RevokeAdmin(r) \/ \E by, u \in Operators : CountOperators(r, by, u)
    \/ \E p \in Projects : UsePool(p) \/ Resume(p)
    \/ BootstrapAdmins \/ \E u \in Operators : GrantAdmin(u)

Spec == Init /\ [][Next]_vars

-----------------------------------------------------------------------------
\* A creation, a deletion or a suspension is of a project, a revocation of an operator.
Request ==
    [at : {"idle"}, project : {None}, step : {0}, known : {FALSE}, user : {None}]
    \cup [at : {"create", "fail"}, project : Projects, step : 1..Len(Steps), known : {FALSE},
          user : {None}]
    \cup [at : Tearing, project : Projects, step : {0}, known : BOOLEAN, user : {None}]
    \cup [at : {"suspend"}, project : Projects, step : {0}, known : {FALSE}, user : {None}]
    \cup [at : {"revoke"}, project : {None}, step : {0}, known : {FALSE}, user : Operators]

\* Projects, what they own and requests keep their shape.
TypeOK ==
    /\ status \in [Projects -> {"none", "provisioning", "active", "failed", "deleting", "paused"}]
    /\ gone \cup pools \cup sessions \cup suspended \subseteq Projects
    /\ cluster \in [Projects -> SUBSET InCluster] /\ rows \in [Projects -> SUBSET OnPlatform]
    /\ operators \subseteq Operators
    /\ deleted \cup crossed \cup unrecorded \subseteq Projects /\ split \in BOOLEAN
    /\ requests \in [Requests -> Request]

(* A project that is "active" has its role, its database with its schema,   *)
(* its connection, keys and quotas (projects.routes.ts:139-151), through    *)
(* failures and deletions that stop half way, unless it was deleted while   *)
(* it was created.                                                          *)
ActiveIsWhole ==
    \A p \in Projects \ crossed :
        status[p] = "active" =>
            /\ InCluster = cluster[p]
            /\ {"connection", "keys", "quotas"} \subseteq rows[p]

(* A project that was deleted has left nothing in the cluster               *)
(* (projects.routes.ts:205-208), however often its deletion failed on the   *)
(* way and whoever used it meanwhile, unless it was deleted while it was    *)
(* created or its connection was never written down.                        *)
DeletedLeavesNothing ==
    \A p \in deleted \ (crossed \cup unrecorded) : cluster[p] = {}

(* The platform keeps an operator (admin.routes.ts:220-232), unless two     *)
(* requests to take one away overlapped.                                    *)
OperatorRemains == split \/ operators # {}
=============================================================================
