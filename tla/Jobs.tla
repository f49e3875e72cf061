-------------------------------- MODULE Jobs --------------------------------
(***************************************************************************)
(* The worker process (workers/index.ts): webhook delivery and backups,    *)
(* statement by statement, under a queue that retries them.                *)
(*                                                                         *)
(* The queue is BullMQ, external: a job is waiting, active under a lock,   *)
(* or over; a lock that is not renewed, because the worker went down or    *)
(* hung, makes the job stalled, and it is taken again once.  An execution  *)
(* that lost its lock goes on unaware.  Backoff is the time a job waits.   *)
(*                                                                         *)
(* again and trouble are history: jobs that called an endpoint again after *)
(* a recorded success, and jobs in which a lock, a worker or a statement   *)
(* was lost, or a secret could not be read.                                *)
(***************************************************************************)
EXTENDS Naturals, FiniteSets

CONSTANTS
    JobIds,         \* jobs; a backup job is for the backup of its own name
    Execs,          \* executions at a time
    Hooks,          \* endpoints subscribed to the event
    WebhookAttempts,\* attempts of a webhook job: 6
    BackupAttempts, \* attempts of a backup job: 2
    MaxStalls,      \* BullMQ's maxStalledCount
    None

ASSUME AttemptsAssumption ==
    /\ WebhookAttempts \in Nat \ {0} /\ BackupAttempts \in Nat \ {0} /\ MaxStalls \in Nat
ASSUME NobodyAssumption == None \notin JobIds \cup Execs \cup Hooks

VARIABLES
    jobs,           \* the two queues
    execs,          \* what each execution does
    hooks,          \* webhooks that exist and are active
    succeeded,      \* webhook_deliveries with succeeded, by job and hook
    backups,        \* database_backups: status, storage_key, error
    objects,        \* archives in storage, by job and execution
    again,          \* history
    trouble         \* history

jobVars == <<jobs, execs, hooks, succeeded, backups, objects, again, trouble>>

-----------------------------------------------------------------------------
Attempts(j) == CASE jobs[j].kind = "webhook" -> WebhookAttempts
                 [] jobs[j].kind = "test" -> 1
                 [] OTHER -> BackupAttempts
MaxRuns == WebhookAttempts + BackupAttempts + MaxStalls

\* made is attemptsMade, runs numbers the executions, owner holds the lock.
Job == [kind : {"none", "webhook", "test", "backup"},
        at : {"none", "waiting", "active", "completed", "failed"},
        made : 0..MaxRuns, stalls : 0..MaxStalls, runs : 0..MaxRuns,
        owner : Execs \cup {None}]
NoJob == [kind |-> "none", at |-> "none", made |-> 0, stalls |-> 0, runs |-> 0, owner |-> None]

\* left are the hooks still to be called, hook the one that is being called;
\* key is the archive of a backup.
Exec == [job : JobIds \cup {None},
         at : {"idle", "start", "call", "record", "dump", "mark", "verify", "complete",
               "fail", "end", "throw", "hung"},
         left : SUBSET Hooks, hook : Hooks \cup {None}, ok : BOOLEAN,
         delivered : BOOLEAN, error : BOOLEAN, key : 0..MaxRuns]
Idle == [job |-> None, at |-> "idle", left |-> {}, hook |-> None, ok |-> FALSE,
         delivered |-> FALSE, error |-> FALSE, key |-> 0]

\* What is in storage: a "cut" archive has its table of contents and not all of its
\* data, a "bad" one does not parse.
Archives == {"none", "good", "cut", "bad"}
Listable == {"good", "cut"}

Put(e, x) == execs' = [execs EXCEPT ![e] = x]
Go(e, at) == Put(e, [execs[e] EXCEPT !.at = at])
On(e, at) == execs[e].at = at
Troubled(j) == trouble' = trouble \cup {j}
Running(j) == {e \in Execs : execs[e].job = j}

JobsInit ==
    /\ jobs = [j \in JobIds |-> NoJob]
    /\ execs = [e \in Execs |-> Idle]
    /\ hooks = {}
    /\ succeeded = [j \in JobIds |-> {}]
    /\ backups = [j \in JobIds |-> [status |-> "none", key |-> 0, error |-> FALSE]]
    /\ objects = [j \in JobIds |-> [k \in 1..MaxRuns |-> "none"]]
    /\ again = {} /\ trouble = {}

-----------------------------------------------------------------------------
\* webhookQueue.add, backupQueue.add.
Enqueue(j, kind) == jobs' = [jobs EXCEPT ![j] = [NoJob EXCEPT !.kind = kind, !.at = "waiting"]]

\* A worker takes a job, and its lock.
Take(e, j) ==
    /\ On(e, "idle") /\ jobs[j].at = "waiting"
    /\ jobs' = [jobs EXCEPT ![j].at = "active", ![j].owner = e, ![j].runs = @ + 1]
    /\ Put(e, [Idle EXCEPT !.job = j, !.at = "start", !.key = jobs[j].runs + 1])
    /\ UNCHANGED <<hooks, succeeded, backups, objects, again, trouble>>

\* The processor returned: completed, if the lock is still held.
Return(e) ==
    /\ On(e, "end")
    /\ LET j == execs[e].job
       IN  jobs' = IF jobs[j].owner = e
                   THEN [jobs EXCEPT ![j].at = "completed", ![j].owner = None] ELSE jobs
    /\ Put(e, Idle)
    /\ UNCHANGED <<hooks, succeeded, backups, objects, again, trouble>>

\* It threw: once more after the backoff, or failed for good.
Throw(e) ==
    /\ On(e, "throw")
    /\ LET j == execs[e].job
           last == jobs[j].made + 1 >= Attempts(j)
       IN  jobs' = IF jobs[j].owner # e THEN jobs
                   ELSE [jobs EXCEPT ![j].owner = None, ![j].made = @ + 1,
                                     ![j].at = IF last THEN "failed" ELSE "waiting"]
    /\ Put(e, Idle)
    /\ UNCHANGED <<hooks, succeeded, backups, objects, again, trouble>>

\* The lock is not renewed in time.
LoseLock(j) ==
    /\ jobs[j].at = "active" /\ jobs[j].owner # None
    /\ jobs' = [jobs EXCEPT ![j].owner = None]
    /\ Troubled(j)
    /\ UNCHANGED <<execs, hooks, succeeded, backups, objects, again>>

\* The check for stalled jobs finds it.
Stalled(j) ==
    /\ jobs[j].at = "active" /\ jobs[j].owner = None
    /\ jobs' = [jobs EXCEPT ![j].at = IF jobs[j].stalls < MaxStalls THEN "waiting" ELSE "failed",
                            ![j].stalls = IF @ < MaxStalls THEN @ + 1 ELSE @]
    /\ UNCHANGED <<execs, hooks, succeeded, backups, objects, again, trouble>>

\* The worker goes down: a deploy, or the unhandled error of a pg_dump that is
\* not there.
WorkerDies ==
    /\ \E e \in Execs : ~On(e, "idle")
    /\ execs' = [e \in Execs |-> Idle]
    /\ jobs' = [j \in JobIds |-> [jobs[j] EXCEPT !.owner = None]]
    /\ trouble' = trouble \cup ({execs[e].job : e \in Execs} \ {None})
    /\ UNCHANGED <<hooks, succeeded, backups, objects, again>>

-----------------------------------------------------------------------------
KindOf(e) == jobs[execs[e].job].kind

\* The hooks of the event are read, all or the one under test.
ReadHooks(e) ==
    /\ On(e, "start") /\ KindOf(e) \in {"webhook", "test"}
    /\ \E found \in IF KindOf(e) = "webhook" THEN {hooks} ELSE {hooks \cap {h} : h \in Hooks} :
          Put(e, [execs[e] EXCEPT !.at = IF found = {} THEN "end" ELSE "call", !.left = found])
    /\ UNCHANGED <<jobs, hooks, succeeded, backups, objects, again, trouble>>

\* The secret of a hook cannot be decrypted; outside the try block, so the loop is left.
DecryptFails(e) ==
    /\ On(e, "call")
    /\ Go(e, "throw")
    /\ Troubled(execs[e].job)
    /\ UNCHANGED <<jobs, hooks, succeeded, backups, objects, again>>

\* vetOutboundUrl and fetchVetted: the endpoint answers 2xx, or otherwise, or
\* nothing comes back within the timeout; the body is still to be read.
CallHook(e) ==
    /\ On(e, "call")
    /\ \E h \in execs[e].left, ok \in BOOLEAN :
          /\ Put(e, [execs[e] EXCEPT !.at = "record", !.hook = h, !.ok = ok, !.left = @ \ {h}])
          /\ again' = IF h \in succeeded[execs[e].job]
                      THEN again \cup {execs[e].job} ELSE again
    /\ UNCHANGED <<jobs, hooks, succeeded, backups, objects, trouble>>

\* Mutant of AfterHooks: any endpoint that failed makes the job fail.
AfterHooksStrict(left, delivered, error) ==
    IF left # {} THEN "call" ELSE IF error THEN "throw" ELSE "end"

\* The next hook; at the end, an error counts if nothing was delivered.
AfterHooks(left, delivered, error) ==
    IF left # {} THEN "call" ELSE IF error /\ ~delivered THEN "throw" ELSE "end"

Recorded(e, ok) ==
    LET x == execs[e]
    IN  Put(e, [x EXCEPT !.at = AfterHooks(x.left, x.delivered \/ ok, x.error \/ ~ok),
                         !.hook = None, !.ok = FALSE,
                         !.delivered = @ \/ ok, !.error = @ \/ ~ok])

\* Its row: needs the webhook to exist still.
RecordDelivery(e) ==
    /\ On(e, "record") /\ execs[e].hook \in hooks
    /\ Recorded(e, execs[e].ok)
    /\ succeeded' = IF execs[e].ok
                    THEN [succeeded EXCEPT ![execs[e].job] = @ \cup {execs[e].hook}]
                    ELSE succeeded
    /\ UNCHANGED <<jobs, hooks, backups, objects, again, trouble>>

\* The INSERT fails and the one of the catch block works: a failed delivery.
RecordedAsFailed(e) ==
    /\ On(e, "record") /\ execs[e].hook \in hooks
    /\ Recorded(e, FALSE)
    /\ Troubled(execs[e].job)
    /\ UNCHANGED <<jobs, hooks, succeeded, backups, objects, again>>

\* Both fail, as they do when the webhook was deleted: the loop is left.
RecordFails(e) ==
    /\ On(e, "record")
    /\ Go(e, "throw")
    /\ Troubled(execs[e].job)
    /\ UNCHANGED <<jobs, hooks, succeeded, backups, objects, again>>

-----------------------------------------------------------------------------
SetBackup(j, r) == backups' = [backups EXCEPT ![j] = r]
Mark(j, status) == SetBackup(j, [backups[j] EXCEPT !.status = status])

\* UPDATE ... 'running'; outside the try block.
BackupStarts(e) ==
    /\ On(e, "start") /\ KindOf(e) = "backup"
    /\ Mark(execs[e].job, "running")
    /\ Go(e, "dump")
    /\ UNCHANGED <<jobs, hooks, succeeded, objects, again, trouble>>

\* pg_dump into storage.put: an archive that is whole or not, and an exit code
\* that is read after the write; or there are no credentials, or no storage.
Dump(e) ==
    /\ On(e, "dump")
    /\ \/ /\ \E f \in Archives \ {"none"} :
                objects' = [objects EXCEPT ![execs[e].job][execs[e].key] = f]
          /\ \E at \in {"mark", "fail"} : Go(e, at)
       \/ UNCHANGED objects /\ Go(e, "fail")
    /\ UNCHANGED <<jobs, hooks, succeeded, backups, again, trouble>>

MarkVerifying(e) ==
    /\ On(e, "mark")
    /\ Mark(execs[e].job, "verifying")
    /\ Go(e, "verify")
    /\ UNCHANGED <<jobs, hooks, succeeded, objects, again, trouble>>

\* Mutant of VerifyBackup: an exit code of zero is proof enough.
VerifyNothing(e) ==
    /\ On(e, "verify")
    /\ Go(e, "complete")
    /\ UNCHANGED <<jobs, hooks, succeeded, backups, objects, again, trouble>>

\* verifyBackup: pg_restore lists the table of contents of what was read back, which
\* tells nothing of the data; storage or pg_restore may fail too.
VerifyBackup(e) ==
    /\ On(e, "verify")
    /\ \/ objects[execs[e].job][execs[e].key] \in Listable /\ Go(e, "complete")
       \/ Go(e, "fail")
    /\ UNCHANGED <<jobs, hooks, succeeded, backups, objects, again, trouble>>

\* Error and finish of a failed attempt stay.
CompleteBackup(e) ==
    /\ On(e, "complete")
    /\ SetBackup(execs[e].job, [backups[execs[e].job] EXCEPT !.status = "completed",
                                                             !.key = execs[e].key])
    /\ Go(e, "end")
    /\ UNCHANGED <<jobs, hooks, succeeded, objects, again, trouble>>

\* Mutant of FailBackup: what failed is left as it is.
FailSilently(e) ==
    /\ On(e, "fail")
    /\ Go(e, "end")
    /\ UNCHANGED <<jobs, hooks, succeeded, backups, objects, again, trouble>>

\* Mutant of FailBackup: the catch block dumps again, without end.
FailRetries(e) ==
    /\ On(e, "fail")
    /\ SetBackup(execs[e].job, [backups[execs[e].job] EXCEPT !.status = "failed", !.error = TRUE])
    /\ Go(e, "dump")
    /\ UNCHANGED <<jobs, hooks, succeeded, objects, again, trouble>>

\* The catch block, which throws again.
FailBackup(e) ==
    /\ On(e, "fail")
    /\ SetBackup(execs[e].job, [backups[execs[e].job] EXCEPT !.status = "failed", !.error = TRUE])
    /\ Go(e, "throw")
    /\ UNCHANGED <<jobs, hooks, succeeded, objects, again, trouble>>

\* A statement fails: into the catch block, or out of the processor.
StatementFails(e) ==
    /\ execs[e].at \in {"start", "mark", "complete", "fail"}
    /\ Go(e, IF execs[e].at \in {"mark", "complete"} THEN "fail" ELSE "throw")
    /\ Troubled(execs[e].job)
    /\ UNCHANGED <<jobs, hooks, succeeded, backups, objects, again>>

\* What is awaited never comes: pg_dump, the pipe into pg_restore, the body of an
\* answer and a query have no timeout, and the lock is renewed all the same.
Hangs(e) ==
    /\ execs[e].at \notin {"idle", "end", "throw", "hung"}
    /\ Go(e, "hung")
    /\ UNCHANGED <<jobs, hooks, succeeded, backups, objects, again, trouble>>

Progress(e) ==
    \/ \E j \in JobIds : Take(e, j)
    \/ ReadHooks(e) \/ DecryptFails(e) \/ CallHook(e) \/ RecordDelivery(e)
    \/ RecordedAsFailed(e) \/ RecordFails(e)
    \/ BackupStarts(e) \/ Dump(e) \/ MarkVerifying(e) \/ VerifyBackup(e) \/ CompleteBackup(e)
    \/ FailBackup(e) \/ StatementFails(e)
    \/ Return(e) \/ Throw(e)

JobsNext ==
    \/ \E e \in Execs : Progress(e) \/ Hangs(e)
    \/ \E j \in JobIds : LoseLock(j) \/ Stalled(j)
    \/ WorkerDies

-----------------------------------------------------------------------------
\* Queues, executions and rows keep their shape, and attempts their bound.
JobsTypeOK ==
    /\ jobs \in [JobIds -> Job]
    /\ execs \in [Execs -> Exec]
    /\ hooks \subseteq Hooks
    /\ succeeded \in [JobIds -> SUBSET Hooks]
    /\ \A j \in JobIds : backups[j].status \in
          {"none", "pending", "running", "verifying", "completed", "failed"}
    /\ objects \in [JobIds -> [1..MaxRuns -> Archives]]
    /\ again \subseteq JobIds /\ trouble \subseteq JobIds

(* The retries of a job are for endpoints that have not had it              *)
(* (workers/index.ts:88-92, "delivered === 0"): one that answered 2xx and   *)
(* whose row says so is called again only after a lock, a worker or an      *)
(* INSERT was lost, or the secret of another one could not be read.         *)
ResentOnlyAfterTrouble == again \subseteq trouble

(* A backup that is "completed" points to an archive of which the table of  *)
(* contents can be listed (lines 142-153), whichever of several executions  *)
(* wrote last; that its data is whole, as backup-verify.ts:21-22 has it, is *)
(* more than the listing shows.                                             *)
CompletedBackupListed ==
    \A j \in JobIds : backups[j].status = "completed" => objects[j][backups[j].key] \in Listable

(* When its job is over, a backup is completed or failed, not "running" for *)
(* ever, unless something was lost on the way; and completed if the job is. *)
BackupFollowsJob ==
    \A j \in JobIds :
        jobs[j].kind = "backup" /\ jobs[j].at \in {"completed", "failed"} /\ j \notin trouble
        => backups[j].status = jobs[j].at

(* If no execution hangs for ever, every job that is queued is completed or *)
(* failed in the end, through crashes and lost locks (attempts at           *)
(* events.ts:35, maxStalledCount).                                          *)
JobSettles ==
    \A j \in JobIds :
        (\A e \in Execs : []<>~On(e, "hung"))
        => (jobs[j].at = "waiting" ~> jobs[j].at \in {"completed", "failed"})
=============================================================================
