-------------------------- MODULE OperationsProofs --------------------------
(***************************************************************************)
(* The worker and the operations API, for any number of jobs, executions,  *)
(* endpoints, requests and migrations.                                     *)
(*                                                                         *)
(* JobsInv follows an execution through the statements of its processor:   *)
(* the number it has of its job tells its archive from those of others,    *)
(* and until there is trouble with a job it is the only one, so what it    *)
(* has come to is what the row and the deliveries say.  MigrationsInv says *)
(* how far a request has come between the two databases.                   *)
(***************************************************************************)
EXTENDS Operations, TLAPS

-----------------------------------------------------------------------------
\* Jobs.
Backup == [status : {"none", "pending", "running", "verifying", "completed", "failed"},
           key : 0..MaxRuns, error : BOOLEAN]

JobsType ==
    /\ jobs \in [JobIds -> Job] /\ execs \in [Execs -> Exec] /\ hooks \subseteq Hooks
    /\ succeeded \in [JobIds -> SUBSET Hooks] /\ backups \in [JobIds -> Backup]
    /\ objects \in [JobIds -> [1..MaxRuns -> Archives]]
    /\ again \subseteq JobIds /\ trouble \subseteq JobIds

\* An execution is for a failed attempt, a stall, or the first.
Counted ==
    \A j \in JobIds :
        /\ jobs[j].at = "none" <=> jobs[j].kind = "none"
        /\ jobs[j].at = "none" => jobs[j] = NoJob
        /\ jobs[j].at = "waiting" =>
              jobs[j].runs = jobs[j].made + jobs[j].stalls /\ jobs[j].made < Attempts(j)
        /\ jobs[j].at = "active" =>
              jobs[j].runs = jobs[j].made + jobs[j].stalls + 1 /\ jobs[j].made < Attempts(j)

\* Who holds the lock of a job is the last to have taken it.
Locked ==
    \A j \in JobIds :
        jobs[j].owner # None =>
            /\ jobs[j].at = "active"
            /\ execs[jobs[j].owner].job = j /\ execs[jobs[j].owner].key = jobs[j].runs

\* Steps of an execution, by the kind of its job.
OfHooks == {"start", "call", "record", "end", "throw", "hung"}
OfBackups == {"start", "dump", "mark", "verify", "complete", "fail", "end", "throw", "hung"}
StepsOf(kind) == CASE kind = "backup" -> OfBackups
                   [] kind \in {"webhook", "test"} -> OfHooks
                   [] OTHER -> {}

Executed ==
    \A e \in Execs :
        LET x == execs[e] IN
        /\ x.at = "idle" <=> x.job = None
        /\ x.job # None => x.at \in StepsOf(jobs[x.job].kind) /\ x.key \in 1..jobs[x.job].runs
        /\ x.at = "record" => x.hook # None

\* No two executions of a job write the same archive.
KeysDiffer ==
    \A e, f \in Execs :
        e # f /\ execs[e].job = execs[f].job /\ execs[e].job # None => execs[e].key # execs[f].key

\* Without trouble a job is active while its only execution goes on.
OneExecution ==
    \A j \in JobIds \ trouble :
        /\ \A e \in Execs : execs[e].job = j => jobs[j].owner = e
        /\ jobs[j].at = "active" => jobs[j].owner # None

\* An archive does not change once it could be listed.
Archived ==
    /\ \A e \in Execs : execs[e].at = "complete" => objects[execs[e].job][execs[e].key] \in Listable
    /\ \A j \in JobIds :
          /\ backups[j].status = "completed" => backups[j].key # 0
          /\ backups[j].key # 0 =>
                /\ backups[j].key <= jobs[j].runs /\ objects[j][backups[j].key] \in Listable
                /\ \A e \in Execs :
                      execs[e].job = j /\ execs[e].key = backups[j].key => execs[e].at = "end"

\* What the row says when the execution is at its end.
Noted(j, at) ==
    jobs[j].kind = "backup" =>
        /\ at = "end" => backups[j].status = "completed"
        /\ at = "throw" => backups[j].status = "failed"

BackupsNoted ==
    /\ \A e \in Execs : LET j == execs[e].job IN
          j \notin trouble \cup {None} => Noted(j, execs[e].at)
    /\ BackupFollowsJob

\* An attempt that will be made again, or may be, has delivered nothing.
Ahead(done, x) ==
    /\ x.at \in {"start", "throw"} => done = {}
    /\ x.at \in {"call", "record"} => done \cap x.left = {} /\ (x.delivered \/ done = {})
    /\ x.at = "record" => x.hook \notin x.left

Delivered ==
    /\ \A j \in JobIds : jobs[j].kind \in {"none", "backup"} => succeeded[j] = {}
    /\ \A j \in JobIds \ trouble : jobs[j].at = "waiting" => succeeded[j] = {}
    /\ \A e \in Execs : LET j == execs[e].job IN
          j \notin trouble \cup {None} => Ahead(succeeded[j], execs[e])
    /\ ResentOnlyAfterTrouble

\* A row that waits for its job.
Queueing ==
    /\ requests \in [Requests -> Request]
    /\ \A r \in Requests :
          At(r, "add") => /\ requests[r].job # None
                          /\ jobs[requests[r].job].kind = "none"
                          /\ backups[requests[r].job].status # "none"
    /\ \A q, r \in Requests :
          At(q, "add") /\ At(r, "add") /\ requests[q].job = requests[r].job => q = r

JobsInv ==
    /\ JobsType /\ Counted /\ Locked /\ Executed /\ KeysDiffer /\ OneExecution
    /\ Archived /\ BackupsNoted /\ Delivered /\ Queueing

-----------------------------------------------------------------------------
\* Migrations.
About(r, n) == requests[r].name = n

MigrationsType ==
    /\ deleted \subseteq Hooks /\ requests \in [Requests -> Request]
    /\ applied \in [Names -> {"none", "no", "yes"}]
    /\ ledger \subseteq Names /\ net \in [Names -> Int]
    /\ crossed \subseteq Names /\ lost \subseteq Names

\* A request is about a migration between its two databases.
Between ==
    \A r \in Requests :
        /\ requests[r].name # None <=> requests[r].at \in {"sql", "mark"}
        /\ requests[r].name # None =>
              requests[r].op # "none" /\ applied[requests[r].name] # "none"

OneRequest ==
    \A n \in Names \ crossed : \A q, r \in Requests : About(q, n) /\ About(r, n) => q = r

Project(n, at) == (at = "yes" <=> n \in ledger) /\ net[n] = IF at = "yes" THEN 1 ELSE 0

\* The request that is at work has changed what it has come to.
Halfway ==
    \A n \in Names \ (crossed \cup lost) : \A r \in Requests :
        About(r, n) =>
            /\ applied[n] = Before(requests[r].op)
            /\ Project(n, IF At(r, "sql") THEN Before(requests[r].op) ELSE After(requests[r].op))

MigrationsInv ==
    MigrationsType /\ Between /\ OneRequest /\ Halfway /\ MigrationInStep

\* There are enough numbers for the executions of a job.
LEMMA Bounds ==
    /\ MaxRuns \in Nat /\ MaxStalls \in Nat
    /\ \A j \in JobIds : Attempts(j) \in Nat /\ Attempts(j) + MaxStalls <= MaxRuns
<1>1. WebhookAttempts \in Nat \ {0} /\ BackupAttempts \in Nat \ {0} /\ MaxStalls \in Nat
  BY AttemptsAssumption
<1>2. ASSUME NEW j \in JobIds PROVE Attempts(j) \in {WebhookAttempts, 1, BackupAttempts}
  BY DEF Attempts
<1> QED
  BY <1>1, <1>2 DEF MaxRuns

\* What a step says of the kind of the job.
LEMMA StepsOfKinds ==
    /\ \A kind : "idle" \notin StepsOf(kind)
    /\ \A kind, at :
           at \in StepsOf(kind) /\ at \in {"call", "record"} => kind \in {"webhook", "test"}
    /\ \A kind, at :
           at \in StepsOf(kind) /\ at \in {"dump", "mark", "verify", "complete", "fail"} =>
               kind = "backup"
    /\ \A kind : StepsOf(kind) # {} => kind \in {"webhook", "test", "backup"}
    /\ \A kind \in {"webhook", "test", "backup"} :
           {"start", "end", "throw", "hung"} \subseteq StepsOf(kind)
  BY DEF StepsOf, OfHooks, OfBackups

\* An execution goes on, and changes what it has of its job, its archive and
\* its row.
LEMMA MoveKeeps ==
    ASSUME JobsInv, NEW e \in Execs, NEW j \in JobIds, execs[e].job = j, execs[e].at # "end",
           NEW x \in Exec, Put(e, x), x.job = j, x.key = execs[e].key,
           x.at \in StepsOf(jobs[j].kind), x.at = "record" => x.hook # None,
           UNCHANGED <<jobs, hooks, requests>>, trouble' \in {trouble, trouble \cup {j}},
           succeeded' \in [JobIds -> SUBSET Hooks],
           \A o \in JobIds \ {j} : succeeded'[o] = succeeded[o],
           jobs[j].kind \in {"none", "backup"} => succeeded'[j] = {},
           j \notin trouble' => Ahead(succeeded'[j], x),
           again' \subseteq JobIds, again' \subseteq trouble',
           objects' \in [JobIds -> [1..MaxRuns -> Archives]],
           \A o \in JobIds, k \in 1..MaxRuns :
               o # j \/ k # execs[e].key => objects'[o][k] = objects[o][k],
           objects' # objects => execs[e].at = "dump",
           x.at = "complete" => objects'[j][x.key] \in Listable,
           backups' \in [JobIds -> Backup], \A o \in JobIds \ {j} : backups'[o] = backups[o],
           backups[j].status # "none" => backups'[j].status # "none",
           \/ /\ backups'[j].key = backups[j].key
              /\ backups'[j].status = "completed" => backups[j].status = "completed"
           \/ backups'[j].key = x.key /\ x.at = "end" /\ execs[e].at = "complete",
           j \notin trouble' /\ jobs[j].kind = "backup" =>
               /\ x.at = "end" => backups'[j].status = "completed"
               /\ x.at = "throw" => backups'[j].status = "failed"
    PROVE  JobsInv'
<1>1. execs'[e] = x /\ \A f \in Execs \ {e} : execs'[f] = execs[f]
  BY DEF Put, JobsInv, JobsType
<1>2. /\ x.at # "idle" /\ j # None /\ execs[e].key \in 1..jobs[j].runs /\ execs[e].key # 0
      /\ jobs[j].runs \in 0..MaxRuns /\ execs[e].key \in 1..MaxRuns
      /\ jobs[j].kind \in {"webhook", "test", "backup"}
  <2>1. j # None /\ x.at # "idle" /\ jobs[j].kind \in {"webhook", "test", "backup"}
    BY NobodyAssumption, StepsOfKinds
  <2>2. execs[e].key \in 1..jobs[j].runs /\ jobs[j].runs \in 0..MaxRuns
    BY <2>1 DEF JobsInv, JobsType, Job, Executed
  <2> QED
    BY <2>1, <2>2, Bounds
<1>3. JobsType'
  <2>1. execs' \in [Execs -> Exec]
    BY DEF Put, JobsInv, JobsType
  <2>2. trouble' \subseteq JobIds
    BY DEF JobsInv, JobsType
  <2> QED
    BY <2>1, <2>2 DEF JobsInv, JobsType
<1>4. Counted'
  BY DEF JobsInv, Counted, Attempts
<1>5. Locked'
  <2>1. \A o \in JobIds : jobs[o].owner # None => jobs[o].owner \in Execs
    BY DEF JobsInv, JobsType, Job
  <2>2. \A f \in Execs : execs'[f].job = execs[f].job /\ execs'[f].key = execs[f].key
    BY <1>1
  <2> QED
    BY <2>1, <2>2 DEF JobsInv, Locked
<1>6. Executed'
  BY <1>1, <1>2 DEF JobsInv, Executed
<1>7. KeysDiffer'
  BY <1>1 DEF JobsInv, KeysDiffer
<1>8. OneExecution'
  BY <1>1 DEF JobsInv, OneExecution
<1>9. Archived'
  <2>1. ASSUME NEW f \in Execs, execs'[f].at = "complete"
        PROVE  objects'[execs'[f].job][execs'[f].key] \in Listable
    <3>1. CASE f = e
      BY <1>1, <2>1, <3>1
    <3>2. CASE f # e
      <4>1. execs'[f] = execs[f] /\ objects[execs[f].job][execs[f].key] \in Listable
        BY <1>1, <2>1, <3>2 DEF JobsInv, Archived
      <4>2. execs[f].job \in JobIds /\ execs[f].key \in 1..MaxRuns
        BY <2>1, <4>1, Bounds DEF JobsInv, JobsType, Exec, Job, Executed
      <4>3. execs[f].job # j \/ execs[f].key # execs[e].key
        BY <1>2, <3>2 DEF JobsInv, KeysDiffer
      <4> QED
        BY <4>1, <4>2, <4>3
    <3> QED
      BY <3>1, <3>2
  <2>2. ASSUME NEW o \in JobIds
        PROVE  /\ backups'[o].status = "completed" => backups'[o].key # 0
               /\ backups'[o].key # 0 =>
                     /\ backups'[o].key <= jobs'[o].runs
                     /\ objects'[o][backups'[o].key] \in Listable
                     /\ \A f \in Execs :
                           execs'[f].job = o /\ execs'[f].key = backups'[o].key =>
                               execs'[f].at = "end"
    <3>1. CASE backups'[o].key = backups[o].key
               /\ (backups'[o].status = "completed" => backups[o].status = "completed")
      <4>1. backups[o].key # 0 => backups[o].key \in 1..MaxRuns
        BY Bounds DEF JobsInv, JobsType, Backup
      <4>2. backups[o].key # 0 =>
               /\ backups[o].key <= jobs[o].runs /\ objects[o][backups[o].key] \in Listable
               /\ \A f \in Execs :
                     execs[f].job = o /\ execs[f].key = backups[o].key => execs[f].at = "end"
        BY DEF JobsInv, Archived
      <4>3. backups[o].key # 0 /\ o = j => backups[o].key # execs[e].key
        BY <4>2
      <4> QED
        BY <1>1, <3>1, <4>1, <4>2, <4>3 DEF JobsInv, Archived
    <3>2. CASE o = j /\ backups'[o].key = x.key /\ x.at = "end" /\ execs[e].at = "complete"
      <4>1. objects[j][x.key] \in Listable /\ objects' = objects
        BY <3>2 DEF JobsInv, Archived
      <4>2. \A f \in Execs \ {e} : ~(execs[f].job = j /\ execs[f].key = x.key)
        BY <1>2 DEF JobsInv, KeysDiffer
      <4> QED
        BY <1>1, <1>2, <3>2, <4>1, <4>2
    <3> QED
      BY <3>1, <3>2
  <2> QED
    BY <2>1, <2>2 DEF Archived
<1>10. BackupsNoted'
  <2>1. ASSUME NEW f \in Execs, execs'[f].job \notin trouble' \cup {None}
        PROVE  Noted(execs[f].job, execs[f].at)'
    <3>1. CASE f = e
      BY <1>1, <2>1, <3>1 DEF Noted
    <3>2. CASE f # e
      <4>1. execs'[f] = execs[f] /\ execs[f].job \notin trouble \cup {None}
        BY <1>1, <2>1, <3>2
      <4>2. execs[f].job # j
        BY <2>1, <3>2, <4>1 DEF JobsInv, OneExecution
      <4>3. execs[f].job \in JobIds /\ Noted(execs[f].job, execs[f].at)
        BY <4>1 DEF JobsInv, JobsType, Exec, BackupsNoted
      <4> QED
        BY <4>1, <4>2, <4>3 DEF Noted
    <3> QED
      BY <3>1, <3>2
  <2>2. BackupFollowsJob'
    <3>1. j \notin trouble' => jobs[j].at = "active"
      BY <1>2, NobodyAssumption DEF JobsInv, OneExecution, Locked
    <3> QED
      BY <3>1 DEF JobsInv, BackupsNoted, BackupFollowsJob
  <2> QED
    BY <2>1, <2>2 DEF BackupsNoted
<1>11. Delivered'
  <2>1. ASSUME NEW f \in Execs, execs'[f].job \notin trouble' \cup {None}
        PROVE  Ahead(succeeded'[execs'[f].job], execs'[f])
    <3>1. CASE f = e
      BY <1>1, <2>1, <3>1
    <3>2. CASE f # e
      <4>1. execs'[f] = execs[f] /\ execs[f].job \notin trouble \cup {None}
        BY <1>1, <2>1, <3>2
      <4>2. execs[f].job # j
        BY <2>1, <3>2, <4>1 DEF JobsInv, OneExecution
      <4>3. execs[f].job \in JobIds /\ Ahead(succeeded[execs[f].job], execs[f])
        BY <4>1 DEF JobsInv, JobsType, Exec, Delivered
      <4> QED
        BY <4>1, <4>2, <4>3
    <3> QED
      BY <3>1, <3>2
  <2>2. j \notin trouble' => jobs[j].at = "active"
    BY <1>2, NobodyAssumption DEF JobsInv, OneExecution, Locked
  <2>3. \A o \in JobIds \ trouble' : jobs'[o].at = "waiting" => succeeded'[o] = {}
    BY <2>2 DEF JobsInv, Delivered
  <2>4. \A o \in JobIds : jobs'[o].kind \in {"none", "backup"} => succeeded'[o] = {}
    BY DEF JobsInv, Delivered
  <2> QED
    BY <2>1, <2>3, <2>4 DEF Delivered, ResentOnlyAfterTrouble, Ahead
<1>12. Queueing'
  <2>1. \A o \in JobIds : backups[o].status # "none" => backups'[o].status # "none"
    OBVIOUS
  <2> QED
    BY <2>1 DEF JobsInv, Queueing, Request, At
<1> QED
  BY <1>3, <1>4, <1>5, <1>6, <1>7, <1>8, <1>9, <1>10, <1>11, <1>12 DEF JobsInv

\* What an execution is, that is at work.
LEMMA AtWork ==
    ASSUME JobsInv, NEW e \in Execs, execs[e].at # "idle"
    PROVE  /\ execs[e] \in Exec /\ execs[e].job \in JobIds /\ execs[e].job # None
           /\ execs[e].at \in StepsOf(jobs[execs[e].job].kind)
           /\ jobs[execs[e].job] \in Job /\ execs[e].key \in 1..MaxRuns
<1>1. execs[e] \in Exec /\ execs[e].job # None
  BY DEF JobsInv, JobsType, Executed
<1>2. /\ execs[e].job \in JobIds /\ execs[e].at \in StepsOf(jobs[execs[e].job].kind)
      /\ execs[e].key \in 1..jobs[execs[e].job].runs /\ jobs[execs[e].job].runs \in 0..MaxRuns
      /\ jobs[execs[e].job] \in Job
  BY <1>1 DEF JobsInv, JobsType, Exec, Executed, Job
<1> QED
  BY <1>1, <1>2, Bounds

\* Nothing but the step changes.
LEMMA GoKeeps ==
    ASSUME JobsInv, NEW e \in Execs, execs[e].at \notin {"idle", "end"},
           NEW x \in Exec, Put(e, x), x.job = execs[e].job, x.key = execs[e].key,
           x.at \in StepsOf(jobs[execs[e].job].kind), x.at = "record" => x.hook # None,
           UNCHANGED <<jobs, hooks, requests, succeeded, backups, objects>>,
           trouble' \in {trouble, trouble \cup {execs[e].job}},
           again' \subseteq JobIds, again' \subseteq trouble',
           execs[e].job \notin trouble' => Ahead(succeeded[execs[e].job], x),
           x.at = "complete" => objects[execs[e].job][x.key] \in Listable,
           execs[e].job \notin trouble' /\ jobs[execs[e].job].kind = "backup" =>
               x.at \notin {"end", "throw"}
    PROVE  JobsInv'
<1>1. PICK j \in JobIds : j = execs[e].job
  BY AtWork
<1>2. /\ succeeded' \in [JobIds -> SUBSET Hooks] /\ backups' \in [JobIds -> Backup]
      /\ objects' \in [JobIds -> [1..MaxRuns -> Archives]]
      /\ jobs[j].kind \in {"none", "backup"} => succeeded[j] = {}
  BY DEF JobsInv, JobsType, Delivered
<1> QED
  BY <1>1, <1>2, MoveKeeps

\* History that does not change stays within the trouble.
LEMMA AgainOnlyTroubled ==
    ASSUME JobsInv, UNCHANGED again, trouble \subseteq trouble'
    PROVE  again' \subseteq JobIds /\ again' \subseteq trouble'
  BY DEF JobsInv, JobsType, Delivered, ResentOnlyAfterTrouble

\* The steps of a delivery.
LEMMA ReadHooksKeeps ==
    ASSUME JobsInv, NEW e \in Execs, ReadHooks(e), UNCHANGED requests
    PROVE  JobsInv'
<1>0. execs[e].at = "start" /\ KindOf(e) \in {"webhook", "test"}
  BY DEF ReadHooks, On
<1>1. PICK found \in SUBSET hooks :
          Put(e, [execs[e] EXCEPT !.at = IF found = {} THEN "end" ELSE "call", !.left = found])
  BY DEF ReadHooks
<1>2. execs[e] \in Exec /\ found \subseteq Hooks
  BY <1>0, AtWork DEF JobsInv, JobsType
<1>3. PICK x \in Exec :
          /\ x = [execs[e] EXCEPT !.at = IF found = {} THEN "end" ELSE "call", !.left = found]
          /\ x.job = execs[e].job /\ x.key = execs[e].key /\ x.left = found
          /\ x.at = IF found = {} THEN "end" ELSE "call"
  <2>1. PICK at \in {"end", "call"} : at = IF found = {} THEN "end" ELSE "call"
    OBVIOUS
  <2> DEFINE y == [execs[e] EXCEPT !.at = at, !.left = found]
  <2>2. y \in Exec
    BY <1>2 DEF Exec
  <2>3. y.job = execs[e].job /\ y.key = execs[e].key /\ y.left = found /\ y.at = at
    BY <1>2 DEF Exec
  <2> QED
    BY <2>1, <2>2, <2>3
<1>4. x.at \in StepsOf(jobs[execs[e].job].kind)
  BY <1>0, <1>3 DEF KindOf, StepsOf, OfHooks
<1>5. execs[e].job \notin trouble => Ahead(succeeded[execs[e].job], x)
  <2>1. execs[e].job \notin trouble => succeeded[execs[e].job] = {}
    BY <1>0, AtWork DEF JobsInv, Delivered, Ahead
  <2> QED
    BY <1>3, <2>1 DEF Ahead
<1>6. UNCHANGED <<jobs, hooks, succeeded, backups, objects, again, trouble>>
  BY DEF ReadHooks
<1>7. again' \subseteq JobIds /\ again' \subseteq trouble'
  BY <1>6, AgainOnlyTroubled
<1>8. jobs[execs[e].job].kind # "backup" /\ x.at # "record" /\ x.at # "complete"
  BY <1>0, <1>3 DEF KindOf
<1> QED
  BY <1>0, <1>1, <1>3, <1>4, <1>5, <1>6, <1>7, <1>8, GoKeeps

\* An endpoint is called.
LEMMA CallHookKeeps ==
    ASSUME JobsInv, NEW e \in Execs, CallHook(e), UNCHANGED requests
    PROVE  JobsInv'
<1>0. execs[e].at = "call" /\ UNCHANGED <<jobs, hooks, succeeded, backups, objects, trouble>>
  BY DEF CallHook, On
<1>1. PICK h \in execs[e].left, ok \in BOOLEAN :
          /\ Put(e, [execs[e] EXCEPT !.at = "record", !.hook = h, !.ok = ok, !.left = @ \ {h}])
          /\ again' = IF h \in succeeded[execs[e].job]
                      THEN again \cup {execs[e].job} ELSE again
  BY DEF CallHook
<1>2. /\ execs[e] \in Exec /\ execs[e].job \in JobIds /\ execs[e].job # None
      /\ h \in Hooks /\ h # None /\ jobs[execs[e].job].kind \in {"webhook", "test"}
  <2>1. execs[e] \in Exec /\ execs[e].job \in JobIds /\ execs[e].job # None
        /\ jobs[execs[e].job].kind \in {"webhook", "test"}
    BY <1>0, AtWork, StepsOfKinds
  <2> QED
    BY <2>1, NobodyAssumption DEF Exec
<1>3. PICK x \in Exec :
          /\ x = [execs[e] EXCEPT !.at = "record", !.hook = h, !.ok = ok, !.left = @ \ {h}]
          /\ x.job = execs[e].job /\ x.key = execs[e].key /\ x.at = "record" /\ x.hook = h
          /\ x.left = execs[e].left \ {h} /\ x.delivered = execs[e].delivered
  <2> DEFINE y == [execs[e] EXCEPT !.at = "record", !.hook = h, !.ok = ok, !.left = @ \ {h}]
  <2>1. y \in Exec
    BY <1>2 DEF Exec
  <2>2. /\ y.job = execs[e].job /\ y.key = execs[e].key /\ y.at = "record" /\ y.hook = h
        /\ y.left = execs[e].left \ {h} /\ y.delivered = execs[e].delivered
    BY <1>2 DEF Exec
  <2> QED
    BY <2>1, <2>2
<1>4. x.at \in StepsOf(jobs[execs[e].job].kind)
  BY <1>2, <1>3 DEF StepsOf, OfHooks
<1>5. execs[e].job \notin trouble =>
          /\ succeeded[execs[e].job] \cap execs[e].left = {}
          /\ execs[e].delivered \/ succeeded[execs[e].job] = {}
  BY <1>0, <1>2 DEF JobsInv, Delivered, Ahead
<1>6. execs[e].job \notin trouble => Ahead(succeeded[execs[e].job], x)
  BY <1>3, <1>5 DEF Ahead
<1>7. again' \subseteq JobIds /\ again' \subseteq trouble'
  BY <1>0, <1>1, <1>2, <1>5 DEF JobsInv, JobsType, Delivered, ResentOnlyAfterTrouble
<1> QED
  BY <1>0, <1>1, <1>2, <1>3, <1>4, <1>6, <1>7, GoKeeps

\* A delivery is recorded, as what it was or as a failure.
LEMMA RecordKeeps ==
    ASSUME JobsInv, NEW e \in Execs, UNCHANGED requests,
           RecordDelivery(e) \/ RecordedAsFailed(e)
    PROVE  JobsInv'
<1>0. execs[e].at = "record" /\ UNCHANGED <<jobs, hooks, backups, objects, again>>
  BY DEF RecordDelivery, RecordedAsFailed, On
<1>1. PICK j \in JobIds : /\ j = execs[e].job /\ j # None /\ execs[e] \in Exec
                          /\ jobs[j].kind \in {"webhook", "test"}
  BY <1>0, AtWork, StepsOfKinds
<1>2. PICK ok \in BOOLEAN :
          /\ Recorded(e, ok)
          /\ succeeded' = IF ok THEN [succeeded EXCEPT ![j] = @ \cup {execs[e].hook}]
                          ELSE succeeded
          /\ trouble' = trouble \/ (trouble' = trouble \cup {j} /\ ok = FALSE)
  BY <1>1 DEF RecordDelivery, RecordedAsFailed, Troubled, Exec
<1>3. PICK at \in {"call", "throw", "end"} :
          /\ at = AfterHooks(execs[e].left, execs[e].delivered \/ ok, execs[e].error \/ ~ok)
          /\ at = "call" <=> execs[e].left # {}
          /\ at = "throw" => ~(execs[e].delivered \/ ok)
  BY DEF AfterHooks
<1>4. PICK x \in Exec :
          /\ Put(e, x) /\ x.job = j /\ x.key = execs[e].key /\ x.at = at
          /\ x.left = execs[e].left /\ x.delivered = (execs[e].delivered \/ ok)
  <2> DEFINE y == [execs[e] EXCEPT !.at = at, !.hook = None, !.ok = FALSE,
                                   !.delivered = @ \/ ok, !.error = @ \/ ~ok]
  <2>1. Put(e, y)
    BY <1>2, <1>3 DEF Recorded
  <2>2. (execs[e].delivered \/ ok) \in BOOLEAN /\ (execs[e].error \/ ~ok) \in BOOLEAN
    OBVIOUS
  <2>3. y \in Exec
    BY <1>1, <1>3, <2>2 DEF Exec
  <2>4. /\ y.job = j /\ y.key = execs[e].key /\ y.at = at /\ y.left = execs[e].left
        /\ y.delivered = (execs[e].delivered \/ ok)
    BY <1>1 DEF Exec
  <2> QED
    BY <2>1, <2>3, <2>4
<1>5. execs[e].hook \in Hooks
  BY <1>0, <1>1 DEF JobsInv, Executed, Exec
<1>6. /\ succeeded' \in [JobIds -> SUBSET Hooks]
      /\ \A o \in JobIds \ {j} : succeeded'[o] = succeeded[o]
      /\ succeeded'[j] = succeeded[j] \cup IF ok THEN {execs[e].hook} ELSE {}
  BY <1>2, <1>5 DEF JobsInv, JobsType
<1>7. j \notin trouble => /\ succeeded[j] \cap execs[e].left = {}
                          /\ execs[e].delivered \/ succeeded[j] = {}
                          /\ execs[e].hook \notin execs[e].left
  BY <1>0, <1>1 DEF JobsInv, Delivered, Ahead
<1>8. j \notin trouble' => Ahead(succeeded'[j], x)
  <2> SUFFICES ASSUME j \notin trouble' PROVE Ahead(succeeded'[j], x)
    OBVIOUS
  <2>1. /\ succeeded[j] \cap execs[e].left = {}
        /\ execs[e].delivered \/ succeeded[j] = {}
        /\ execs[e].hook \notin execs[e].left
    BY <1>2, <1>7
  <2>2. CASE at = "call"
    <3>1. succeeded'[j] \cap x.left = {}
      BY <1>4, <1>6, <2>1
    <3>2. x.delivered \/ succeeded'[j] = {}
      BY <1>4, <1>6, <2>1
    <3> QED
      BY <1>4, <2>2, <3>1, <3>2 DEF Ahead
  <2>3. CASE at = "throw"
    <3>1. ~ok /\ ~execs[e].delivered
      BY <1>3, <2>3
    <3>2. succeeded'[j] = {}
      BY <1>6, <2>1, <3>1
    <3> QED
      BY <1>4, <2>3, <3>2 DEF Ahead
  <2>4. CASE at = "end"
    BY <1>4, <2>4 DEF Ahead
  <2> QED
    BY <2>2, <2>3, <2>4
<1>9. x.at \in StepsOf(jobs[j].kind)
  BY <1>1, <1>3, <1>4 DEF StepsOf, OfHooks
<1>10. /\ backups' \in [JobIds -> Backup] /\ again' \subseteq JobIds /\ again' \subseteq trouble'
       /\ objects' \in [JobIds -> [1..MaxRuns -> Archives]]
  BY <1>0, <1>2, AgainOnlyTroubled DEF JobsInv, JobsType
<1>11. /\ execs[e].at # "end" /\ x.at \notin {"record", "complete"}
       /\ objects' = objects /\ backups' = backups
  BY <1>0, <1>3, <1>4
<1>12. trouble' \in {trouble, trouble \cup {j}} /\ jobs[j].kind \notin {"none", "backup"}
  BY <1>1, <1>2
<1>13. UNCHANGED <<jobs, hooks, requests>>
  BY <1>0
<1>14. Put(e, x) /\ x.job = j /\ x.key = execs[e].key /\ execs[e].job = j
  BY <1>1, <1>4
<1> QED
  BY <1>6, <1>8, <1>9, <1>10, <1>11, <1>12, <1>13, <1>14, MoveKeeps

\* A secret that cannot be read, or a delivery that cannot be recorded, leaves the loop.
LEMMA LoopLeft ==
    ASSUME JobsInv, NEW e \in Execs, DecryptFails(e) \/ RecordFails(e), UNCHANGED requests
    PROVE  JobsInv'
<1>0. /\ execs[e].at \in {"call", "record"}
      /\ UNCHANGED <<jobs, hooks, succeeded, backups, objects, again>>
      /\ trouble' = trouble \cup {execs[e].job}
  BY DEF DecryptFails, RecordFails, On, Troubled
<1>1. execs[e] \in Exec /\ jobs[execs[e].job].kind \in {"webhook", "test"}
  BY <1>0, AtWork, StepsOfKinds
<1>2. PICK x \in Exec : /\ Put(e, x) /\ x.job = execs[e].job /\ x.key = execs[e].key
                        /\ x.at = "throw"
  BY <1>1 DEF DecryptFails, RecordFails, Go, Exec
<1> QED
  BY <1>0, <1>1, <1>2, StepsOfKinds, AgainOnlyTroubled, GoKeeps

\* The steps of a backup.
LEMMA BackupStep ==
    ASSUME JobsInv, NEW e \in Execs, UNCHANGED requests,
           execs[e].at \in StepsOf("backup"), execs[e].at # "end",
           NEW j \in JobIds, execs[e].job = j, jobs[j].kind = "backup",
           NEW at, at \in StepsOf("backup"), Go(e, at),
           UNCHANGED <<jobs, hooks, succeeded, again>>,
           trouble' \in {trouble, trouble \cup {j}},
           objects' \in [JobIds -> [1..MaxRuns -> Archives]],
           \A o \in JobIds, k \in 1..MaxRuns :
               o # j \/ k # execs[e].key => objects'[o][k] = objects[o][k],
           objects' # objects => execs[e].at = "dump",
           at = "complete" => objects'[j][execs[e].key] \in Listable,
           backups' \in [JobIds -> Backup], \A o \in JobIds \ {j} : backups'[o] = backups[o],
           backups[j].status # "none" => backups'[j].status # "none",
           \/ /\ backups'[j].key = backups[j].key
              /\ backups'[j].status = "completed" => backups[j].status = "completed"
           \/ backups'[j].key = execs[e].key /\ at = "end" /\ execs[e].at = "complete",
           j \notin trouble' =>
               /\ at = "end" => backups'[j].status = "completed"
               /\ at = "throw" => backups'[j].status = "failed"
    PROVE  JobsInv'
<1>1. execs[e] \in Exec /\ at \in OfBackups /\ at \notin {"call", "record"}
  BY DEF JobsInv, JobsType, StepsOf, OfBackups
<1>2. PICK x \in Exec : Put(e, x) /\ x.job = j /\ x.key = execs[e].key /\ x.at = at
  <2> DEFINE y == [execs[e] EXCEPT !.at = at]
  <2>1. y \in Exec
    BY <1>1 DEF Exec, OfBackups
  <2>2. y.job = j /\ y.key = execs[e].key /\ y.at = at
    BY <1>1 DEF Exec
  <2> QED
    BY <2>1, <2>2 DEF Go
<1>3. /\ succeeded' \in [JobIds -> SUBSET Hooks] /\ succeeded'[j] = {}
      /\ \A o \in JobIds \ {j} : succeeded'[o] = succeeded[o]
  BY DEF JobsInv, JobsType, Delivered
<1>4. Ahead(succeeded'[j], x)
  BY <1>1, <1>2, <1>3 DEF Ahead
<1>5. again' \subseteq JobIds /\ again' \subseteq trouble'
  BY AgainOnlyTroubled
<1>6. UNCHANGED <<jobs, hooks, requests>> /\ x.at \in StepsOf(jobs[j].kind) /\ x.at # "record"
  BY <1>1, <1>2
<1>7. /\ x.at = "complete" => objects'[j][x.key] \in Listable
      /\ \/ /\ backups'[j].key = backups[j].key
            /\ backups'[j].status = "completed" => backups[j].status = "completed"
         \/ backups'[j].key = x.key /\ x.at = "end" /\ execs[e].at = "complete"
      /\ j \notin trouble' =>
            /\ x.at = "end" => backups'[j].status = "completed"
            /\ x.at = "throw" => backups'[j].status = "failed"
  BY <1>2
<1> QED
  BY <1>2, <1>3, <1>4, <1>5, <1>6, <1>7, MoveKeeps

\* Each of them in turn.
LEMMA BackupKeeps ==
    ASSUME JobsInv, NEW e \in Execs, UNCHANGED requests,
           \/ BackupStarts(e) \/ Dump(e) \/ MarkVerifying(e) \/ VerifyBackup(e)
           \/ CompleteBackup(e) \/ FailBackup(e)
    PROVE  JobsInv'
<1>1. /\ execs[e].at \in {"start", "dump", "mark", "verify", "complete", "fail"}
      /\ UNCHANGED <<jobs, hooks, succeeded, again, trouble>>
      /\ execs[e].at = "start" => KindOf(e) = "backup"
  BY DEF BackupStarts, Dump, MarkVerifying, VerifyBackup, CompleteBackup, FailBackup, On
<1>2. PICK j \in JobIds : /\ j = execs[e].job /\ jobs[j].kind = "backup" /\ execs[e] \in Exec
                          /\ execs[e].key \in 1..MaxRuns
  BY <1>1, AtWork, StepsOfKinds DEF KindOf
<1>3. /\ execs[e].at \in StepsOf("backup") /\ OfBackups = StepsOf("backup")
      /\ backups \in [JobIds -> Backup]
      /\ objects \in [JobIds -> [1..MaxRuns -> Archives]]
  BY <1>1 DEF StepsOf, OfBackups, JobsInv, JobsType
<1>4. ASSUME NEW status \in {"running", "verifying"}, Mark(j, status)
      PROVE  /\ backups' \in [JobIds -> Backup] /\ \A o \in JobIds \ {j} : backups'[o] = backups[o]
             /\ backups'[j].key = backups[j].key /\ backups'[j].status = status
  BY <1>3, <1>4 DEF Mark, SetBackup, Backup
<1>5. CASE BackupStarts(e)
  <2>1. Go(e, "dump") /\ Mark(j, "running") /\ UNCHANGED objects
    BY <1>2, <1>5 DEF BackupStarts
  <2> QED
    BY <1>1, <1>2, <1>3, <1>4, <2>1, BackupStep DEF OfBackups
<1>6. CASE Dump(e)
  <2>1. PICK f \in Archives, at \in {"mark", "fail"} :
            objects' \in {objects, [objects EXCEPT ![j][execs[e].key] = f]} /\ Go(e, at)
    BY <1>2, <1>6 DEF Dump, Archives
  <2>2. /\ objects' \in [JobIds -> [1..MaxRuns -> Archives]]
        /\ \A o \in JobIds, k \in 1..MaxRuns :
              o # j \/ k # execs[e].key => objects'[o][k] = objects[o][k]
    <3>1. CASE objects' = objects
      BY <1>3, <3>1
    <3>2. CASE objects' = [objects EXCEPT ![j][execs[e].key] = f]
      BY <1>2, <1>3, <3>2
    <3> QED
      BY <2>1, <3>1, <3>2
  <2>3. execs[e].at = "dump" /\ UNCHANGED backups
    BY <1>6 DEF Dump, On
  <2> QED
    BY <1>1, <1>2, <1>3, <2>1, <2>2, <2>3, BackupStep DEF OfBackups
<1>7. CASE MarkVerifying(e)
  <2>1. Go(e, "verify") /\ Mark(j, "verifying") /\ UNCHANGED objects
    BY <1>2, <1>7 DEF MarkVerifying
  <2> QED
    BY <1>1, <1>2, <1>3, <1>4, <2>1, BackupStep DEF OfBackups
<1>8. CASE VerifyBackup(e)
  <2>1. /\ UNCHANGED <<backups, objects>>
        /\ \/ objects[j][execs[e].key] \in Listable /\ Go(e, "complete")
           \/ Go(e, "fail")
    BY <1>2, <1>8 DEF VerifyBackup
  <2> QED
    BY <1>1, <1>2, <1>3, <2>1, BackupStep DEF OfBackups
<1>9. CASE CompleteBackup(e)
  <2>1. /\ UNCHANGED objects /\ Go(e, "end") /\ execs[e].at = "complete"
        /\ backups' = [backups EXCEPT ![j] = [backups[j] EXCEPT !.status = "completed",
                                                                !.key = execs[e].key]]
    BY <1>2, <1>9 DEF CompleteBackup, SetBackup, On
  <2>2. /\ backups' \in [JobIds -> Backup] /\ \A o \in JobIds \ {j} : backups'[o] = backups[o]
        /\ backups'[j].key = execs[e].key /\ backups'[j].status = "completed"
    <3>1. execs[e].key \in 0..MaxRuns
      BY <1>2 DEF Exec
    <3> QED
      BY <1>3, <2>1, <3>1 DEF Backup
  <2> QED
    BY <1>1, <1>2, <1>3, <2>1, <2>2, BackupStep DEF OfBackups
<1>10. CASE FailBackup(e)
  <2>1. /\ UNCHANGED objects /\ Go(e, "throw")
        /\ backups' = [backups EXCEPT ![j] = [backups[j] EXCEPT !.status = "failed",
                                                                !.error = TRUE]]
    BY <1>2, <1>10 DEF FailBackup, SetBackup
  <2>2. /\ backups' \in [JobIds -> Backup] /\ \A o \in JobIds \ {j} : backups'[o] = backups[o]
        /\ backups'[j].key = backups[j].key /\ backups'[j].status = "failed"
    BY <1>3, <2>1 DEF Backup
  <2> QED
    BY <1>1, <1>2, <1>3, <2>1, <2>2, BackupStep DEF OfBackups
<1> QED
  BY <1>5, <1>6, <1>7, <1>8, <1>9, <1>10

\* A statement of either fails.
LEMMA StatementFailsKeeps ==
    ASSUME JobsInv, NEW e \in Execs, StatementFails(e), UNCHANGED requests
    PROVE  JobsInv'
<1>1. PICK at \in {"fail", "throw"} :
          /\ at = IF execs[e].at \in {"mark", "complete"} THEN "fail" ELSE "throw"
          /\ Go(e, at)
  BY DEF StatementFails
<1>2. /\ execs[e].at \in {"start", "mark", "complete", "fail"}
      /\ trouble' = trouble \cup {execs[e].job}
      /\ UNCHANGED <<jobs, hooks, succeeded, backups, objects, again>>
  BY DEF StatementFails, Troubled
<1>3. execs[e] \in Exec /\ execs[e].at \in StepsOf(jobs[execs[e].job].kind)
  BY <1>2, AtWork
<1>4. PICK x \in Exec : Put(e, x) /\ x.job = execs[e].job /\ x.key = execs[e].key /\ x.at = at
  <2> DEFINE y == [execs[e] EXCEPT !.at = at]
  <2>1. y \in Exec
    BY <1>3 DEF Exec
  <2>2. y.job = execs[e].job /\ y.key = execs[e].key /\ y.at = at
    BY <1>3 DEF Exec
  <2> QED
    BY <1>1, <2>1, <2>2 DEF Go
<1>5. at \in StepsOf(jobs[execs[e].job].kind)
  BY <1>1, <1>2, <1>3 DEF StepsOf, OfHooks, OfBackups
<1>6. again' \subseteq JobIds /\ again' \subseteq trouble'
  BY <1>2, AgainOnlyTroubled
<1> QED
  BY <1>1, <1>2, <1>4, <1>5, <1>6, GoKeeps

\* An execution hangs, and has come to nothing.
LEMMA HungKeeps ==
    ASSUME JobsInv, NEW e \in Execs, Hangs(e), UNCHANGED requests
    PROVE  JobsInv'
<1>1. /\ execs[e].at \notin {"idle", "end"}
      /\ UNCHANGED <<jobs, hooks, succeeded, backups, objects, again, trouble>>
  BY DEF Hangs
<1>2. /\ execs[e] \in Exec /\ execs[e].job \in JobIds
      /\ jobs[execs[e].job].kind \in {"webhook", "test", "backup"}
  BY <1>1, AtWork, StepsOfKinds
<1>3. PICK x \in Exec : Put(e, x) /\ x.job = execs[e].job /\ x.key = execs[e].key /\ x.at = "hung"
  <2> DEFINE y == [execs[e] EXCEPT !.at = "hung"]
  <2>1. y \in Exec
    BY <1>2 DEF Exec
  <2>2. y.job = execs[e].job /\ y.key = execs[e].key /\ y.at = "hung"
    BY <1>2 DEF Exec
  <2> QED
    BY <2>1, <2>2 DEF Go, Hangs
<1>4. "hung" \in StepsOf(jobs[execs[e].job].kind)
  BY <1>2, StepsOfKinds
<1>5. again' \subseteq JobIds /\ again' \subseteq trouble'
  BY <1>1, AgainOnlyTroubled
<1>6. Ahead(succeeded[execs[e].job], x)
  BY <1>3 DEF Ahead
<1> QED
  BY <1>1, <1>3, <1>4, <1>5, <1>6, GoKeeps

\* A job is taken.
LEMMA TakeKeeps ==
    ASSUME JobsInv, NEW e \in Execs, NEW j \in JobIds, Take(e, j), UNCHANGED requests
    PROVE  JobsInv'
<1>0. /\ execs[e].at = "idle" /\ execs[e].job = None /\ jobs[j].at = "waiting"
      /\ UNCHANGED <<hooks, succeeded, backups, objects, again, trouble>>
  BY DEF Take, On, JobsInv, Executed
<1>1. /\ jobs[j] \in Job /\ jobs[j].kind \in {"webhook", "test", "backup"}
      /\ jobs[j].runs = jobs[j].made + jobs[j].stalls /\ jobs[j].made < Attempts(j)
      /\ jobs[j].runs + 1 \in 1..MaxRuns /\ j # None /\ e # None
  <2>1. /\ jobs[j] \in Job /\ jobs[j].runs = jobs[j].made + jobs[j].stalls
        /\ jobs[j].made < Attempts(j) /\ jobs[j].kind # "none"
    BY <1>0 DEF JobsInv, JobsType, Counted
  <2>2. /\ jobs[j].made \in Nat /\ jobs[j].stalls \in Nat /\ jobs[j].stalls <= MaxStalls
        /\ jobs[j].kind \in {"webhook", "test", "backup"}
    BY <2>1, Bounds DEF Job
  <2>3. jobs[j].runs + 1 \in 1..MaxRuns
    BY <2>1, <2>2, Bounds
  <2> QED
    BY <2>1, <2>2, <2>3, NobodyAssumption
<1>2. PICK x \in Exec : /\ Put(e, x) /\ x.job = j /\ x.at = "start" /\ x.key = jobs[j].runs + 1
  <2> DEFINE y == [Idle EXCEPT !.job = j, !.at = "start", !.key = jobs[j].runs + 1]
  <2>1. jobs[j].runs + 1 \in 0..MaxRuns
    BY <1>1, Bounds
  <2>2. y \in Exec /\ y.job = j /\ y.at = "start" /\ y.key = jobs[j].runs + 1
    BY <2>1 DEF Exec, Idle
  <2> QED
    BY <2>2 DEF Take
<1>3. /\ execs' \in [Execs -> Exec] /\ execs'[e] = x
      /\ \A f \in Execs \ {e} : execs'[f] = execs[f]
  BY <1>2 DEF Put, JobsInv, JobsType
<1>4. /\ jobs' \in [JobIds -> Job] /\ \A o \in JobIds \ {j} : jobs'[o] = jobs[o]
      /\ jobs'[j].at = "active" /\ jobs'[j].owner = e /\ jobs'[j].runs = jobs[j].runs + 1
      /\ jobs'[j].kind = jobs[j].kind /\ jobs'[j].made = jobs[j].made
      /\ jobs'[j].stalls = jobs[j].stalls
  <2> DEFINE y == [jobs[j] EXCEPT !.at = "active", !.owner = e, !.runs = @ + 1]
  <2>1. jobs[j].runs + 1 \in 0..MaxRuns
    BY <1>1, Bounds
  <2>2. y \in Job
    BY <1>1, <2>1 DEF Job
  <2>3. /\ y.at = "active" /\ y.owner = e /\ y.runs = jobs[j].runs + 1
        /\ y.kind = jobs[j].kind /\ y.made = jobs[j].made /\ y.stalls = jobs[j].stalls
    BY <1>1 DEF Job
  <2>4. jobs' = [jobs EXCEPT ![j] = y]
    BY DEF Take
  <2> QED
    BY <2>2, <2>3, <2>4 DEF JobsInv, JobsType
<1>5. JobsType'
  BY <1>0, <1>3, <1>4 DEF JobsInv, JobsType
<1>6. Counted'
  <2>1. \A o \in JobIds : Attempts(o)' = Attempts(o)
    BY <1>4 DEF Attempts
  <2> QED
    BY <1>1, <1>4, <2>1 DEF JobsInv, Counted
<1>7. \A o \in JobIds : jobs[o].owner # e
  BY <1>0, NobodyAssumption DEF JobsInv, Locked
<1>8. Locked'
  <2>1. \A o \in JobIds : jobs[o].owner # None => jobs[o].owner \in Execs \ {e}
    BY <1>7 DEF JobsInv, JobsType, Job
  <2> QED
    BY <1>2, <1>3, <1>4, <2>1 DEF JobsInv, Locked
<1>9. \A f \in Execs \ {e} : execs[f].job = j => execs[f].key \in 1..jobs[j].runs
  BY <1>1 DEF JobsInv, Executed
<1>10. Executed'
  <2>1. ASSUME NEW f \in Execs \ {e}, execs[f].job # None
        PROVE  /\ execs[f].at \in StepsOf(jobs'[execs[f].job].kind)
               /\ execs[f].key \in 1..jobs'[execs[f].job].runs
    <3>1. execs[f].job \in JobIds /\ execs[f].at \in StepsOf(jobs[execs[f].job].kind)
          /\ execs[f].key \in 1..jobs[execs[f].job].runs /\ jobs[execs[f].job].runs \in Nat
      BY <2>1, Bounds DEF JobsInv, JobsType, Exec, Executed, Job
    <3> QED
      BY <1>4, <3>1
  <2>2. x.at \in StepsOf(jobs'[j].kind) /\ x.key \in 1..jobs'[j].runs
    BY <1>1, <1>2, <1>4, StepsOfKinds
  <2>3. \A f \in Execs \ {e} : /\ execs[f].at = "idle" <=> execs[f].job = None
                               /\ execs[f].at = "record" => execs[f].hook # None
    BY DEF JobsInv, Executed
  <2> QED
    BY <1>1, <1>2, <1>3, <2>1, <2>2, <2>3 DEF Executed
<1>11. KeysDiffer'
  <2>1. \A f \in Execs \ {e} : execs[f].job = j => execs[f].key # x.key
    BY <1>1, <1>2, <1>9, Bounds DEF Job
  <2> QED
    BY <1>2, <1>3, <2>1 DEF JobsInv, KeysDiffer
<1>12. OneExecution'
  <2>1. j \notin trouble => \A f \in Execs : execs[f].job # j
    <3>1. jobs[j].owner = None
      BY <1>0 DEF JobsInv, Locked
    <3> QED
      BY <3>1, NobodyAssumption DEF JobsInv, OneExecution
  <2> QED
    BY <1>0, <1>1, <1>2, <1>3, <1>4, <2>1 DEF JobsInv, OneExecution
<1>13. Archived'
  <2>1. ASSUME NEW o \in JobIds, backups[o].key # 0
        PROVE  /\ backups[o].key <= jobs'[o].runs
               /\ \A f \in Execs :
                     execs'[f].job = o /\ execs'[f].key = backups[o].key => execs'[f].at = "end"
    <3>1. /\ backups[o].key <= jobs[o].runs /\ backups[o].key \in Nat /\ jobs[o].runs \in Nat
          /\ \A f \in Execs :
                execs[f].job = o /\ execs[f].key = backups[o].key => execs[f].at = "end"
      BY <2>1, Bounds DEF JobsInv, JobsType, Archived, Backup, Job
    <3>2. o = j => backups[o].key # x.key
      BY <1>2, <3>1
    <3> QED
      BY <1>2, <1>3, <1>4, <3>1, <3>2
  <2> QED
    BY <1>0, <1>2, <1>3, <2>1 DEF JobsInv, Archived
<1>14. BackupsNoted'
  <2>1. BackupFollowsJob'
    BY <1>0, <1>4 DEF JobsInv, BackupsNoted, BackupFollowsJob
  <2>2. ASSUME NEW f \in Execs, execs'[f].job \notin trouble' \cup {None}
        PROVE  Noted(execs[f].job, execs[f].at)'
    <3>1. CASE f = e
      BY <1>2, <1>3, <3>1 DEF Noted
    <3>2. CASE f # e
      <4>1. execs'[f] = execs[f] /\ execs[f].job \in JobIds /\ Noted(execs[f].job, execs[f].at)
        BY <1>0, <1>3, <2>2, <3>2 DEF JobsInv, JobsType, Exec, BackupsNoted
      <4> QED
        BY <1>0, <1>4, <4>1 DEF Noted
    <3> QED
      BY <3>1, <3>2
  <2> QED
    BY <2>1, <2>2 DEF BackupsNoted
<1>15. Delivered'
  <2>1. j \notin trouble => succeeded[j] = {}
    BY <1>0 DEF JobsInv, Delivered
  <2>2. ASSUME NEW f \in Execs, execs'[f].job \notin trouble' \cup {None}
        PROVE  Ahead(succeeded'[execs'[f].job], execs'[f])
    <3>1. CASE f = e
      BY <1>0, <1>2, <1>3, <2>1, <2>2, <3>1 DEF Ahead
    <3>2. CASE f # e
      BY <1>0, <1>3, <2>2, <3>2 DEF JobsInv, Delivered
    <3> QED
      BY <3>1, <3>2
  <2> QED
    BY <1>0, <1>4, <2>2 DEF JobsInv, Delivered, ResentOnlyAfterTrouble, Ahead
<1>16. Queueing'
  <2>1. \A o \in JobIds : jobs'[o].kind = jobs[o].kind
    BY <1>4
  <2> QED
    BY <1>0, <2>1 DEF JobsInv, Queueing, Request, At
<1> QED
  BY <1>5, <1>6, <1>8, <1>10, <1>11, <1>12, <1>13, <1>14, <1>15, <1>16 DEF JobsInv

\* An execution ends, and its job too if it still holds the lock.
LEMMA LeaveKeeps ==
    ASSUME JobsInv, NEW e \in Execs, execs[e].at \in {"end", "throw"}, Put(e, Idle),
           UNCHANGED <<hooks, succeeded, backups, objects, again, trouble, requests>>,
           NEW j \in JobIds, j = execs[e].job, NEW y \in Job,
           jobs' = IF jobs[j].owner = e THEN [jobs EXCEPT ![j] = y] ELSE jobs,
           y.owner = None, y.kind = jobs[j].kind, y.runs = jobs[j].runs,
           y.stalls = jobs[j].stalls, y.made \in {jobs[j].made, jobs[j].made + 1},
           \/ execs[e].at = "end" /\ y.at = "completed"
           \/ execs[e].at = "throw" /\ y.at = "failed"
           \/ /\ execs[e].at = "throw" /\ y.at = "waiting" /\ y.made = jobs[j].made + 1
              /\ y.made < Attempts(j)
    PROVE  JobsInv'
<1>1. /\ execs[e] \in Exec /\ j # None /\ e # None /\ jobs[j] \in Job /\ jobs[j].kind # "none"
      /\ execs[e].key \in 1..MaxRuns
  BY AtWork, StepsOfKinds, NobodyAssumption
<1>2. /\ execs' \in [Execs -> Exec] /\ execs'[e].at = "idle" /\ execs'[e].job = None
      /\ \A f \in Execs \ {e} : execs'[f] = execs[f]
  <2>1. Idle \in Exec /\ Idle.at = "idle" /\ Idle.job = None
    BY Bounds DEF Idle, Exec
  <2> QED
    BY <2>1 DEF Put, JobsInv, JobsType
<1>3. /\ jobs' \in [JobIds -> Job] /\ \A o \in JobIds \ {j} : jobs'[o] = jobs[o]
      /\ jobs'[j] = IF jobs[j].owner = e THEN y ELSE jobs[j]
  BY DEF JobsInv, JobsType
<1>4. /\ \A o \in JobIds : jobs'[o].kind = jobs[o].kind /\ jobs'[o].runs = jobs[o].runs
      /\ \A o \in JobIds : Attempts(o)' = Attempts(o)
  BY <1>3 DEF Attempts
<1>5. jobs[j].owner = e => /\ jobs[j].at = "active"
                           /\ jobs[j].runs = jobs[j].made + jobs[j].stalls + 1
  BY <1>1 DEF JobsInv, Locked, Counted
<1>6. JobsType'
  BY <1>2, <1>3 DEF JobsInv, JobsType
<1>7. Counted'
  <2>1. jobs[j].owner = e =>
            /\ y.at # "none" /\ y.at # "active" /\ y.kind # "none"
            /\ y.at = "waiting" => y.runs = y.made + y.stalls /\ y.made < Attempts(j)
    <3>1. jobs[j].made \in Nat /\ jobs[j].stalls \in Nat
      BY <1>1, Bounds DEF Job
    <3> QED
      BY <1>1, <1>5, <3>1
  <2> QED
    BY <1>3, <1>4, <2>1 DEF JobsInv, Counted
<1>8. Locked'
  <2>1. ASSUME NEW o \in JobIds, jobs'[o].owner # None
        PROVE  /\ jobs[o].owner = jobs'[o].owner /\ jobs'[o].at = jobs[o].at
               /\ jobs[o].owner \in Execs \ {e}
    <3>1. jobs'[o] = jobs[o] /\ jobs[o].owner \in Execs
      BY <1>3, <2>1 DEF JobsInv, JobsType, Job
    <3>2. jobs[o].owner # e
      BY <1>3, <2>1, <3>1 DEF JobsInv, Locked
    <3> QED
      BY <3>1, <3>2
  <2> QED
    BY <1>2, <1>4, <2>1 DEF JobsInv, Locked
<1>9. Executed'
  <2>1. \A f \in Execs : execs[f].job # None => execs[f].job \in JobIds
    BY DEF JobsInv, JobsType, Exec
  <2> QED
    BY <1>2, <1>4, <2>1 DEF JobsInv, Executed
<1>10. KeysDiffer'
  BY <1>2 DEF JobsInv, KeysDiffer
<1>11. OneExecution'
  <2>1. ASSUME NEW o \in JobIds \ trouble, NEW f \in Execs, execs'[f].job = o
        PROVE  jobs'[o].owner = f
    <3>1. f # e /\ execs[f].job = o /\ jobs[o].owner = f
      BY <1>2, <2>1, NobodyAssumption DEF JobsInv, OneExecution
    <3> QED
      BY <1>3, <3>1
  <2>2. ASSUME NEW o \in JobIds \ trouble, jobs'[o].at = "active"
        PROVE  jobs'[o].owner # None
    BY <1>3, <2>2 DEF JobsInv, OneExecution
  <2> QED
    BY <2>1, <2>2 DEF OneExecution
<1>12. Archived'
  <2>1. ASSUME NEW o \in JobIds, backups[o].key # 0
        PROVE  \A f \in Execs :
                   execs'[f].job = o /\ execs'[f].key = backups[o].key => execs'[f].at = "end"
    BY <1>2, <2>1, NobodyAssumption DEF JobsInv, Archived
  <2> QED
    BY <1>2, <1>4, <2>1 DEF JobsInv, Archived
<1>13. BackupsNoted'
  <2>1. j \notin trouble /\ jobs[j].kind = "backup" =>
            /\ y.at = "completed" => backups[j].status = "completed"
            /\ y.at = "failed" => backups[j].status = "failed"
    BY <1>1 DEF JobsInv, BackupsNoted, Noted
  <2>2. BackupFollowsJob'
    BY <1>3, <1>4, <2>1 DEF JobsInv, BackupsNoted, BackupFollowsJob
  <2>3. ASSUME NEW f \in Execs, execs'[f].job \notin trouble' \cup {None}
        PROVE  Noted(execs[f].job, execs[f].at)'
    <3>1. f # e /\ execs'[f] = execs[f]
      BY <1>2, <2>3
    <3>2. execs[f].job \in JobIds /\ Noted(execs[f].job, execs[f].at)
      BY <2>3, <3>1 DEF JobsInv, JobsType, Exec, BackupsNoted
    <3> QED
      BY <1>4, <3>1, <3>2 DEF Noted
  <2> QED
    BY <2>2, <2>3 DEF BackupsNoted
<1>14. Delivered'
  <2>1. j \notin trouble /\ execs[e].at = "throw" => succeeded[j] = {}
    BY <1>1 DEF JobsInv, Delivered, Ahead
  <2>2. ASSUME NEW f \in Execs, execs'[f].job \notin trouble' \cup {None}
        PROVE  Ahead(succeeded'[execs'[f].job], execs'[f])
    BY <1>2, <2>2 DEF JobsInv, Delivered
  <2>3. \A o \in JobIds \ trouble : jobs'[o].at = "waiting" => succeeded[o] = {}
    BY <1>3, <2>1 DEF JobsInv, Delivered
  <2> QED
    BY <1>4, <2>2, <2>3 DEF JobsInv, Delivered, ResentOnlyAfterTrouble, Ahead
<1>15. Queueing'
  BY <1>4 DEF JobsInv, Queueing, Request, At
<1> QED
  BY <1>6, <1>7, <1>8, <1>9, <1>10, <1>11, <1>12, <1>13, <1>14, <1>15 DEF JobsInv

\* The processor returns, or throws.
LEMMA ReturnKeeps ==
    ASSUME JobsInv, NEW e \in Execs, UNCHANGED requests, Return(e) \/ Throw(e)
    PROVE  JobsInv'
<1>1. /\ execs[e].at \in {"end", "throw"} /\ Put(e, Idle)
      /\ UNCHANGED <<hooks, succeeded, backups, objects, again, trouble>>
  BY DEF Return, Throw, On
<1>2. PICK j \in JobIds : j = execs[e].job /\ jobs[j] \in Job /\ j # None /\ e # None
  BY <1>1, AtWork, NobodyAssumption
<1>3. CASE Return(e)
  <2> DEFINE z == [jobs[j] EXCEPT !.at = "completed", !.owner = None]
  <2>1. PICK y \in Job : /\ y = z /\ y.at = "completed" /\ y.owner = None
                         /\ y.kind = jobs[j].kind /\ y.runs = jobs[j].runs
                         /\ y.stalls = jobs[j].stalls /\ y.made = jobs[j].made
    <3>1. z \in Job
      BY <1>2 DEF Job
    <3>2. /\ z.at = "completed" /\ z.owner = None /\ z.kind = jobs[j].kind
          /\ z.runs = jobs[j].runs /\ z.stalls = jobs[j].stalls /\ z.made = jobs[j].made
      BY <1>2 DEF Job
    <3> QED
      BY <3>1, <3>2
  <2>2. jobs' = (IF jobs[j].owner = e THEN [jobs EXCEPT ![j] = y] ELSE jobs)
        /\ execs[e].at = "end"
    BY <1>2, <1>3, <2>1 DEF Return, On
  <2> QED
    BY <1>1, <1>2, <2>1, <2>2, LeaveKeeps
<1>4. CASE Throw(e)
  <2>1. CASE jobs[j].owner = e
    <3>1. jobs[j].made < Attempts(j) /\ jobs[j].made \in Nat /\ jobs[j].made + 1 \in 0..MaxRuns
      <4>1. jobs[j].made < Attempts(j)
        BY <1>2, <2>1 DEF JobsInv, Locked, Counted
      <4>2. jobs[j].made \in Nat
        BY <1>2, Bounds DEF Job
      <4> QED
        BY <4>1, <4>2, Bounds
    <3>2. PICK at \in {"failed", "waiting"} :
              /\ at = IF jobs[j].made + 1 >= Attempts(j) THEN "failed" ELSE "waiting"
              /\ at = "waiting" => jobs[j].made + 1 < Attempts(j)
      BY <3>1, Bounds
    <3> DEFINE z == [jobs[j] EXCEPT !.owner = None, !.made = @ + 1, !.at = at]
    <3>3. PICK y \in Job : /\ y = z /\ y.at = at /\ y.owner = None
                           /\ y.kind = jobs[j].kind /\ y.runs = jobs[j].runs
                           /\ y.stalls = jobs[j].stalls /\ y.made = jobs[j].made + 1
      <4>1. z \in Job
        BY <1>2, <3>1 DEF Job
      <4>2. /\ z.at = at /\ z.owner = None /\ z.kind = jobs[j].kind
            /\ z.runs = jobs[j].runs /\ z.stalls = jobs[j].stalls /\ z.made = jobs[j].made + 1
        BY <1>2 DEF Job
      <4> QED
        BY <4>1, <4>2
    <3>4. jobs' = [jobs EXCEPT ![j] = y] /\ execs[e].at = "throw"
      BY <1>2, <1>4, <2>1, <3>2, <3>3 DEF Throw, On
    <3>5. jobs' = IF jobs[j].owner = e THEN [jobs EXCEPT ![j] = y] ELSE jobs
      BY <2>1, <3>4
    <3>6. \/ y.at = "failed"
          \/ y.at = "waiting" /\ y.made = jobs[j].made + 1 /\ y.made < Attempts(j)
      BY <3>2, <3>3
    <3> HIDE DEF z
    <3>7. /\ y.kind = jobs[j].kind /\ y.runs = jobs[j].runs /\ y.stalls = jobs[j].stalls
          /\ y.made \in {jobs[j].made, jobs[j].made + 1} /\ y \in Job /\ y.owner = None
      BY <3>3
    <3> QED
      BY <1>1, <1>2, <3>4, <3>5, <3>6, <3>7, LeaveKeeps
  <2>2. CASE jobs[j].owner # e
    <3>1. jobs' = jobs /\ execs[e].at = "throw"
      BY <1>2, <1>4, <2>2 DEF Throw, On
    <3> DEFINE z == [jobs[j] EXCEPT !.owner = None, !.at = "failed"]
    <3>2. PICK y \in Job : /\ y.at = "failed" /\ y.owner = None
                           /\ y.kind = jobs[j].kind /\ y.runs = jobs[j].runs
                           /\ y.stalls = jobs[j].stalls /\ y.made = jobs[j].made
      <4>1. z \in Job
        BY <1>2 DEF Job
      <4>2. /\ z.at = "failed" /\ z.owner = None /\ z.kind = jobs[j].kind
            /\ z.runs = jobs[j].runs /\ z.stalls = jobs[j].stalls /\ z.made = jobs[j].made
        BY <1>2 DEF Job
      <4> QED
        BY <4>1, <4>2
    <3>3. jobs' = IF jobs[j].owner = e THEN [jobs EXCEPT ![j] = y] ELSE jobs
      BY <2>2, <3>1
    <3> QED
      BY <1>1, <1>2, <3>1, <3>2, <3>3, LeaveKeeps
  <2> QED
    BY <2>1, <2>2
<1> QED
  BY <1>3, <1>4

\* A lock is lost, and found to be.
LEMMA UnlockKeeps ==
    ASSUME JobsInv, NEW j \in JobIds, jobs[j].at = "active", NEW y \in Job,
           jobs' = [jobs EXCEPT ![j] = y], j \in trouble',
           trouble' \in {trouble, trouble \cup {j}},
           UNCHANGED <<execs, hooks, succeeded, backups, objects, again, requests>>,
           y.owner = None, y.kind = jobs[j].kind, y.made = jobs[j].made, y.runs = jobs[j].runs,
           \/ y.at = "active" /\ y.stalls = jobs[j].stalls
           \/ y.at = "waiting" /\ y.stalls = jobs[j].stalls + 1
           \/ y.at = "failed"
    PROVE  JobsInv'
<1>1. /\ jobs' \in [JobIds -> Job] /\ jobs'[j] = y
      /\ \A o \in JobIds \ {j} : jobs'[o] = jobs[o]
  BY DEF JobsInv, JobsType
<1>2. /\ \A o \in JobIds : jobs'[o].kind = jobs[o].kind /\ jobs'[o].runs = jobs[o].runs
      /\ \A o \in JobIds : Attempts(o)' = Attempts(o)
  BY <1>1 DEF Attempts
<1>3. JobsType'
  BY <1>1 DEF JobsInv, JobsType
<1>4. Counted'
  <2>1. /\ jobs[j].runs = jobs[j].made + jobs[j].stalls + 1 /\ jobs[j].made < Attempts(j)
        /\ jobs[j].made \in Nat /\ jobs[j].stalls \in Nat /\ jobs[j].kind # "none"
    BY Bounds DEF JobsInv, JobsType, Counted, Job
  <2>2. /\ y.at # "none" /\ y.kind # "none"
        /\ y.at = "waiting" => y.runs = y.made + y.stalls /\ y.made < Attempts(j)
        /\ y.at = "active" => y.runs = y.made + y.stalls + 1 /\ y.made < Attempts(j)
    BY <2>1
  <2> QED
    BY <1>1, <1>2, <2>2 DEF JobsInv, Counted
<1>5. Locked'
  BY <1>1, <1>2 DEF JobsInv, Locked
<1>6. Executed'
  <2>1. \A f \in Execs : execs[f].job # None => execs[f].job \in JobIds
    BY DEF JobsInv, JobsType, Exec
  <2> QED
    BY <1>2, <2>1 DEF JobsInv, Executed
<1>7. KeysDiffer'
  BY DEF JobsInv, KeysDiffer
<1>8. OneExecution'
  BY <1>1 DEF JobsInv, OneExecution
<1>9. Archived'
  BY <1>2 DEF JobsInv, Archived
<1>10. BackupsNoted'
  <2>1. BackupFollowsJob'
    BY <1>1, <1>2 DEF JobsInv, BackupsNoted, BackupFollowsJob
  <2>2. ASSUME NEW f \in Execs, execs'[f].job \notin trouble' \cup {None}
        PROVE  Noted(execs[f].job, execs[f].at)'
    <3>1. execs[f].job \in JobIds /\ Noted(execs[f].job, execs[f].at)
      BY <2>2 DEF JobsInv, JobsType, Exec, BackupsNoted
    <3> QED
      BY <1>2, <3>1 DEF Noted
  <2> QED
    BY <2>1, <2>2 DEF BackupsNoted
<1>11. Delivered'
  <2>1. ASSUME NEW f \in Execs, execs'[f].job \notin trouble' \cup {None}
        PROVE  Ahead(succeeded'[execs'[f].job], execs'[f])
    BY <2>1 DEF JobsInv, Delivered
  <2> QED
    BY <1>1, <1>2, <2>1 DEF JobsInv, Delivered, ResentOnlyAfterTrouble, Ahead
<1>12. Queueing'
  BY <1>2 DEF JobsInv, Queueing, Request, At
<1> QED
  BY <1>3, <1>4, <1>5, <1>6, <1>7, <1>8, <1>9, <1>10, <1>11, <1>12 DEF JobsInv

\* A lock runs out, or the check for stalled jobs finds that it did.
LEMMA LockSteps ==
    ASSUME JobsInv, NEW j \in JobIds, UNCHANGED requests, LoseLock(j) \/ Stalled(j)
    PROVE  JobsInv'
<1>1. jobs[j].at = "active" /\ jobs[j] \in Job
  BY DEF LoseLock, Stalled, JobsInv, JobsType
<1>2. CASE LoseLock(j)
  <2> DEFINE z == [jobs[j] EXCEPT !.owner = None]
  <2>1. z \in Job
    BY <1>1 DEF Job
  <2>2. /\ z.owner = None /\ z.kind = jobs[j].kind /\ z.made = jobs[j].made
        /\ z.runs = jobs[j].runs /\ z.at = "active" /\ z.stalls = jobs[j].stalls
    BY <1>1 DEF Job
  <2>3. /\ jobs' = [jobs EXCEPT ![j] = z] /\ trouble' = trouble \cup {j}
        /\ UNCHANGED <<execs, hooks, succeeded, backups, objects, again>>
    BY <1>2 DEF LoseLock, Troubled
  <2> HIDE DEF z
  <2> QED
    BY <1>1, <2>1, <2>2, <2>3, UnlockKeeps
<1>3. CASE Stalled(j)
  <2>1. j \in trouble
    BY <1>1, <1>3 DEF Stalled, JobsInv, OneExecution
  <2>2. PICK at \in {"waiting", "failed"}, n \in 0..MaxStalls :
            /\ at = (IF jobs[j].stalls < MaxStalls THEN "waiting" ELSE "failed")
            /\ n = (IF jobs[j].stalls < MaxStalls THEN jobs[j].stalls + 1 ELSE jobs[j].stalls)
            /\ at = "waiting" => n = jobs[j].stalls + 1
    <3>1. jobs[j].stalls \in 0..MaxStalls
      BY <1>1 DEF Job
    <3> QED
      BY <3>1, Bounds
  <2> DEFINE z == [jobs[j] EXCEPT !.at = at, !.stalls = n]
  <2>3. z \in Job
    BY <1>1, <2>2 DEF Job
  <2>4. /\ z.owner = None /\ z.kind = jobs[j].kind /\ z.made = jobs[j].made
        /\ z.runs = jobs[j].runs /\ z.at = at /\ z.stalls = n
    BY <1>1, <1>3 DEF Job, Stalled
  <2>5. /\ jobs' = [jobs EXCEPT ![j] = z] /\ trouble' = trouble
        /\ UNCHANGED <<execs, hooks, succeeded, backups, objects, again>>
    BY <1>3, <2>2 DEF Stalled
  <2> HIDE DEF z
  <2> QED
    BY <1>1, <2>1, <2>2, <2>3, <2>4, <2>5, UnlockKeeps
<1> QED
  BY <1>2, <1>3

\* Every lock goes with the worker.
LEMMA WorkerDiesKeeps ==
    ASSUME JobsInv, WorkerDies, UNCHANGED requests
    PROVE  JobsInv'
<1>0. UNCHANGED <<hooks, succeeded, backups, objects, again>>
  BY DEF WorkerDies
<1>1. \A f \in Execs : execs'[f].at = "idle" /\ execs'[f].job = None /\ execs'[f] \in Exec
  BY Bounds DEF WorkerDies, Idle, Exec
<1>2. ASSUME NEW o \in JobIds
      PROVE  /\ jobs'[o] \in Job /\ jobs'[o].owner = None /\ jobs'[o].at = jobs[o].at
             /\ jobs'[o].kind = jobs[o].kind /\ jobs'[o].made = jobs[o].made
             /\ jobs'[o].stalls = jobs[o].stalls /\ jobs'[o].runs = jobs[o].runs
             /\ Attempts(o)' = Attempts(o)
  <2>1. jobs'[o] = [jobs[o] EXCEPT !.owner = None] /\ jobs[o] \in Job
    BY DEF WorkerDies, JobsInv, JobsType
  <2>2. /\ jobs'[o] \in Job /\ jobs'[o].owner = None /\ jobs'[o].at = jobs[o].at
        /\ jobs'[o].kind = jobs[o].kind /\ jobs'[o].made = jobs[o].made
        /\ jobs'[o].stalls = jobs[o].stalls /\ jobs'[o].runs = jobs[o].runs
    BY <2>1 DEF Job
  <2> QED
    BY <2>2 DEF Attempts
<1>3. /\ trouble \subseteq trouble' /\ trouble' \subseteq JobIds
      /\ \A f \in Execs : execs[f].job # None => execs[f].job \in trouble'
  <2>1. trouble' = trouble \cup ({execs[e].job : e \in Execs} \ {None})
    BY DEF WorkerDies
  <2> QED
    BY <2>1 DEF JobsInv, JobsType, Exec
<1>4. JobsType'
  <2>1. execs' \in [Execs -> Exec]
    BY <1>1 DEF WorkerDies
  <2>2. jobs' \in [JobIds -> Job]
    BY <1>2 DEF WorkerDies
  <2> QED
    BY <1>0, <1>3, <2>1, <2>2 DEF JobsInv, JobsType
<1>5. Counted'
  <2>1. \A o \in JobIds : jobs[o].at = "none" => jobs'[o] = NoJob
    <3> SUFFICES ASSUME NEW o \in JobIds, jobs[o].at = "none" PROVE jobs'[o] = NoJob
      OBVIOUS
    <3>1. jobs[o] = NoJob /\ jobs'[o] = [jobs[o] EXCEPT !.owner = None]
      BY DEF JobsInv, Counted, WorkerDies
    <3> QED
      BY <3>1 DEF NoJob
  <2> QED
    BY <1>2, <2>1 DEF JobsInv, Counted
<1>6. Locked'
  BY <1>2 DEF Locked
<1>7. Executed' /\ KeysDiffer'
  BY <1>1 DEF Executed, KeysDiffer
<1>8. OneExecution'
  <2>1. \A o \in JobIds \ trouble' : jobs'[o].at # "active"
    <3> SUFFICES ASSUME NEW o \in JobIds \ trouble', jobs'[o].at = "active" PROVE FALSE
      OBVIOUS
    <3>1. jobs[o].owner # None /\ jobs[o].owner \in Execs
      BY <1>2, <1>3 DEF JobsInv, JobsType, Job, OneExecution
    <3>2. execs[jobs[o].owner].job = o
      BY <3>1 DEF JobsInv, Locked
    <3> QED
      BY <1>3, <3>1, <3>2, NobodyAssumption
  <2> QED
    BY <1>1, <2>1, NobodyAssumption DEF OneExecution
<1>9. Archived'
  BY <1>0, <1>1, <1>2, NobodyAssumption DEF JobsInv, Archived
<1>10. BackupsNoted'
  <2>1. BackupFollowsJob'
    BY <1>0, <1>2, <1>3 DEF JobsInv, BackupsNoted, BackupFollowsJob
  <2> QED
    BY <1>1, <2>1 DEF BackupsNoted
<1>11. Delivered'
  BY <1>0, <1>1, <1>2, <1>3 DEF JobsInv, Delivered, ResentOnlyAfterTrouble
<1>12. Queueing'
  BY <1>0, <1>2 DEF JobsInv, Queueing, Request, At
<1> QED
  BY <1>4, <1>5, <1>6, <1>7, <1>8, <1>9, <1>10, <1>11, <1>12 DEF JobsInv

\* Webhooks come and go.
LEMMA HooksKeep ==
    ASSUME JobsInv, UNCHANGED <<jobs, execs, backups, objects, again, trouble, requests>>,
           hooks' \subseteq Hooks, succeeded' \in [JobIds -> SUBSET Hooks],
           \A j \in JobIds : succeeded'[j] \subseteq succeeded[j]
    PROVE  JobsInv'
<1>1. JobsType' /\ Counted' /\ Locked' /\ Executed' /\ KeysDiffer' /\ OneExecution'
  <2>1. JobsType' /\ Locked' /\ Executed' /\ KeysDiffer' /\ OneExecution'
    BY DEF JobsInv, JobsType, Locked, Executed, KeysDiffer, OneExecution
  <2>2. Counted'
    BY DEF JobsInv, Counted, Attempts
  <2> QED
    BY <2>1, <2>2
<1>2. Archived' /\ BackupsNoted' /\ Queueing'
  BY DEF JobsInv, Archived, BackupsNoted, BackupFollowsJob, Noted, Queueing, At
<1>3. Delivered'
  <2>1. ASSUME NEW f \in Execs, execs[f].job \notin trouble \cup {None}
        PROVE  Ahead(succeeded'[execs[f].job], execs[f])
    <3>1. execs[f].job \in JobIds /\ Ahead(succeeded[execs[f].job], execs[f])
      BY <2>1 DEF JobsInv, JobsType, Exec, Delivered
    <3>2. succeeded'[execs[f].job] \subseteq succeeded[execs[f].job]
      BY <3>1
    <3> QED
      BY <3>1, <3>2 DEF Ahead
  <2>2. /\ \A j \in JobIds : jobs[j].kind \in {"none", "backup"} => succeeded'[j] = {}
        /\ \A j \in JobIds \ trouble : jobs[j].at = "waiting" => succeeded'[j] = {}
    BY DEF JobsInv, Delivered
  <2> QED
    BY <2>1, <2>2 DEF JobsInv, Delivered, ResentOnlyAfterTrouble, Ahead
<1> QED
  BY <1>1, <1>2, <1>3 DEF JobsInv

\* A job is queued, by an event, a test, or a request whose row is there.
LEMMA EnqueueKeeps ==
    ASSUME JobsInv, NEW j \in JobIds, NEW kind \in {"webhook", "test", "backup"},
           jobs[j].kind = "none", Enqueue(j, kind),
           UNCHANGED <<execs, hooks, succeeded, backups, objects, again, trouble>>,
           requests' \in [Requests -> Request],
           \A r \in Requests : At(r, "add")' => At(r, "add") /\ requests'[r] = requests[r]
                                                /\ requests[r].job # j
    PROVE  JobsInv'
<1>1. PICK y \in Job : /\ jobs' = [jobs EXCEPT ![j] = y] /\ y.kind = kind /\ y.at = "waiting"
                       /\ y.made = 0 /\ y.stalls = 0 /\ y.runs = 0 /\ y.owner = None
  <2> DEFINE z == [NoJob EXCEPT !.kind = kind, !.at = "waiting"]
  <2>1. z \in Job
    <3>1. 0 \in 0..MaxRuns /\ 0 \in 0..MaxStalls
      BY Bounds
    <3> QED
      BY <3>1 DEF NoJob, Job
  <2>2. /\ z.kind = kind /\ z.at = "waiting" /\ z.made = 0 /\ z.stalls = 0 /\ z.runs = 0
        /\ z.owner = None
    BY DEF NoJob
  <2> QED
    BY <2>1, <2>2 DEF Enqueue
<1>2. /\ jobs' \in [JobIds -> Job] /\ jobs'[j] = y
      /\ \A o \in JobIds \ {j} : jobs'[o] = jobs[o]
  BY <1>1 DEF JobsInv, JobsType
<1>3. jobs[j] = NoJob /\ jobs[j].runs = 0 /\ jobs[j].at = "none" /\ j # None
  BY NobodyAssumption DEF JobsInv, Counted, NoJob
<1>4. ASSUME NEW f \in Execs PROVE execs[f].job # j
  <2>1. execs[f].job # None => execs[f].key \in 1..jobs[execs[f].job].runs
    BY DEF JobsInv, Executed
  <2> QED
    BY <1>3, <2>1
<1>5. JobsType'
  BY <1>2 DEF JobsInv, JobsType
<1>6. Counted'
  <2>1. \A o \in JobIds \ {j} : Attempts(o)' = Attempts(o)
    BY <1>2 DEF Attempts
  <2>2. Attempts(j)' > 0
    BY <1>1, <1>2, AttemptsAssumption DEF Attempts
  <2> QED
    BY <1>1, <1>2, <2>1, <2>2 DEF JobsInv, Counted
<1>7. Locked'
  BY <1>1, <1>2 DEF JobsInv, Locked
<1>8. Executed' /\ KeysDiffer'
  <2>1. \A f \in Execs : execs[f].job # None => jobs'[execs[f].job] = jobs[execs[f].job]
    BY <1>2, <1>4 DEF JobsInv, JobsType, Exec
  <2> QED
    BY <2>1 DEF JobsInv, Executed, KeysDiffer
<1>9. OneExecution'
  BY <1>1, <1>2, <1>4 DEF JobsInv, OneExecution
<1>10. Archived'
  <2>1. backups[j].key = 0
    BY <1>3, Bounds DEF JobsInv, JobsType, Archived, Backup
  <2> QED
    BY <1>2, <2>1 DEF JobsInv, Archived
<1>11. BackupsNoted'
  <2>1. BackupFollowsJob'
    BY <1>1, <1>2 DEF JobsInv, BackupsNoted, BackupFollowsJob
  <2>2. ASSUME NEW f \in Execs, execs'[f].job \notin trouble' \cup {None}
        PROVE  Noted(execs[f].job, execs[f].at)'
    <3>1. /\ execs[f].job \in JobIds \ {j} /\ Noted(execs[f].job, execs[f].at)
          /\ execs[f].job # j
      BY <1>4, <2>2 DEF JobsInv, JobsType, Exec, BackupsNoted
    <3> QED
      BY <1>2, <3>1 DEF Noted
  <2> QED
    BY <2>1, <2>2 DEF BackupsNoted
<1>12. Delivered'
  <2>1. succeeded[j] = {}
    BY DEF JobsInv, Delivered
  <2>2. ASSUME NEW f \in Execs, execs[f].job \notin trouble \cup {None}
        PROVE  Ahead(succeeded'[execs[f].job], execs[f])
    BY <2>2 DEF JobsInv, Delivered
  <2> QED
    BY <1>1, <1>2, <2>1, <2>2 DEF JobsInv, Delivered, ResentOnlyAfterTrouble, Ahead
<1>13. Queueing'
  <2>1. \A r \in Requests : At(r, "add")' => jobs'[requests[r].job] = jobs[requests[r].job]
    BY <1>2 DEF JobsInv, Queueing, Request
  <2> QED
    BY <2>1 DEF JobsInv, Queueing, At
<1> QED
  BY <1>5, <1>6, <1>7, <1>8, <1>9, <1>10, <1>11, <1>12, <1>13 DEF JobsInv

\* A request that is not about to queue a backup, or no longer.
LEMMA RequestKeeps ==
    ASSUME JobsInv, UNCHANGED <<jobs, execs, hooks, succeeded, backups, objects, again>>,
           trouble \subseteq trouble', trouble' \subseteq JobIds,
           requests' \in [Requests -> Request],
           \A r \in Requests : At(r, "add")' => At(r, "add") /\ requests'[r] = requests[r]
    PROVE  JobsInv'
<1>1. JobsType' /\ Counted' /\ Locked' /\ Executed' /\ KeysDiffer' /\ OneExecution'
  <2>1. JobsType' /\ Locked' /\ Executed' /\ KeysDiffer' /\ OneExecution'
    BY DEF JobsInv, JobsType, Locked, Executed, KeysDiffer, OneExecution
  <2>2. Counted'
    BY DEF JobsInv, Counted, Attempts
  <2> QED
    BY <2>1, <2>2
<1>2. Archived' /\ BackupsNoted'
  BY DEF JobsInv, Archived, BackupsNoted, BackupFollowsJob, Noted
<1>3. Delivered'
  BY DEF JobsInv, Delivered, ResentOnlyAfterTrouble, Ahead
<1>4. Queueing'
  BY DEF JobsInv, Queueing, At
<1> QED
  BY <1>1, <1>2, <1>3, <1>4 DEF JobsInv

\* The row of a backup, before its job.
LEMMA InsertBackupKeeps ==
    ASSUME JobsInv, NEW r \in Requests, NEW j \in JobIds, InsertBackup(r, j)
    PROVE  JobsInv'
<1>0. /\ jobs[j].kind = "none" /\ backups[j].status = "none" /\ j # None
      /\ UNCHANGED <<jobs, execs, hooks, succeeded, objects, again, trouble>>
  BY NobodyAssumption DEF InsertBackup
<1>1. /\ backups' \in [JobIds -> Backup] /\ \A o \in JobIds \ {j} : backups'[o] = backups[o]
      /\ backups'[j].status = "pending" /\ backups'[j].key = backups[j].key
  BY DEF InsertBackup, Mark, SetBackup, JobsInv, JobsType, Backup
<1>2. /\ requests' \in [Requests -> Request] /\ requests'[r].at = "add" /\ requests'[r].job = j
      /\ \A o \in Requests \ {r} : requests'[o] = requests[o]
  <2> DEFINE z == [Waits EXCEPT !.at = "add", !.job = j]
  <2>1. z \in Request /\ z.at = "add" /\ z.job = j
    BY DEF Waits, Request
  <2> QED
    BY <2>1 DEF InsertBackup, Set, JobsInv, Queueing
<1>3. JobsType' /\ Counted' /\ Locked' /\ Executed' /\ KeysDiffer' /\ OneExecution'
  <2>1. JobsType' /\ Locked' /\ Executed' /\ KeysDiffer' /\ OneExecution'
    BY <1>0, <1>1 DEF JobsInv, JobsType, Locked, Executed, KeysDiffer, OneExecution
  <2>2. Counted'
    BY <1>0 DEF JobsInv, Counted, Attempts
  <2> QED
    BY <2>1, <2>2
<1>4. Archived'
  BY <1>0, <1>1 DEF JobsInv, Archived
<1>5. BackupsNoted'
  <2>1. BackupFollowsJob'
    BY <1>0, <1>1 DEF JobsInv, BackupsNoted, BackupFollowsJob
  <2>2. ASSUME NEW f \in Execs, execs'[f].job \notin trouble' \cup {None}
        PROVE  Noted(execs[f].job, execs[f].at)'
    <3>1. execs[f].job \in JobIds /\ Noted(execs[f].job, execs[f].at)
      BY <1>0, <2>2 DEF JobsInv, JobsType, Exec, BackupsNoted
    <3> QED
      BY <1>0, <1>1, <3>1 DEF Noted
  <2> QED
    BY <2>1, <2>2 DEF BackupsNoted
<1>6. Delivered'
  BY <1>0 DEF JobsInv, Delivered, ResentOnlyAfterTrouble, Ahead
<1>7. Queueing'
  <2>1. \A q \in Requests \ {r} : At(q, "add") => requests[q].job # j
    BY <1>0 DEF JobsInv, Queueing
  <2>2. \A q \in Requests : At(q, "add")' =>
            /\ requests'[q].job # None
            /\ jobs'[requests'[q].job].kind = "none"
            /\ backups'[requests'[q].job].status # "none"
    <3> SUFFICES ASSUME NEW q \in Requests, At(q, "add")'
                 PROVE  /\ requests'[q].job # None
                        /\ jobs'[requests'[q].job].kind = "none"
                        /\ backups'[requests'[q].job].status # "none"
      OBVIOUS
    <3>1. CASE q = r
      BY <1>0, <1>1, <1>2, <3>1
    <3>2. CASE q # r
      <4>1. requests'[q] = requests[q] /\ At(q, "add") /\ requests[q].job \in JobIds
        BY <1>2, <3>2 DEF At, JobsInv, Queueing, Request
      <4> QED
        BY <1>0, <1>1, <3>2, <4>1, <2>1 DEF JobsInv, Queueing
    <3> QED
      BY <3>1, <3>2
  <2>3. \A p, q \in Requests :
            At(p, "add")' /\ At(q, "add")' /\ requests'[p].job = requests'[q].job => p = q
    BY <1>2, <2>1 DEF At, JobsInv, Queueing
  <2> QED
    BY <1>2, <2>2, <2>3 DEF Queueing
<1> QED
  BY <1>3, <1>4, <1>5, <1>6, <1>7 DEF JobsInv

\* Nothing is queued at first.
LEMMA JobsStart ==
    ASSUME Init
    PROVE  JobsInv
<1>1. 0 \in 0..MaxRuns /\ 0 \in 0..MaxStalls
  BY Bounds
<1>2. /\ jobs = [j \in JobIds |-> NoJob] /\ execs = [e \in Execs |-> Idle] /\ hooks = {}
      /\ succeeded = [j \in JobIds |-> {}] /\ again = {} /\ trouble = {}
      /\ backups = [j \in JobIds |-> [status |-> "none", key |-> 0, error |-> FALSE]]
      /\ objects = [j \in JobIds |-> [k \in 1..MaxRuns |-> "none"]]
      /\ requests = [r \in Requests |-> Waits]
  BY DEF Init, JobsInit
<1>3. NoJob \in Job /\ Idle \in Exec /\ Waits \in Request
  <2>1. NoJob \in Job
    BY <1>1 DEF NoJob, Job
  <2>2. Idle \in Exec
    BY <1>1 DEF Idle, Exec
  <2>3. Waits \in Request
    BY DEF Waits, Request
  <2> QED
    BY <2>1, <2>2, <2>3
<1>4. JobsType
  <2>1. [status |-> "none", key |-> 0, error |-> FALSE] \in Backup
    BY <1>1 DEF Backup
  <2> QED
    BY <1>2, <1>3, <2>1 DEF JobsType, Archives
<1>5. /\ \A j \in JobIds : /\ jobs[j] = NoJob /\ backups[j].status = "none"
                           /\ backups[j].key = 0 /\ succeeded[j] = {}
      /\ \A e \in Execs : execs[e].job = None /\ execs[e].at = "idle"
      /\ \A r \in Requests : requests[r].at = "idle"
  BY <1>2 DEF Idle, Waits
<1>6. Counted /\ Locked
  BY <1>5 DEF Counted, Locked, NoJob
<1>7. Executed /\ KeysDiffer /\ OneExecution
  BY <1>5, NobodyAssumption DEF Executed, KeysDiffer, OneExecution, NoJob
<1>8. Archived /\ BackupsNoted
  BY <1>5 DEF Archived, BackupsNoted, BackupFollowsJob, NoJob
<1>9. Delivered
  BY <1>2, <1>5 DEF Delivered, ResentOnlyAfterTrouble, NoJob
<1>10. Queueing
  BY <1>2, <1>3, <1>5 DEF Queueing, At
<1> QED
  BY <1>4, <1>6, <1>7, <1>8, <1>9, <1>10 DEF JobsInv

\* One step of the worker, or of the queue.
LEMMA JobsStep ==
    ASSUME JobsInv, JobsNext, UNCHANGED requests
    PROVE  JobsInv'
<1>1. ASSUME NEW e \in Execs, Progress(e) PROVE JobsInv'
  <2>1. CASE \E j \in JobIds : Take(e, j)
    BY <2>1, TakeKeeps
  <2>2. CASE ReadHooks(e)
    BY <2>2, ReadHooksKeeps
  <2>3. CASE CallHook(e)
    BY <2>3, CallHookKeeps
  <2>4. CASE RecordDelivery(e) \/ RecordedAsFailed(e)
    BY <2>4, RecordKeeps
  <2>5. CASE DecryptFails(e) \/ RecordFails(e)
    BY <2>5, LoopLeft
  <2>6. CASE \/ BackupStarts(e) \/ Dump(e) \/ MarkVerifying(e) \/ VerifyBackup(e)
             \/ CompleteBackup(e) \/ FailBackup(e)
    BY <2>6, BackupKeeps
  <2>7. CASE StatementFails(e)
    BY <2>7, StatementFailsKeeps
  <2>8. CASE Return(e) \/ Throw(e)
    BY <2>8, ReturnKeeps
  <2> QED
    BY <1>1, <2>1, <2>2, <2>3, <2>4, <2>5, <2>6, <2>7, <2>8 DEF Progress
<1>2. ASSUME NEW j \in JobIds, LoseLock(j) \/ Stalled(j) PROVE JobsInv'
  BY <1>2, LockSteps
<1>3. ASSUME NEW e \in Execs, Hangs(e) PROVE JobsInv'
  BY <1>3, HungKeeps
<1>4. CASE WorkerDies
  BY <1>4, WorkerDiesKeeps
<1> QED
  BY <1>1, <1>2, <1>3, <1>4 DEF JobsNext

\* One step of a handler.
LEMMA ApiStep ==
    ASSUME JobsInv, NEW r \in Requests, Api(r)
    PROVE  JobsInv'
<1>1. requests \in [Requests -> Request] /\ trouble \subseteq JobIds /\ Waits \in Request
  BY DEF JobsInv, JobsType, Queueing, Waits, Request
<1>2. ASSUME NEW x \in Request, Set(r, x)
      PROVE  /\ requests' \in [Requests -> Request] /\ requests'[r] = x
             /\ \A q \in Requests \ {r} : requests'[q] = requests[q]
  BY <1>1, <1>2 DEF Set
<1>3. CASE \E j \in JobIds : InsertBackup(r, j)
  BY <1>3, InsertBackupKeeps
<1>4. CASE AddBackup(r)
  <2>1. /\ At(r, "add") /\ Enqueue(requests[r].job, "backup") /\ Set(r, Waits)
        /\ UNCHANGED <<execs, hooks, succeeded, backups, objects, again, trouble>>
    BY <1>4 DEF AddBackup
  <2>2. PICK j \in JobIds : j = requests[r].job /\ jobs[j].kind = "none"
    BY <1>1, <2>1 DEF JobsInv, Queueing, Request
  <2>3. \A q \in Requests : At(q, "add")' => At(q, "add") /\ requests'[q] = requests[q]
                                             /\ requests[q].job # j
    <3>1. requests'[r].at = "idle"
      BY <1>1, <1>2, <2>1 DEF Waits
    <3>2. \A q \in Requests \ {r} : requests'[q] = requests[q]
      BY <1>1, <1>2, <2>1
    <3>3. \A q \in Requests \ {r} : At(q, "add") => requests[q].job # j
      BY <2>1, <2>2 DEF JobsInv, Queueing
    <3> QED
      BY <3>1, <3>2, <3>3 DEF At
  <2>4. requests' \in [Requests -> Request]
    BY <1>1, <1>2, <2>1
  <2> QED
    BY <2>1, <2>2, <2>3, <2>4, EnqueueKeeps
<1>5. ASSUME NEW x \in Request, Set(r, x), x.at # "add",
             UNCHANGED <<jobs, execs, hooks, succeeded, backups, objects, again>>,
             trouble \subseteq trouble', trouble' \subseteq JobIds
      PROVE  JobsInv'
  <2>1. requests' \in [Requests -> Request]
    BY <1>2, <1>5
  <2>2. \A q \in Requests : At(q, "add")' => At(q, "add") /\ requests'[q] = requests[q]
    BY <1>2, <1>5 DEF At
  <2> QED
    BY <1>5, <2>1, <2>2, RequestKeeps
<1>6. CASE \E n \in Names, op \in {"apply", "rollback"} : ReadMigration(r, n, op)
  <2>1. PICK n \in Names, op \in {"apply", "rollback"} : ReadMigration(r, n, op)
    BY <1>6
  <2> DEFINE z == [Waits EXCEPT !.at = "sql", !.name = n, !.op = op]
  <2>2. z \in Request /\ z.at # "add"
    BY DEF Waits, Request
  <2>3. Set(r, z) /\ UNCHANGED jobVars
    BY <2>1 DEF ReadMigration
  <2> HIDE DEF z
  <2> QED
    BY <1>1, <1>5, <2>2, <2>3 DEF jobVars
<1>7. CASE Commit(r)
  <2> DEFINE z == [requests[r] EXCEPT !.at = "mark"]
  <2>1. z \in Request /\ z.at # "add"
    BY <1>1 DEF Request
  <2>2. Set(r, z) /\ UNCHANGED jobVars
    BY <1>7 DEF Commit
  <2> HIDE DEF z
  <2> QED
    BY <1>1, <1>5, <2>1, <2>2 DEF jobVars
<1>8. CASE RollBack(r) \/ CommittedByScript(r) \/ CommitUnanswered(r) \/ MarkMigration(r)
  <2>1. Set(r, Waits) /\ UNCHANGED jobVars /\ Waits.at # "add"
    BY <1>8 DEF RollBack, CommittedByScript, CommitUnanswered, MarkMigration, Waits
  <2> QED
    BY <1>1, <1>5, <2>1 DEF jobVars
<1>9. CASE HandlerDies(r)
  <2>1. /\ Set(r, Waits) /\ Waits.at # "add"
        /\ UNCHANGED <<jobs, execs, hooks, succeeded, backups, objects, again>>
        /\ trouble' = IF At(r, "add") THEN trouble \cup {requests[r].job} ELSE trouble
    BY <1>9 DEF HandlerDies, Waits
  <2>2. At(r, "add") => requests[r].job \in JobIds
    BY <1>1 DEF JobsInv, Queueing, Request
  <2> QED
    BY <1>1, <1>5, <2>1, <2>2
<1> QED
  BY <1>3, <1>4, <1>6, <1>7, <1>8, <1>9 DEF Api

\* The invariant of the worker, by induction over the steps of all.
LEMMA JobsInvariant == Spec => []JobsInv
<1>1. Init => JobsInv
  BY JobsStart
<1>2. JobsInv /\ [Next]_vars => JobsInv'
  <2> SUFFICES ASSUME JobsInv, [Next]_vars PROVE JobsInv'
    OBVIOUS
  <2>1. requests \in [Requests -> Request] /\ trouble \subseteq JobIds
    BY DEF JobsInv, JobsType, Queueing
  <2>2. CASE Work
    BY <2>2, JobsStep DEF Work
  <2>3. CASE \E r \in Requests : Api(r)
    BY <2>3, ApiStep
  <2>4. ASSUME NEW h \in Hooks, CreateWebhook(h) \/ DeleteWebhook(h) PROVE JobsInv'
    <3>1. succeeded \in [JobIds -> SUBSET Hooks] /\ hooks \subseteq Hooks
      BY DEF JobsInv, JobsType
    <3>2. /\ UNCHANGED <<jobs, execs, backups, objects, again, trouble, requests>>
          /\ hooks' \subseteq Hooks /\ succeeded' \in [JobIds -> SUBSET Hooks]
          /\ \A j \in JobIds : succeeded'[j] \subseteq succeeded[j]
      BY <2>4, <3>1 DEF CreateWebhook, DeleteWebhook
    <3> QED
      BY <3>2, HooksKeep
  <2>5. ASSUME NEW j \in JobIds, PublishEvent(j) \/ TestWebhook(j) PROVE JobsInv'
    <3>1. PICK kind \in {"webhook", "test"} : Enqueue(j, kind)
      BY <2>5 DEF PublishEvent, TestWebhook
    <3>2. /\ jobs[j].kind = "none" /\ backups[j].status = "none"
          /\ UNCHANGED <<execs, hooks, succeeded, backups, objects, again, trouble, requests>>
      BY <2>5 DEF PublishEvent, TestWebhook
    <3>3. \A r \in Requests : At(r, "add")' => At(r, "add") /\ requests'[r] = requests[r]
                                               /\ requests[r].job # j
      BY <3>2 DEF At, JobsInv, Queueing
    <3> QED
      BY <2>1, <3>1, <3>2, <3>3, EnqueueKeeps
  <2>6. CASE UNCHANGED <<jobVars, requests>>
    <3>1. \A r \in Requests : At(r, "add")' => At(r, "add") /\ requests'[r] = requests[r]
      BY <2>6 DEF At
    <3> QED
      BY <2>1, <2>6, <3>1, RequestKeeps DEF jobVars
  <2>7. ASSUME NEW n \in Names, CreateMigration(n) PROVE JobsInv'
    BY <2>6, <2>7 DEF CreateMigration
  <2>8. CASE UNCHANGED vars
    BY <2>6, <2>8 DEF vars
  <2> QED
    BY <2>2, <2>3, <2>4, <2>5, <2>7, <2>8 DEF Next
<1> QED
  BY <1>1, <1>2, PTL DEF Spec

-----------------------------------------------------------------------------
\* Requests that are about no migration, before or after the step.
LEMMA AsideKeeps ==
    ASSUME MigrationsInv, UNCHANGED migrationVars, deleted' \subseteq Hooks,
           requests' \in [Requests -> Request],
           \A r \in Requests :
               \/ requests'[r] = requests[r]
               \/ requests'[r].name = None /\ requests'[r].at \notin {"sql", "mark"}
                  /\ requests[r].name = None
    PROVE  MigrationsInv'
<1>1. UNCHANGED <<applied, ledger, net, crossed, lost>>
  BY DEF migrationVars
<1>2. MigrationsType'
  BY <1>1 DEF MigrationsInv, MigrationsType
<1>3. Between'
  BY <1>1 DEF MigrationsInv, Between
<1>4. \A r \in Requests, n \in Names :
          /\ About(r, n)' <=> About(r, n)
          /\ About(r, n)' => requests'[r] = requests[r]
  BY NamesAssumption DEF About
<1>5. OneRequest'
  BY <1>1, <1>4 DEF MigrationsInv, OneRequest
<1>6. Halfway'
  <2> SUFFICES ASSUME NEW n \in Names \ (crossed \cup lost), NEW r \in Requests, About(r, n)'
               PROVE  /\ applied[n] = Before(requests[r].op)
                      /\ Project(n, IF At(r, "sql") THEN Before(requests[r].op)
                                    ELSE After(requests[r].op))
                      /\ requests'[r] = requests[r]
    BY <1>1 DEF Halfway, Project, At, Before, After
  <2> QED
    BY <1>4 DEF MigrationsInv, Halfway
<1>7. MigrationInStep'
  BY <1>1, <1>4 DEF MigrationsInv, MigrationInStep, About
<1> QED
  BY <1>2, <1>3, <1>5, <1>6, <1>7 DEF MigrationsInv

\* A transaction of the project's database takes it from what a migration was
\* to what it has come to.
LEMMA TransactionMoves ==
    ASSUME MigrationsInv, NEW r \in Requests, NEW n \in Names, requests[r].name = n,
           At(r, "sql"), Transaction(r)
    PROVE  /\ ledger' \subseteq Names /\ net' \in [Names -> Int]
           /\ \A m \in Names \ {n} : (m \in ledger' <=> m \in ledger) /\ net'[m] = net[m]
           /\ n \notin crossed \cup lost =>
                 /\ n \in ledger' <=> After(requests[r].op) = "yes"
                 /\ net'[n] = IF After(requests[r].op) = "yes" THEN 1 ELSE 0
<1>1. ledger \subseteq Names /\ net \in [Names -> Int] /\ requests[r] \in Request
  BY DEF MigrationsInv, MigrationsType
<1>2. requests[r].op \in {"apply", "rollback"} /\ n # None
  BY <1>1, NamesAssumption DEF MigrationsInv, Between, Request
<1>3. n \notin crossed \cup lost =>
          /\ n \in ledger <=> Before(requests[r].op) = "yes"
          /\ net[n] = IF Before(requests[r].op) = "yes" THEN 1 ELSE 0
  BY DEF MigrationsInv, Halfway, About, Project
<1>4. CASE requests[r].op = "apply"
  <2>1. ledger' = ledger \cup {n} /\ net' = [net EXCEPT ![n] = @ + 1]
    BY <1>4 DEF Transaction
  <2>2. Before(requests[r].op) = "no" /\ After(requests[r].op) = "yes"
    BY <1>4 DEF Before, After
  <2> QED
    BY <1>1, <1>3, <2>1, <2>2
<1>5. CASE requests[r].op = "rollback"
  <2>1. ledger' = ledger \ {n} /\ net' = [net EXCEPT ![n] = @ - 1]
    BY <1>5 DEF Transaction
  <2>2. Before(requests[r].op) = "yes" /\ After(requests[r].op) = "no"
    BY <1>5 DEF Before, After
  <2> QED
    BY <1>1, <1>3, <2>1, <2>2
<1> QED
  BY <1>2, <1>4, <1>5

\* A request takes a step about migration n: it begins, changes the project's
\* database, or ends.  Nothing is said of n if it is a crossed or lost one.
LEMMA StepKeeps ==
    ASSUME MigrationsInv, NEW r \in Requests, NEW n \in Names, NEW x \in Request,
           requests' = [requests EXCEPT ![r] = x], requests[r].name \in {n, None},
           x.name \in {n, None}, x.name # None <=> x.at \in {"sql", "mark"},
           x.name = n => x.op # "none" /\ applied'[n] # "none",
           UNCHANGED deleted,
           applied' \in [Names -> {"none", "no", "yes"}], ledger' \subseteq Names,
           net' \in [Names -> Int],
           \A m \in Names \ {n} : /\ applied'[m] = applied[m]
                                  /\ (m \in ledger' <=> m \in ledger) /\ net'[m] = net[m],
           applied[n] # "none" => applied'[n] # "none",
           crossed' \in {crossed, crossed \cup {n}}, lost' \in {lost, lost \cup {n}},
           n \notin crossed' =>
               requests[r].name = n \/ \A q \in Requests : requests[q].name # n,
           n \notin crossed' \cup lost' /\ x.name = n =>
               /\ applied'[n] = Before(x.op)
               /\ Project(n, IF x.at = "sql" THEN Before(x.op) ELSE After(x.op))',
           n \notin crossed' \cup lost' /\ x.name = None =>
               /\ applied'[n] = "yes" <=> n \in ledger'
               /\ net'[n] = IF applied'[n] = "yes" THEN 1 ELSE 0
    PROVE  MigrationsInv'
<1>1. /\ requests' \in [Requests -> Request] /\ requests'[r] = x
      /\ \A q \in Requests \ {r} : requests'[q] = requests[q]
  BY DEF MigrationsInv, MigrationsType
<1>2. MigrationsType'
  BY <1>1 DEF MigrationsInv, MigrationsType
<1>3. Between'
  <2> SUFFICES ASSUME NEW q \in Requests
               PROVE  /\ requests'[q].name # None <=> requests'[q].at \in {"sql", "mark"}
                      /\ requests'[q].name # None =>
                            requests'[q].op # "none" /\ applied'[requests'[q].name] # "none"
    BY DEF Between
  <2>1. CASE q = r
    BY <1>1, <2>1
  <2>2. CASE q # r
    <3>1. requests'[q] = requests[q] /\ requests[q] \in Request
      BY <1>1, <2>2 DEF MigrationsInv, MigrationsType
    <3>2. \A m \in Names : applied[m] # "none" => applied'[m] # "none"
      OBVIOUS
    <3> QED
      BY <3>1, <3>2 DEF MigrationsInv, Between, Request
  <2> QED
    BY <2>1, <2>2
<1>4. \A m \in Names \ {n} : \A q \in Requests :
          /\ About(q, m)' <=> About(q, m)
          /\ About(q, m)' => requests'[q] = requests[q]
  BY <1>1, NamesAssumption DEF About
<1>5. n \notin crossed' => \A q \in Requests : About(q, n)' => q = r
  BY <1>1 DEF About, MigrationsInv, OneRequest
<1>6. OneRequest'
  <2>1. crossed \subseteq crossed'
    OBVIOUS
  <2>2. ASSUME NEW m \in Names \ crossed', m # n, NEW p \in Requests, NEW q \in Requests,
               About(p, m)', About(q, m)'
        PROVE  p = q
    BY <1>4, <2>1, <2>2 DEF MigrationsInv, OneRequest
  <2> QED
    BY <1>5, <2>2 DEF OneRequest
<1>7. ASSUME NEW m \in Names \ (crossed' \cup lost'), m # n
      PROVE  /\ m \notin crossed \cup lost /\ applied'[m] = applied[m]
             /\ (m \in ledger' <=> m \in ledger) /\ net'[m] = net[m]
  BY <1>7
<1>8. Halfway'
  <2> SUFFICES ASSUME NEW m \in Names \ (crossed' \cup lost'), NEW q \in Requests, About(q, m)'
               PROVE  (/\ applied[m] = Before(requests[q].op)
                       /\ Project(m, IF At(q, "sql") THEN Before(requests[q].op)
                                     ELSE After(requests[q].op)))'
    BY DEF Halfway
  <2>1. CASE m = n
    <3>1. q = r /\ requests'[q] = x /\ x.name = n
      BY <1>1, <1>5, <2>1 DEF About
    <3> QED
      BY <2>1, <3>1 DEF Project, At, Before, After
  <2>2. CASE m # n
    <3>1. requests'[q] = requests[q] /\ About(q, m)
      BY <1>4, <2>2
    <3>2. /\ applied[m] = Before(requests[q].op)
          /\ Project(m, IF At(q, "sql") THEN Before(requests[q].op) ELSE After(requests[q].op))
      BY <1>7, <2>2, <3>1 DEF MigrationsInv, Halfway
    <3> QED
      BY <1>7, <2>2, <3>1, <3>2 DEF Project, At, Before, After
  <2> QED
    BY <2>1, <2>2
<1>9. MigrationInStep'
  <2> SUFFICES ASSUME NEW m \in Names \ (crossed' \cup lost'),
                      \A q \in Requests : requests'[q].name # m
               PROVE  /\ applied'[m] = "yes" <=> m \in ledger'
                      /\ net'[m] = IF applied'[m] = "yes" THEN 1 ELSE 0
    BY DEF MigrationInStep
  <2>1. CASE m = n
    BY <1>1, <2>1
  <2>2. CASE m # n
    BY <1>4, <1>7, <2>2 DEF MigrationsInv, MigrationInStep, About
  <2> QED
    BY <2>1, <2>2
<1> QED
  BY <1>2, <1>3, <1>6, <1>8, <1>9 DEF MigrationsInv

\* A migration is made, which no request is about.
LEMMA CreateKeeps ==
    ASSUME MigrationsInv, NEW n \in Names, CreateMigration(n)
    PROVE  MigrationsInv'
<1>1. /\ UNCHANGED <<deleted, requests, ledger, net, crossed, lost>>
      /\ applied[n] = "none" /\ applied' = [applied EXCEPT ![n] = "no"]
  BY DEF CreateMigration
<1>2. /\ applied' \in [Names -> {"none", "no", "yes"}] /\ applied'[n] = "no"
      /\ \A m \in Names \ {n} : applied'[m] = applied[m]
  BY <1>1 DEF MigrationsInv, MigrationsType
<1>3. \A r \in Requests : requests[r].name # n
  BY <1>1, NamesAssumption DEF MigrationsInv, Between
<1>4. MigrationsType'
  BY <1>1, <1>2 DEF MigrationsInv, MigrationsType
<1>5. \A r \in Requests : requests[r].name # None => requests[r].name \in Names \ {n}
  BY <1>3 DEF MigrationsInv, MigrationsType, Request
<1>6. Between'
  BY <1>1, <1>2, <1>5 DEF MigrationsInv, Between
<1>7. OneRequest'
  BY <1>1 DEF MigrationsInv, OneRequest, About
<1>8. Halfway'
  BY <1>1, <1>2, <1>3 DEF MigrationsInv, Halfway, About, Project, At
<1>9. MigrationInStep'
  BY <1>1, <1>2, <1>3 DEF MigrationsInv, MigrationInStep
<1> QED
  BY <1>4, <1>6, <1>7, <1>8, <1>9 DEF MigrationsInv

\* The requests about migrations, and those about backups.
LEMMA MigrationApiStep ==
    ASSUME MigrationsInv, NEW r \in Requests, Api(r)
    PROVE  MigrationsInv'
<1>1. /\ requests \in [Requests -> Request] /\ Waits \in Request /\ deleted \subseteq Hooks
      /\ Waits.name = None /\ Waits.at = "idle" /\ requests[r] \in Request
      /\ applied \in [Names -> {"none", "no", "yes"}]
      /\ ledger \subseteq Names /\ net \in [Names -> Int]
  BY DEF MigrationsInv, MigrationsType, Waits, Request
<1>2. CASE \/ \E j \in JobIds : InsertBackup(r, j)
           \/ AddBackup(r) \/ (HandlerDies(r) /\ At(r, "add"))
  <2>1. requests[r].name = None
    <3>1. requests[r].at \in {"idle", "add"}
      BY <1>2 DEF InsertBackup, AddBackup, At
    <3> QED
      BY <3>1 DEF MigrationsInv, Between
  <2>2. PICK x \in Request : Set(r, x) /\ x.name = None /\ x.at \in {"idle", "add"}
    <3>1. CASE \E j \in JobIds : InsertBackup(r, j)
      <4>1. PICK j \in JobIds : InsertBackup(r, j)
        BY <3>1
      <4> DEFINE z == [Waits EXCEPT !.at = "add", !.job = j]
      <4>2. z \in Request /\ z.name = None /\ z.at = "add"
        BY DEF Waits, Request
      <4>3. Set(r, z)
        BY <4>1 DEF InsertBackup
      <4> HIDE DEF z
      <4> QED
        BY <4>2, <4>3
    <3>2. CASE AddBackup(r) \/ HandlerDies(r)
      BY <1>1, <3>2 DEF AddBackup, HandlerDies
    <3> QED
      BY <1>2, <3>1, <3>2
  <2>3. UNCHANGED migrationVars /\ deleted' = deleted
    BY <1>2 DEF InsertBackup, AddBackup, HandlerDies, migrationVars, At
  <2> QED
    BY <1>1, <2>1, <2>2, <2>3, AsideKeeps DEF Set
<1>3. ASSUME requests[r].at \in {"sql", "mark"}
      PROVE  requests[r].name \in Names /\ requests[r].op # "none" /\ requests[r].name # None
             /\ applied[requests[r].name] # "none"
  BY <1>1, <1>3 DEF MigrationsInv, Between, Request
<1>4. CASE \E n \in Names, op \in {"apply", "rollback"} : ReadMigration(r, n, op)
  <2>1. PICK n \in Names, op \in {"apply", "rollback"} : ReadMigration(r, n, op)
    BY <1>4
  <2>2. PICK x \in Request : /\ requests' = [requests EXCEPT ![r] = x] /\ x.name = n
                             /\ x.at = "sql" /\ x.op = op
    <3> DEFINE z == [Waits EXCEPT !.at = "sql", !.name = n, !.op = op]
    <3>1. z \in Request /\ z.name = n /\ z.at = "sql" /\ z.op = op
      BY DEF Waits, Request
    <3>2. requests' = [requests EXCEPT ![r] = z]
      BY <2>1 DEF ReadMigration, Set
    <3> HIDE DEF z
    <3> QED
      BY <3>1, <3>2
  <2>3. /\ At(r, "idle") /\ applied[n] = Before(op) /\ n # None
        /\ crossed' = IF \E o \in Requests : requests[o].name = n THEN crossed \cup {n} ELSE crossed
        /\ UNCHANGED <<deleted, applied, ledger, net, lost>>
    BY <2>1, NamesAssumption DEF ReadMigration
  <2>4. requests[r].name = None
    BY <2>3 DEF At, MigrationsInv, Between
  <2>5. n \notin crossed' => \A q \in Requests : requests[q].name # n
    BY <2>3
  <2>6. n \notin crossed' \cup lost' => Project(n, Before(op))'
    <3>1. n \notin crossed' \cup lost' =>
              (n \in ledger <=> applied[n] = "yes") /\ net[n] = IF applied[n] = "yes" THEN 1 ELSE 0
      BY <2>3, <2>5 DEF MigrationsInv, MigrationInStep
    <3> QED
      BY <2>3, <3>1 DEF Project, Before
  <2>7. applied[n] # "none"
    BY <2>3 DEF Before
  <2>8. /\ n \notin crossed' \cup lost' /\ x.name = n =>
               /\ applied'[n] = Before(x.op)
               /\ Project(n, IF x.at = "sql" THEN Before(x.op) ELSE After(x.op))'
        /\ x.name \in {n, None} /\ (x.name # None <=> x.at \in {"sql", "mark"})
        /\ x.name = n => x.op # "none" /\ applied'[n] # "none"
        /\ crossed' \in {crossed, crossed \cup {n}} /\ lost' \in {lost, lost \cup {n}}
        /\ x.name # None
    BY <2>2, <2>3, <2>6, <2>7
  <2> QED
    BY <1>1, <2>2, <2>3, <2>4, <2>5, <2>8, StepKeeps
<1>5. CASE Commit(r)
  <2>1. PICK n \in Names : n = requests[r].name
    BY <1>3, <1>5 DEF Commit, At
  <2>2. /\ At(r, "sql") /\ Transaction(r) /\ UNCHANGED <<deleted, applied, crossed, lost>>
        /\ requests[r].op # "none" /\ applied[n] # "none" /\ n # None
    BY <1>3, <1>5, <2>1 DEF Commit, At
  <2>3. PICK x \in Request : /\ requests' = [requests EXCEPT ![r] = x] /\ x.name = n
                             /\ x.at = "mark" /\ x.op = requests[r].op
    <3> DEFINE z == [requests[r] EXCEPT !.at = "mark"]
    <3>1. z \in Request /\ z.name = n /\ z.at = "mark" /\ z.op = requests[r].op
      BY <1>1, <2>1 DEF Request
    <3>2. requests' = [requests EXCEPT ![r] = z]
      BY <1>5 DEF Commit, Set
    <3> HIDE DEF z
    <3> QED
      BY <3>1, <3>2
  <2>4. /\ ledger' \subseteq Names /\ net' \in [Names -> Int]
        /\ \A m \in Names \ {n} : (m \in ledger' <=> m \in ledger) /\ net'[m] = net[m]
        /\ n \notin crossed \cup lost =>
              /\ n \in ledger' <=> After(requests[r].op) = "yes"
              /\ net'[n] = IF After(requests[r].op) = "yes" THEN 1 ELSE 0
    BY <2>1, <2>2, TransactionMoves
  <2>5. n \notin crossed \cup lost => applied[n] = Before(requests[r].op)
    BY <2>1 DEF MigrationsInv, Halfway, About
  <2>6. n \notin crossed' \cup lost' /\ x.name = n =>
               /\ applied'[n] = Before(x.op)
               /\ Project(n, IF x.at = "sql" THEN Before(x.op) ELSE After(x.op))'
    BY <2>2, <2>3, <2>4, <2>5 DEF Project, After
  <2> QED
    BY <1>1, <2>1, <2>2, <2>3, <2>4, <2>6, StepKeeps
<1>6. ASSUME NEW n \in Names, requests[r].name = n, Set(r, Waits), UNCHANGED <<deleted, crossed>>,
             applied' \in [Names -> {"none", "no", "yes"}], ledger' \subseteq Names,
             net' \in [Names -> Int],
             \A m \in Names \ {n} : /\ applied'[m] = applied[m]
                                    /\ (m \in ledger' <=> m \in ledger) /\ net'[m] = net[m],
             applied[n] # "none" => applied'[n] # "none", lost' \in {lost, lost \cup {n}},
             n \notin crossed \cup lost' => (n \in ledger' <=> applied'[n] = "yes")
                                            /\ net'[n] = IF applied'[n] = "yes" THEN 1 ELSE 0
      PROVE  MigrationsInv'
  <2>1. PICK x \in Request : /\ requests' = [requests EXCEPT ![r] = x] /\ x.name = None
                             /\ x.at = "idle"
    BY <1>1, <1>6 DEF Set
  <2>2. n # None
    BY NamesAssumption
  <2> QED
    BY <1>1, <1>6, <2>1, <2>2, StepKeeps
<1>7. CASE RollBack(r) \/ (HandlerDies(r) /\ At(r, "sql"))
  <2>1. PICK n \in Names : n = requests[r].name
    BY <1>3, <1>7 DEF RollBack, At
  <2>2. /\ Set(r, Waits) /\ At(r, "sql")
        /\ UNCHANGED <<deleted, applied, ledger, net, crossed, lost>>
    BY <1>7 DEF RollBack, HandlerDies, At, migrationVars
  <2>3. n \notin crossed \cup lost =>
            /\ applied[n] = Before(requests[r].op) /\ Project(n, Before(requests[r].op))
    BY <2>1, <2>2 DEF MigrationsInv, Halfway, About
  <2>4. n \notin crossed \cup lost' => (n \in ledger' <=> applied'[n] = "yes")
                                       /\ net'[n] = IF applied'[n] = "yes" THEN 1 ELSE 0
    BY <2>2, <2>3 DEF Project
  <2> QED
    BY <1>1, <1>6, <2>1, <2>2, <2>4
<1>8. CASE CommitUnanswered(r)
  <2>1. PICK n \in Names : n = requests[r].name
    BY <1>3, <1>8 DEF CommitUnanswered, At
  <2>2. /\ Set(r, Waits) /\ At(r, "sql") /\ Transaction(r) /\ lost' = lost \cup {n}
        /\ UNCHANGED <<deleted, applied, crossed>>
    BY <1>8, <2>1 DEF CommitUnanswered
  <2>3. /\ ledger' \subseteq Names /\ net' \in [Names -> Int]
        /\ \A m \in Names \ {n} : (m \in ledger' <=> m \in ledger) /\ net'[m] = net[m]
    BY <2>1, <2>2, TransactionMoves
  <2> QED
    BY <1>1, <1>6, <2>1, <2>2, <2>3
<1>12. CASE CommittedByScript(r)
  <2>1. PICK n \in Names : n = requests[r].name
    BY <1>3, <1>12 DEF CommittedByScript, At
  <2>2. /\ Set(r, Waits) /\ lost' = lost \cup {n} /\ UNCHANGED <<deleted, applied, ledger, crossed>>
    BY <1>12, <2>1 DEF CommittedByScript
  <2>3. net' \in [Names -> Int] /\ \A m \in Names \ {n} : net'[m] = net[m]
    BY <1>1, <1>12, <2>1 DEF CommittedByScript
  <2> QED
    BY <1>1, <1>6, <2>1, <2>2, <2>3
<1>9. CASE MarkMigration(r)
  <2>1. PICK n \in Names : n = requests[r].name
    BY <1>3, <1>9 DEF MarkMigration, At
  <2>2. /\ Set(r, Waits) /\ At(r, "mark") /\ UNCHANGED <<deleted, ledger, net, crossed, lost>>
        /\ applied' = [applied EXCEPT ![n] = After(requests[r].op)]
    BY <1>9, <2>1 DEF MarkMigration
  <2>3. After(requests[r].op) \in {"yes", "no"}
    BY DEF After
  <2>4. /\ applied' \in [Names -> {"none", "no", "yes"}]
        /\ applied'[n] = After(requests[r].op) /\ applied'[n] # "none"
        /\ \A m \in Names \ {n} : applied'[m] = applied[m]
    BY <1>1, <2>2, <2>3
  <2>5. n \notin crossed \cup lost => Project(n, After(requests[r].op))
    BY <2>1, <2>2 DEF MigrationsInv, Halfway, About, At
  <2>6. n \notin crossed \cup lost' => (n \in ledger' <=> applied'[n] = "yes")
                                       /\ net'[n] = IF applied'[n] = "yes" THEN 1 ELSE 0
    BY <2>2, <2>4, <2>5 DEF Project
  <2> QED
    BY <1>1, <1>6, <2>1, <2>2, <2>4, <2>6
<1>10. CASE HandlerDies(r) /\ At(r, "mark")
  <2>1. PICK n \in Names : n = requests[r].name
    BY <1>3, <1>10 DEF At
  <2>2. /\ Set(r, Waits) /\ lost' = lost \cup {n}
        /\ UNCHANGED <<deleted, applied, ledger, net, crossed>>
    BY <1>10, <2>1 DEF HandlerDies
  <2> QED
    BY <1>1, <1>6, <2>1, <2>2
<1>11. HandlerDies(r) => At(r, "add") \/ At(r, "sql") \/ At(r, "mark")
  BY DEF HandlerDies, At
<1> QED
  BY <1>2, <1>4, <1>5, <1>7, <1>8, <1>9, <1>10, <1>11, <1>12 DEF Api

\* The invariant of the migrations.
LEMMA MigrationsInvariant == Spec => []MigrationsInv
<1>1. Init => MigrationsInv
  <2> SUFFICES ASSUME Init PROVE MigrationsInv
    OBVIOUS
  <2>1. /\ deleted = {} /\ requests = [r \in Requests |-> Waits] /\ Waits \in Request
        /\ Waits.name = None /\ Waits.at = "idle" /\ applied = [n \in Names |-> "none"]
        /\ ledger = {} /\ net = [n \in Names |-> 0] /\ crossed = {} /\ lost = {}
    BY DEF Init, Waits, Request
  <2>2. \A r \in Requests : requests[r].name = None /\ requests[r].at = "idle"
    BY <2>1
  <2>3. MigrationsType
    BY <2>1 DEF MigrationsType
  <2>4. Between /\ OneRequest /\ Halfway
    BY <2>2, NamesAssumption DEF Between, OneRequest, Halfway, About
  <2>5. MigrationInStep
    BY <2>1 DEF MigrationInStep
  <2> QED
    BY <2>3, <2>4, <2>5 DEF MigrationsInv
<1>2. MigrationsInv /\ [Next]_vars => MigrationsInv'
  <2> SUFFICES ASSUME MigrationsInv, [Next]_vars PROVE MigrationsInv'
    OBVIOUS
  <2>1. CASE \E r \in Requests : Api(r)
    BY <2>1, MigrationApiStep
  <2>2. CASE \E n \in Names : CreateMigration(n)
    BY <2>2, CreateKeeps
  <2>3. ASSUME UNCHANGED <<requests, migrationVars>>, deleted' \subseteq Hooks
        PROVE  MigrationsInv'
    BY <2>3, AsideKeeps DEF MigrationsInv, MigrationsType
  <2>4. deleted \subseteq Hooks
    BY DEF MigrationsInv, MigrationsType
  <2>5. CASE Work \/ UNCHANGED vars
    BY <2>3, <2>4, <2>5 DEF Work, vars
  <2>6. CASE \E h \in Hooks : CreateWebhook(h) \/ DeleteWebhook(h)
    BY <2>3, <2>4, <2>6 DEF CreateWebhook, DeleteWebhook
  <2>7. CASE \E j \in JobIds : PublishEvent(j) \/ TestWebhook(j)
    BY <2>3, <2>4, <2>7 DEF PublishEvent, TestWebhook
  <2> QED
    BY <2>1, <2>2, <2>5, <2>6, <2>7 DEF Next
<1> QED
  BY <1>1, <1>2, PTL DEF Spec

-----------------------------------------------------------------------------
(* Whatever fails and is tried again, jobs, executions, rows, requests and  *)
(* ledgers keep their shape, and a job is executed no more often than its   *)
(* attempts (events.ts:35, operations.routes.ts:90, 228) and stalls allow.  *)
THEOREM TypeCorrect == Spec => []TypeOK
<1>1. JobsInv /\ MigrationsInv => TypeOK
  <2>1. JobsInv => JobsTypeOK
    BY DEF JobsInv, JobsType, JobsTypeOK, Backup
  <2> QED
    BY <2>1 DEF MigrationsInv, MigrationsType, TypeOK
<1> QED
  BY <1>1, JobsInvariant, MigrationsInvariant, PTL

(* A backup that is "completed" points to an archive of which the table of  *)
(* contents can be listed (workers/index.ts:142-153), whichever of several  *)
(* executions of its job wrote last: two never write the same key, and one  *)
(* that listed its archive does not write to it again.  It is not that the  *)
(* data is whole.                                                           *)
THEOREM BackupsAreListed == Spec => []CompletedBackupListed
<1>1. JobsInv => CompletedBackupListed
  BY DEF JobsInv, Archived, CompletedBackupListed
<1> QED
  BY <1>1, JobsInvariant, PTL

(* When the job of a backup is over its row says how it ended               *)
(* (workers/index.ts:148-162), unless a lock, a worker or a statement was   *)
(* lost on the way: until then one execution alone writes the row.          *)
THEOREM BackupRowsFollowJobs == Spec => []BackupFollowsJob
<1>1. JobsInv => BackupFollowsJob
  BY DEF JobsInv, BackupsNoted
<1> QED
  BY <1>1, JobsInvariant, PTL

(* An endpoint that answered 2xx, and whose row says so, is called again    *)
(* only after a loss, or when the secret of another could not be read: else *)
(* a job is retried when it delivered nothing (workers/index.ts:88-92), so  *)
(* what is left to call was never reached.                                  *)
THEOREM DeliveriesResentOnlyAfterTrouble == Spec => []ResentOnlyAfterTrouble
<1>1. JobsInv => ResentOnlyAfterTrouble
  BY DEF JobsInv, Delivered
<1> QED
  BY <1>1, JobsInvariant, PTL

(* The platform and the project agree on what is applied, and the script    *)
(* ran once more than it was undone (operations.routes.ts:146-206), except  *)
(* for a migration two requests were about at once or one left halfway, and *)
(* one whose script ended its transaction itself and then failed.           *)
THEOREM MigrationsInStep == Spec => []MigrationInStep
<1>1. MigrationsInv => MigrationInStep
  BY DEF MigrationsInv
<1> QED
  BY <1>1, MigrationsInvariant, PTL
=============================================================================
