# KARIOS: specifications, model checking and proofs

KARIOS is a self-hosted backend platform: a Fastify API (`src/services/api`)
over one PostgreSQL server and one Redis, a worker process, a host agent
(`src/services/server-agent`) reached over HTTP with signed requests, and a
dashboard, an SDK and a CLI that are clients of the API. This directory holds
TLA+ modules of its logic, TLC configurations for small instances, and proofs
for TLAPS.

Most of the state is in PostgreSQL, Redis and the files of the host, and almost
every handler reads in one statement and writes in another. What goes wrong in
such code goes wrong between two awaits, so the modules share one convention:
**a handler runs one statement at a time, any other handler may run between two
of them, and any handler may end early** (a failed statement, a refused check,
a crash). A transaction, and a block without an `await`, is one action.

A second convention is about what the code does not promise. Many checks here
are read-then-write without a lock, and two requests at once get past them. The
properties say exactly when that may be: a history variable (`crossed`,
`raced`, `excused`, `unsure`, ...), which no guard reads, records that two
requests met or a step failed in the way that matters, and the property holds
of everything else, through every other interleaving, failure and crash.

## 1. Inventory

Each component: the state it keeps, what it does, what is hard about it, and
the module that has it. `PROJECT.json` lists the same components with their
files and how much of each is modelled.

| Component | State | Operations | Hard part | Modules |
| --- | --- | --- | --- | --- |
| Project connection pools, `db/pool-manager.ts` | a Map of open `pg.Pool`s per process | `get`, `reap`, `evict`, `closeAll` | two awaits in `get`, the budget, reaping under use | PoolManager |
| Sessions, `modules/auth.routes.ts` | `users`, `sessions`, `email_tokens` | signup, login, refresh, logout, reset | rotation is SELECT then UPDATE; mass revocation races sign-ins | Sessions |
| MFA, `modules/mfa.routes.ts`, `lib/totp.ts` | `user_mfa`, backup codes, Redis challenges | enrol, confirm, verify, disable | one-time codes read and burnt in two statements | Mfa, Sessions |
| OAuth, `modules/oauth.routes.ts` | `oauth_states`, identities, Redis tickets | start, callback, exchange | one-time values | Sessions (the ticket) |
| Members, `modules/members.routes.ts` | `organization_members`, `organization_invitations` | invite, withdraw, accept, change, remove | counting owners before the write | Members |
| Quotas and limits, `lib/quotas.ts`, `lib/rate-limit.ts` | quota row, its cache, counters, samples | read, enforce, consume, sample | a cache filled behind an invalidation, INCR without EXPIRE | Storage |
| Object storage, `modules/storage.routes.ts` | files or S3 objects, `storage_objects` | upload, delete | file and row are two stores | Storage |
| Workers, `workers/index.ts` | BullMQ jobs, deliveries, backups | deliver, back up | retries of half-done jobs, stalls | Jobs |
| Operations API, `modules/operations.routes.ts` | migrations, webhooks, backups | apply, roll back, request | two databases, no common transaction | Operations |
| Realtime, `modules/realtime.ts`, `lib/realtime-authz.ts` | one LISTEN client per project, sockets, Redis channel | join, leave, deliver | start and stop of the listener, authorization while rows and policies change | Realtime |
| Project life cycle, `modules/projects.routes.ts`, `modules/provisioner.ts` | project row, database, role, keys | create, use, delete, suspend | several stores, partial failure | Projects |
| SQL, REST, tables, import | the connections of a pool, the project's database | statements in transactions | a client must come back clean whatever fails | Tables, ProjectData |
| Administration, `modules/admin.routes.ts` | operators, suspensions | grant, revoke, suspend | last operator counted before the write | Projects |
| Server console, `modules/admin-server.routes.ts`, `lib/server-admin.ts` | grants, tickets, operation records, setup steps | run, stream, attach, set up | the agent goes on when the client gives up | Terminal, HostOps |
| Agent authentication, `server-agent/src/auth.ts` | map of nonces in memory | `verify` | delivery again and late, pruning, restart | AgentAuth, AtMostOnce |
| Agent execution, `server-agent/src/{server,exec,pty}.ts` | child processes, PTYs | run, stream, kill | timeouts, sockets that close unheard | Terminal, Host |
| Agent operations, `server-agent/src/ops` | firewall files, archives, services, directories | some fifty operations | nothing queues them | Host |
| Metrics, audit, mail, SSRF filter, OpenAPI | counters, rows written and forgotten | | none that outlives a call | |
| Dashboard, SDK, CLI, scripts | none of their own | | clients and host configuration | |

How they meet: every project handler borrows a pool from the pool manager;
deleting or suspending a project calls `evict`; MFA and OAuth end in the same
`issueSession` as a password; accepting an invitation and changing a role
decide what the other handlers authorise; the console signs each request with
`agent-client.ts` and the agent checks it in `auth.ts`, carries it out in
`ops/` and answers once or in a stream.

`PROJECT.json` lists 40 hazards at their lines, 36 of them with the properties
that would catch them going wrong, and for the others why none does.

## 2. What is modelled

`HostOps` extends `Host` (an operation asked for by the API is an execution of
the agent); `Operations` extends `Jobs` (a route queues what the worker runs);
`ProjectData` extends `Projects` and `Tables` (requests use a project while it
is built, suspended and deleted); `AgentAuth` instantiates `AtMostOnce`. The
other modules stand alone.

### PoolManager

`pools` is the Map (an entry is a pool identity, an age and a slice), `handles`
the `pg.Pool` objects, also those the Map has lost, `req` where each request
stands in `get()` and what it has read, `phase` the shutdown.

| Action | Code in `db/pool-manager.ts` |
| --- | --- |
| `GetCached`, `GetMiss` | `get()`: the lookup and the refresh of `lastUsed` |
| `CredentialsFailed`, `QuotaLoaded` | the two awaits |
| `OpenPool` | everything after them: `sliceFor`, `reap(true)`, the budget check, the store or the refusal |
| `Evict`, `ReapTimer` | `evict()`, the interval |
| `CloseAll`, `ClearMap`, `Restart` | `closeAll()` around its await, and `process.exit` |
| `Release`, `Tick` | the request ends; time passes |

Time is the age of an entry, cut off one past the longer window: older ages
compare alike. `Allocated` counts slots, not a folded sum, so that proofs can
use the library's facts on cardinality; `MaxSlice` bounds a slice. Slices are
computed when a pool opens and never again; the model has that, and no property
is about the fairness of the division.

### Sessions

`accounts`, `sessions`, `claims` (MFA challenges and OAuth tickets in Redis),
`links` (reset links) and `handlers` (requests in flight). `RefreshRead`,
`Rotate` and `IssueSession` are the three statements of `/auth/refresh`;
`ReuseDetected` and `ResetCommit` are the mass revocations; `ClaimGet` and
`ClaimDel` are the GET and the DEL of a claim, whose failure the code swallows.
History: `family` and `parent` of a row, `stale` (its sign-in began before the
user's last mass revocation), `raced` (a request or claim on its way was open
during one), `contested` (families in which two refreshes met between SELECT
and UPDATE: both then succeed, and the family forks).

`OauthCallback` is the transaction of the callback and `IssueTicket` the SETEX
after it. It needs an account that exists: `oauth.routes.ts:308` inserts the
organization of a newcomer without the `slug` that migration 0001 declares NOT
NULL, so that transaction is rolled back and no account comes of it.

### Members

One organization: `rank` (role of each user, 0 for none), `invitations`,
`handlers`, and `held`, the rows a transaction has revoked and locked. `Invite`
and `InviteLookup` are the checks of an invitation, `InviteReplace` and
`InviteInsert` the two statements of its transaction: others see the old rows
until the COMMIT and wait for the locked ones, and the unique index of migration
0004 (`IndexAllows`) refuses the INSERT of whoever finds another open row. An
expired row is still open for that index, as in the table. `ChangeRole` or
`Remove`, then `CountOwners`, then `WriteMember` are the statements of a change;
`Accept` is one transaction. `miscounted` is history: a request counted
the owners while another one, about another member, was between its count and
its write; two owners who leave at once leave none.

### Mfa

One user's second factor: `mfa` is the row of `user_mfa`, `backup` what became
of each backup code, `issued` the secrets handed out, `now` the time step of
`lib/totp.ts`, `handlers` the requests in flight.

| Action | Code in `modules/mfa.routes.ts` |
| --- | --- |
| `EnrollRead`, `EnrollWrite` | `/mfa/enroll`: the check, then the upsert |
| `ConfirmRead` | `/mfa/confirm`: the pending secret is read and the code checked, without `last_step` |
| `ConfirmWrite`, `ConfirmCommit` | its transaction: UPDATE and DELETE, then the inserts and the commit |
| `VerifyRead`, `VerifyWrite` | `verifyMfaCode` with a code of the authenticator |
| `BackupRead`, `BackupUse` | `verifyMfaCode` with a backup code; `UPDATE ... RETURNING` burns it |
| `RegenerateWrite`, `RegenerateCommit` | `/mfa/backup-codes` after its verification |
| `DisableMfa`, `DisableCodes` | `/mfa/disable`: its two DELETEs |
| `HandlerDies`, `Tick` | a refusal, a failure, a crash; time passes |

The transactions are two actions each, since two of them may overlap: at READ
COMMITTED a DELETE takes the codes committed when it starts (`old` in the
request), and the UPDATE of a confirmation locks the row, so that statements
which write the row wait (`Locked`). A code of the authenticator is a pair of
secret and step; that two pairs give the same six digits is left out. The ten
codes of a batch behave alike and one stands for them. History: `accepted` and
`again` (codes accepted, and accepted twice) and `crossed`, which names what
overlapped: two requests between the check of a code and the write of
`last_step` ("code"), an enrolment and a confirmation ("enrolment"), two
transactions that write a batch ("batch").

### AgentAuth and AtMostOnce

`now` is the agent's wall clock, `sent` the timestamp the API signed, at most
`Drift` off, `seenNonces` the Map of `auth.ts`. `verify` is synchronous and is
one action, `Accept` or `Reject`; `Pruned` is `pruneNonces`. The transport
delivers any signed request at any time, any number of times, and may damage
it (`Reject`); `RejectReplay` refuses an intact copy whose nonce is known.
`Restart` empties the map, `ClockSetBack` moves the clock. `recent`, `earlier`,
`repeated`, `refused` are history: what was carried out since the map or the
clock last lost time, before that, twice in between, and what was called a
replay.

`AtMostOnce` is what the map promises, without one: a request is carried out at
most once, until everything is forgotten at once, and is called a replay only if
it was carried out at some time. Under the mapping `count <- Carried, ever <-
recent \cup earlier` every acceptance is a `CarryOut`, a replay refused a
`Refuse`, a restart or a setback of the clock a `Forget`, and damaged copies,
pruning and the clock are invisible. The second promise is what the order of
`verify` is for: a nonce recorded before the signature is compared would let a
damaged copy shut out the intact one.

### Terminal

Sockets of one operator, with the grant, the tickets, the rows of a session and
the PTY on the host.

| Action | Code |
| --- | --- |
| `GrantCheck`, `CreateGrant`, `EndGrant`, `SetOperator` | the grant route's checks and its INSERT, the end of all grants, `expires_at`; `admin.routes.ts` |
| `TicketCheck`, `TicketKeep`, `TicketExpires` | the ticket route: its checks, SETEX, the TTL |
| `TicketGet`, `TicketDel` | `consumeTerminalTicket`: GET, then DEL, whose failure is swallowed |
| `TokenKnown`, `CheckOperator`, `CheckGrant`, `Refuse` | the socket handler until the session opens, await by await |
| `OpenSession`, `OpenPty` | `openTerminalSession` and its listeners; `recordCommand`, `openPty` of the client |
| `SocketCloses`, `ExitHeard`, `ExpireStale`, `ApiDies` | `shutdown`, `closeTerminalSession`, the row's expiry, a crash |
| `PtyStarts`, `PtyRefused`, `PtyStops`, `ShellExits`, `Touch`, `Supervise`, `AgentDies` | `handlePty` and `superviseSession` of the agent |

An event that comes before its listener is lost, in the API and in the agent:
`heard` and `wired` say which listeners were there in time. A session that is over (`"hungup"`) has sent its shell SIGHUP; a
shell that ignores it lives on and dies later, or never (`ShellExits` has no
fairness), so `PtyEnds` promises the end of the session. `seen` (rights that
held since the ticket was redeemed), `taken` and `crossed` are history.

### Host and HostOps

`Host` is the agent with everything its operations change: the firewall as a
state file, a rules file and the kernel's table, which may disagree from the
start; archives, named after the second their dump began, with what is in them
and when they were last written; a service as a unit and as a container; what
`shutdown(8)` is about to do; what the setup wizard has put in place. An
execution (`runs`) of an operation that changes something takes a step per await;
one that only reads is one step, and its possible answers are listed by file of
`ops/` (`SystemAnswers`, `LogAnswers`, ...), since which of them degrade and which
throw is what the API makes its records of. `Around` is what happens beside the
agent: processes die, directories are removed, the host reboots.

| Actions | Code in `server-agent/src/ops` |
| --- | --- |
| `ReadState`, `WriteRules`, `WriteFails`, `LoadRules`, `LoadFails`, `SaveState`, `SaveFails` | `applyRuleset`, await by await; a rules or state file that cannot be written may be left empty, and a load that timed out may have happened |
| `StartDump` to `Restore`, `ListOld`, `Unlink` | `backup.ts`; `VerifyArchive` is a listing of the table of contents, which an archive cut short in its data passes |
| `Report`, `Act`, `StartUnit`, `StartContainer` | `control`: a probe (`Probes`) that fails or times out makes a layer look absent, a start without a layer tries both |
| `ApplyStorage`, `MakeDirectory`, `MakeFails`, `Chmod`, `Apply` | `provision.ts`, one directory after the other |

`HostOps` adds the API: `AskRead`, `AskRoute`, `AskSetup`, `AskShell` are the four
ways to ask it, `AskAgent` another client of the agent, for what the API has no
route for; `Guard`, `Begin`, `Send`, `Answered`, `Finish` the steps of
`runAudited`, `StepWrite` the wizard's second write. `NoAnswer` is a timeout or a
lost connection, after which the agent goes on; `StreamCut` a stream that ends
without saying how, which the client takes for exit code 0; `ApiStops` a crash,
also by the operation that was asked for. A record keeps the status and the exit
code apart, as the table does: `runAudited` writes 'succeeded' for whatever
returned, also for a backup that could not be verified or a restore with errors,
whose exit code is 1. `excused` and `cut` are history.

### Jobs and Operations

`jobs` are the two queues, `execs` executions of the worker; a lock that is lost
makes the job stalled and lets a second execution start while the first goes on.
`ReadHooks`, `DecryptFails`, `CallHook`, `RecordDelivery` and its failures are the
webhook processor (an undecryptable secret leaves the loop between two hooks),
`BackupStarts` to `FailBackup` the backup processor, `WorkerDies` a
deploy or the unhandled error of a missing `pg_dump`, `Hangs` a `pg_dump`, a pipe,
a body or a query that never comes to an end, none of which has a timeout, while
BullMQ renews the lock. `VerifyBackup` lists the table of contents of what was
read back. The queue itself is
external: attempts, stalls and locks as BullMQ documents them for the options
given in the code. `Operations` has the routes that fill the queues, and
migrations: `ReadMigration`, `Commit` or one of its failures, `MarkMigration`
over the project's database (`ledger`, `net`) and the platform's (`applied`).
`CommittedByScript` is a script with a COMMIT of its own that fails after it.

### Storage

Objects (`files` by name, `rows` by bucket id), the quota row with its `cache`,
the sampled `usage`, the rate limit's `counter`. `Consume` to `InsertObject` are
the awaits of an upload, `SignedPut` an upload to a signed URL of S3, which goes
past all of them and leaves no row, `DeleteObject` to `DropBucket` the deletions,
`UpdateQuotas` and `InvalidateQuotaCache` the operator's PATCH. The sampler lists
page by page, or directory by directory, and weighs file by file (`ListNext`,
`Weigh`), while files come and go; what it cannot read it leaves out
(`CannotRead`), since `usage()` of either driver returns what it has and never
throws, and `RecordUsage` writes that. A bucket deleted and created again has a new id and
the old keys, as in the code. History: `adrift` (paths whose file and row may
differ, because requests of one path overlapped, ended between store and table,
because a truncated upload landed on an older file, or by a signed URL), `raced`,
`partial` (the figure is of a walk that could not read everything), `written`, and `stuck` (a counter that lost its EXPIRE).

### Realtime

`Connect` to `AttachFails` are the awaits of a socket's arrival and of
`ensureListener`; `Leave`, `LeaveEarly`, `Subscribe` its frames and its end;
`ListenerDrops` the 'error' event. `Change` is a row of one table with the
trigger's NOTIFY, `AlterTable` its policies; `Receive`, `AuthorizeEvent`, `Probe`
and `Send` are the steps of `deliver`, several at once and in any order.
`metaCache` is the cache of 30 s that `realtime-authz.ts` never invalidates by
itself (nothing calls `invalidateTableMeta`). `IdentityKey` groups sockets by the
`sub` of their tokens, and those without one together; the claims of one socket
of a group, any of them, stand for all (`StandIns`). A client whose LISTEN failed
stays connected and hears nothing (`"mute"`). History: `met` (two first
subscribers in `ensureListener`), `dropped`, `ghosts` (peers that left before
they had a close handler), `moved` and `stale` (versions judged after the row or
its table had changed, or by old metadata), `shared` (sockets another's claims
stood for).

### Projects, Tables and ProjectData

`Projects`: `Provision` does the next of the eight steps of a creation,
`DeleteProject` to `MarkDeleted` are the statements of a deletion, which may stop
anywhere and be asked for again; `UsePool` and `Resume` use it in between, and
`Suspend`, `SuspendEvicts` are the UPDATE of the quotas and, after the cache, the
end of the pool, which `SuspendFails` never reaches; `CountOperators` and `RevokeAdmin` take an operator away.

`Tables`: every request to the database of a project is a program, a sequence of
what its statements are for (`"connect"`, `"begin"`, `"claims"`, `"write"`,
`"commit"`, ...), given once per handler, and the actions run it over the
connections of the pool: a statement succeeds, fails (`StatementFails`: ROLLBACK,
release, error) or loses its connection. What is committed is the set of parts
whose statements took effect. `session` is whose settings a connection has outside its
transactions: the text of a console, EXPLAIN's too, may SET one that outlives its
COMMIT and goes back to the pool with the connection. `queued` are queries of a
`Promise.all` that a failure left behind (`Drain`). `unsure` (a text of the console with its own
COMMIT, or a lost answer) and `overlapped` are history.

`ProjectData` composes the two: a request needs the pool and the pool's sessions
in the database, and a deletion ends them under it.

## 3. What the runs show

| Run | Instance | Shows |
| --- | --- | --- |
| `pools` | 2 projects, 2 requests, 3 pools, budget 10, slices 2 to 8 | `BudgetRespected`, `CachedPoolIsOpen`, `ReapSparesRecentRequests`, `IdlePoolIsReaped` |
| `pools_leak` | same | `OpenPoolsWithinBudget` **fails**: two misses on one project leave a pool nobody counts |
| `sessions` | 1 user, 3 rows, 1 claim, 1 link, 2 requests | `OneTokenPerSignIn`, `OnlyRacersSurvive` |
| `members` | 2 users, 2 invitations, 2 requests | `OwnerKeptUnlessCrossed`, `OneOpenInvitation` |
| `mfa` | 2 secrets, 2 batches, 2 requests, window 1, clock to 1 | `AcceptedOnceUnlessCrossed`, `OneBatchUnlessCrossed`, `ProvedUnlessCrossed`, `OnUntilDisabled` |
| `agent_auth` | 3 requests, window 1, drift 1, capacity 2, clock to 5 | `AcceptedOncePerRun`, `ImplementsAtMostOnce` |
| `terminal` | 2 sockets, 1 ticket, idle timeout 0, lifetime 1 | `PtyHadGrant`, `RedeemedOnceUnlessCrossed`, `PtyEnds` |
| `hostops` | every operation, 2 at once on one part of the host, 3 archives | `FirewallAsIntended`, `GoodArchiveKept`, `OneLayerRuns`, `SucceededIsTrue`, `CompletedStepWasReady` |
| `operations` | 1 job, 2 executions, 2 hooks, 1 migration, 2 requests | `CompletedBackupListed`, `BackupFollowsJob`, `ResentOnlyAfterTrouble`, `MigrationInStep`, `JobSettles` |
| `storage` | 2 requests, 2 paths, 2 quota rows, 2 bucket ids, at most 2 bytes written and measured | `RowsMatchFiles`, `CacheFreshUnlessRaced`, `FigureCoversUnlessPartial` |
| `realtime` | 3 sockets, 2 claims of one sub, 2 LISTEN clients, 2 deliveries, 2 versions | `OncePerChange`, `ToldWhatHeMaySee`, `ListenerFollowsSubscribers` |
| `project_data` | 1 project, 3 requests on it, 3 operators, 3 requests of data, 2 connections | `ActiveIsWhole`, `DeletedLeavesNothing`, `OperatorRemains`, `ConnectionsComeBack`, `ClaimsAreTheCallers`, `AllOrNothing`, `TablesWithinQuota` |

The failing run is a disagreement between the code and what its comments say;
`PROJECT.json` quotes the lines under `findings`. Every property of a passing
run has a mutation there: a plausible mistake in one definition of the code that
TLC finds by that property.

**What the conditions of the properties admit.** The code does let these happen,
and the models show them: two refreshes of one token both succeed; two owners,
or two operators, leave at once; two uses of one ticket or claim meet between
GET and DEL; an enrolment between the check and the write of a confirmation
enforces an unproved secret; a quota read before an operator's change is cached
after it; a webhook whose row could not be written, or behind a hook whose
secret cannot be read, is delivered again, and one endpoint's success hides
another's failure for good; a migration whose request ends between the
databases can be applied again; a backup retried after a failure completes with
the old error in its row; two first subscribers open two LISTEN connections; a
connection lost in the handshake leaves a listener in the map that is not there;
two firewall changes mix, and one that fails after the kernel was loaded leaves
the state file behind; a prune may take an unfinished, cut or unreadable dump for
the newest archive and remove the last good one, and a dump writes over another
of the same second; a probe that times out, or a container that fails its health
check, has a second server started beside a live one; a shell line whose stream
is cut is recorded as succeeded; a project deleted while it is created leaves
its database; a table change may stop half way; a setting of the console's
session reaches the next user of its connection, though no request of the data
API runs under it.

**Where a comment promises more than the code keeps.** Those properties whose
conditions contradict a comment say so beside their statement. They are:
`server-admin.ts:348`, two sockets racing on one ticket cannot both win (they
can, between GET and DEL: `crossed`); `realtime-authz.ts:72-73`, stale metadata
is never a leak (a policy switched on counts only when the entry expires:
`stale`); `usage-sampler.ts:38-40`, a failed measurement does not reset the
figure (the drivers swallow the failure and the figure may be zero: `partial`);
`backup-verify.ts:21-22`, the listing fails on a truncated archive (it reads the
table of contents; an archive truncated in its data passes: `"cut"`); `operations.routes.ts:172`, a failed script was rolled back
(not what it committed itself: `lost`); `projects.routes.ts:80-81`, no half-built
tenant is left behind (its database may be, when the connection was never
recorded); and `import-export.routes.ts:266`, nothing was written (not when the
answer of the COMMIT was lost: `unsure`).

**Bounds.** Two concurrent requests are enough for the races here: each is
between one read and one write. `project_data` has three, because a third
decides who is left when two take operators away, and because with two
connections only a third request can find none. Pools: with budget 10 and a
maximum of 8 the first project takes 8, so the second meets a full budget, the
aggressive reap, and then a slice or the refusal; a quota of 0 lies below the
minimum slice; the third pool identity is the one that can be lost. The
aggressive window is 0 ticks and the long one 1, so that the two reaps differ.
Sessions: three rows are a sign-in, its successor and a fork of either. Members:
two users can both become owner and both leave; two invitations of one address
can overlap. Mfa: with two secrets a stale confirmation meets another one, with
two batches one replaces or joins the other; steps -1 to 2 make three codes
valid at once and let the window move past one of them. Agent: three nonces
overflow a map of two; a clock that reaches 5 passes two windows after an
acceptance at any drift, and a set-back of 2 undoes that. Terminal: an idle
timeout of 0 and a lifetime of 1 let either end a session first. Host: three
archives are the first and one of each request, and a cut-off time falls between
any two of their writes; ages are counted in writes, so nothing else bounds them.
Operations: two attempts and one stall give four executions of a job, each with
an archive of its own. Storage: sizes 1 and 2 against limits of 1 and 2 are cut
or not; buckets get two ids; `MaxWritten` and `MaxUsage` let one file of two bytes
or two of one come under a walk that has begun. Realtime: two versions are a
change and one that overtakes it; of two sockets with one `sub` each may stand
for the other.

Where one module has parts that share no state, or share it in one direction,
the MC module has a CONSTRAINT that explores them apart rather than in product;
each says which. `MCHostOps`: operations of one part of the host at a time (the
modules of `ops/` share no file), those that only read, alone, and the other
parts in one state that stands for all. `MCStorage`: the
rate limit, the cache and the store apart, and one accident at a time.
`MCOperations`: jobs or migrations; `MCRealtime`: the connection or the
policies; `MCProjectData`: data requests while the project is at rest, or one
beside one request about the project. Identities of rows are bounded, so long
behaviours of most modules run out of them and stop: those configurations switch
the deadlock check off. Symmetry is used where all properties are safety
properties over interchangeable values.

**Fairness.** *PoolManager*: `Tick` and `ReapTimer` are weakly fair (time passes
and `setInterval` fires), and so are `ClearMap` and the exit after it, since
`closeAll` awaits only `end()` and `shutdown` then exits. *Terminal*: `Tick` and
`Supervise`, the agent's interval; that a socket closes, that anybody hears of
it and that the API lives is not assumed. *Operations*: the worker takes jobs
and goes on with what it does until it hangs, and the check for stalled jobs runs
(BullMQ's timers); locks and workers may be lost, as often as `MaxStalls` lets it
matter. That nothing hangs for ever is not assumed of the code, which bounds
neither `pg_dump` nor the body of an answer: it is the condition of `JobSettles`.
No client, operator or signal is assumed to act. In the other modules nothing
has to happen: a request may always fail.

## 4. What is proved

The theorems hold for every value of the constants that meets the named
assumptions (`SizesAssumption`, `WindowsAssumption`, `ClockAssumption`,
`TimersAssumption`, ...). Each rests on an inductive invariant.

* **PoolManagerProofs**: `BudgetNeverExceeded`, `CachedPoolsUsable`,
  `RecentRequestsSpared`. The budget needs `SliceBounds` (a slice is between
  minimum and maximum) and `OneMoreSlice` (storing an entry adds at most its
  slice). That the map hands out open pools needs `PoolsDistinct`: ending the
  pool of one entry must not end that of another. That reaps spare recent
  requests needs `EntriesAge`: a cached entry is at most as old as the shortest
  time one of its users has held it.
* **SessionsProofs**: `ReplacedTokensRevoked`, `RotationKeepsOneToken`,
  `RevocationSparesOnlyRacers`. One good token per sign-in is not inductive by
  itself: between UPDATE and INSERT the family has no good row, and a request
  holds its place. `Pending` names such requests and `OneHolder` says that an
  uncontested family has one row or one such request.
* **MfaProofs**: `CodesSingleUse`, `OneBatch`, `EnforcedWhenProved`,
  `OnlyDisableSwitchesOff`. `CodeSafe` says, while no two checks have crossed,
  that an accepted code of the present secret is no later than `lastStep`, that
  a request between its check and its write holds a later code than any
  accepted one, and that it is the only such request. `EnrolSafe` says, while
  no enrolment and confirmation have crossed, that the secret a confirmation
  checked is still the one in the row, or the row is gone.
  `BatchSafe` says that an open transaction has taken every code that is good.
* **AgentProofs**, of AgentAuth: `CarriedOutOncePerRun`,
  `NoncesTakenOnlyByAcceptance`, `Refinement`. A timestamp may be one window ahead
  of the clock, so an entry may go after two windows and no sooner:
  `StampedInWindow` and `Remembered` carry this. `Refinement` shows every step of
  the agent to be a step of `AtMostOnce` or a stutter, from the same invariant,
  which also says that a nonce in the map was carried out.
* **AgentProofs**, of Terminal: `PtyOpenedUnderGrant`, `TicketRedeemedOnce`. The
  step that opens a PTY reads neither the role nor the grant: `HeldIsSeen` says
  that what holds now has been seen by every handler under way, `Cleared` that
  the checks passed so far are among what it has seen, and `PtyFollows` that
  there is no PTY before the last of them. `TakenGone` says that an uncrossed
  ticket that was taken is gone and nobody is between its GET and its DEL.
* **ServicesProofs**, of Storage: `StorageKeepsStep`, `CacheFollowsRow`,
  `FigureCovers`. File and row agree only between requests: `InOrder` says that
  one request at a time holds a path that is not adrift, and what it knows while
  it does - an upload that was put weighs what the file weighs, one that is to be
  removed again has no row, a deletion is of the bucket that is there and its
  files are gone, or still to go. `Fresh` says that who is about to cache a row
  has the present one. `Covered` is about the walk of a measurement: what it has
  weighed so far, with what was written since it began, covers the files it is
  done with, unless it was partial; so the figure it records covers the store.
  What a store weighs when a file is put or removed (`WeightGrows`, `WeightFalls`)
  is a fact about the bytes stored as a finite set.
* **ServicesProofs**, of Realtime: `ToldOnce`, `ToldByRight`, `ListenerFollows`. As long as
  nobody met in `ensureListener` and no connection was lost, `OneConnection`
  says that the map has the only connection there is and one socket at most is
  about to open it, so a change is published at most once; `OnePlace` says that
  a version is then on the wire, with one delivery, or with its sockets.
  `Judging` says that a version whose judgement is to come is still the row's,
  unless it moved, and that whom a delivery allows so far could read it.
  `OwnClaims` says under whose claims: those a delivery judges a socket by are its
  own, unless another socket with the same key (`IdentityKey`) stood for it.
* **TenancyProofs**, of Members: `OwnerKept`, `OneInvitationPerAddress`,
  `AcceptingAdmitsOnly`. `OwnerSafe` says that, while no counts have crossed,
  all requests that may still cost an owner are about one member, and an owner
  besides that member is there. That an address has one open invitation rests on
  the unique index (`IndexAllows`) and on the row locks: the index lets a row in
  when the only open one is a row the same transaction has revoked and holds
  (`HeldExist` says that rows held are rows of the table).
* **TenancyProofs**, of `Projects` and `Tables` as `ProjectData` composes them:
  `ActiveProjectsAreWhole`, `DeletionIsComplete`, `AnOperatorRemains`,
  `ConnectionsAreReturned`, `StatementsRunAsTheirCaller`, `RequestsAreAtomic`,
  `QuotaOfTablesHolds`. For a project, `ProjectsInv` says what a creation
  has built by each of its steps and what a deletion has torn down by each of
  its own, as long as no two of them are about one project; for operators, as
  for owners, that one besides those about to lose the role is there. For data,
  every program is well formed: it connects first, begins before it sets claims
  and commits, and writes outside a transaction only where the handler does;
  `TablesInv` then says what a connection is in the middle of at each position
  of a program, which request has it, and which parts of a request are
  committed. What the console's text may set for a whole session follows the
  connection, and `SettingsMove` says where it may come from: what was set and
  committed, what the open transaction set, or text that is running. That a table
  change counts before it creates, and that two counts
  have not overlapped, gives the quota.
* **OperationsProofs**: `BackupsAreListed`, `BackupRowsFollowJobs`,
  `DeliveriesResentOnlyAfterTrouble`, `MigrationsInStep`. An execution that lost
  its lock goes on beside the next one, so nothing may rest on there being one.
  `Counted` and `Executed` give each execution of a job a number of its own, and
  `KeysDiffer` with `Archived` says that an archive a row
  calls completed, which can be listed, is never written again.
  `OneExecution` says that a job without trouble has one execution, the holder
  of its lock; for it `BackupsNoted` and `Delivered` say what its row and its
  deliveries are at each statement. For migrations, `OneRequest` and `Halfway`
  say, while nothing has crossed or been lost, that one request is at a
  migration and which of the two databases it has changed.
* **HostProofs**: `FirewallFollowsIntent`, `GoodArchiveStays`, `OneLayerAtATime`,
  `RecordsTellTruth`, `StepsWereReady`. `HostInv` has a part for each thing
  executions share, and a step of one leaves the others aside. `FirewallInv`: as
  long as nothing is excused - the three stores agreed at the start, no write or
  load failed, no two changes met - one change is halfway at most, and how far it
  is says which of state file, rules file and kernel agree. `ArchivesInv`: each
  dump has a file of its own, which is no good archive yet, and some good archive is
  newer than all good ones that any prune under way still holds. That there is a
  good archive is not inductive by itself, since a prune works from a list it made
  earlier; with `Ages`, which says that no two files were written at once, the
  newest of that list, if it is good, is newer than all that go. `ServiceInv`: as long as nothing is excused, among it a
  probe that missed a living layer, one request at a time is between choosing a
  layer and containing it, and none is alive but the layer it acts on. `ApiInv`:
  an execution that was not cut off has ended as its call and its record say,
  and with the exit code they say; a setup step is completed by an execution that
  ended well and, if it was a check, found the host ready.

Every module of proofs also proves `TypeCorrect` (AgentProofs proves
`NoncesTypeCorrect` and `TerminalTypeCorrect`, ServicesProofs `StorageTypeCorrect`
and `FeedTypeCorrect`, TenancyProofs `MembersTypeCorrect` beside `TypeCorrect`).
The `TypeOK` of the modules is checked by these proofs.

The assumptions on constants are what a reader expects: sizes, windows and
attempts are natural numbers in the order the configuration gives them, `None`
and `Nobody` name no user, job, endpoint, migration or request, there is an
operator to begin with (`OperatorsAssumption`), and the requests of `Tables`, the
connections of `Realtime` and the paths of `Storage` are finitely many
(`TablesAssumption`, `RealtimeAssumption`, `StorageAssumption`: a quota can only be
compared with a finite count, and only finitely many clients can publish a
change). TLC evaluates each of them in the
run of its module.

Only model-checked: the liveness properties (`IdlePoolIsReaped`, `PtyEnds`,
`JobSettles`), which are beyond the prover, and `pools_leak`, which is a
counterexample. Every other property of a run is a theorem. What is stored is
counted as a set of bytes (`Bytes`) and not added up file by file, since what a
sum over a set is takes induction over data, which the prover cannot instantiate.

## 5. What is not modelled

* Text, formats, HTTP details and logging, except where a property is about
  them. Signatures, hashes and random values are taken to be unforgeable and
  unique. Access tokens (JWTs) expire by themselves and keep no state.
* PostgreSQL is taken to run at READ COMMITTED with its constraints enforced, and
  is external, like Redis, BullMQ, the object store and the tools of the host:
  what they answer, and that they may not answer, is in the models; how they
  come by it is not. What a tenant's statements compute is PostgreSQL's.
* OAuth's state, PKCE and account linking: each is one statement with RETURNING
  or one transaction, and what follows them is in Sessions. `verify-email` sets one
  flag; the hourly request counter is the same pair of calls as the rate limit
  of Storage; organizations and further API keys are single statements.
* Metrics, health and audit keep counters and rows nothing reads back; the mail
  worker sends one message; the SSRF filter and the OpenAPI document are pure
  functions of their input; the sequential migration runner and the seed run
  before anything else does.
* The dashboard, the SDK and the CLI, nearly half of the code, are clients: their
  state is what a screen shows or a file with a token, and everything they do to
  the platform arrives as one of the requests above, in any order.
* Several API processes, except where their state is in a database anyway: the
  maps of PoolManager and Realtime are per process and one process is modelled.

## 6. Plan

1. Further abstract specifications beside `AtMostOnce` that a component is shown to
   implement, step by step: what the session table, the realtime feed and the
   archives promise, without the statements that keep the promise.
2. Larger instances: two jobs that share the worker, three sockets.
3. Pure algorithms against reference definitions: histogram quantile, CSV
   parsing, address classification.
