-------------------------------- MODULE Host --------------------------------
(***************************************************************************)
(* The operations of the server agent that change the host                 *)
(* (server-agent/src/ops), interleaved at their awaits, and the host they  *)
(* change.  server.ts runs every request that passes prepare() at once:    *)
(* nothing queues or locks them.                                           *)
(*                                                                         *)
(* An execution answers what operation.run returned or threw; an operation *)
(* that only reads is one step, whose answers are listed by file of ops/.  *)
(* now counts the writes to the backup directory: any time may pass        *)
(* between two of them.                                                    *)
(*                                                                         *)
(* excused is history: which promise two operations, a failure between two *)
(* steps, or a change made beside the agent has put out of reach.          *)
(***************************************************************************)
EXTENDS Naturals

CONSTANTS
    Requests,       \* requests to the agent
    Ops,            \* operations that are asked for
    Names,          \* of archives: each holds the second its dump began
    Unset,          \* no ruleset, or a file that is not one
    None

VARIABLES
    runs,           \* what each execution does, holds and answered
    firewall,       \* the state file, the rules file and the kernel's table
    archives,       \* the backup directory: what is in a file, when it was written
    now,
    layers,         \* a managed service, as a unit and as a container
    scheduled,      \* what shutdown(8) is going to do
    prepared,       \* what the setup wizard has put in place
    excused         \* history

hostVars == <<firewall, archives, now, layers, scheduled, prepared, excused>>

-----------------------------------------------------------------------------
FirewallOps == {"firewall_apply_baseline", "firewall_open_https",
                "firewall_close_https", "firewall_configure_ssh"}
ServiceOps == {"service_start", "service_stop", "service_restart"}
PowerOps == {"server_reboot", "server_shutdown", "server_power_cancel"}
\* The wizard's step of each operation it asks for.
CheckOf == [provision_check_system |-> "system",
            provision_check_dependencies |-> "dependencies",
            provision_check_storage |-> "storage", provision_check_firewall |-> "firewall",
            provision_check_docker |-> "docker", provision_check_postgres |-> "postgres",
            provision_check_redis |-> "redis", provision_check_nginx |-> "nginx",
            provision_check_backups |-> "backups", provision_health_check |-> "health"]
ApplyOf == [provision_install_dependencies |-> "dependencies",
            provision_apply_storage |-> "storage", provision_apply_docker |-> "docker",
            provision_write_postgres_conf |-> "postgres"]
CheckOps == DOMAIN CheckOf
ApplyOps == DOMAIN ApplyOf
\* Two directories stand for MANAGED_DIRECTORIES.
Directories == {"postgres_dir", "backups_dir"}
Items == {"dependencies", "docker", "postgres"} \cup Directories

\* Operations that change nothing, by file.
SystemReads == {"system_info", "system_dependencies", "system_processes", "system_disk"}
ServiceReads == {"service_list", "service_status", "docker_ps", "docker_stats", "docker_health"}
DatabaseReads == {"database_status", "redis_status", "nginx_status"}
NetworkReads == {"network_status", "network_ports"}
StorageReads == {"storage_status", "storage_usage"}
FirewallReads == {"firewall_status", "firewall_rules"}
LogReads == {"logs_sources", "logs_read"}
HealthReads == {"kairos_status", "kairos_doctor"}
IdentityReads == {"server_identity", "server_sign_challenge"}
BackupReads == {"backup_list", "backup_verify"}
ReadOps == SystemReads \cup ServiceReads \cup DatabaseReads \cup NetworkReads
           \cup StorageReads \cup FirewallReads \cup LogReads \cup HealthReads
           \cup IdentityReads \cup BackupReads

Operations == FirewallOps \cup ServiceOps \cup PowerOps \cup CheckOps \cup ApplyOps
              \cup ReadOps \cup {"backup_create", "backup_prune", "backup_restore",
                                 "nginx_reload", "logs_follow"}

\* danger: true, with the phrase that has to be typed.
Dangerous == FirewallOps \cup {"service_stop", "service_restart", "server_reboot",
                               "server_shutdown", "backup_prune", "backup_restore",
                               "provision_install_dependencies"}

Subject(op) == CASE op \in FirewallOps -> "firewall"
                 [] op \in ServiceOps -> "service"
                 [] op \in {"backup_create", "backup_prune"} -> "archives"
                 [] OTHER -> "other"

Rules == [https : BOOLEAN, ssh : BOOLEAN]
ASSUME UnsetAssumption == Unset \notin Rules
\* DEFAULT_STATE, for a state file that is missing or does not parse.
DefaultState == [https |-> TRUE, ssh |-> FALSE]
\* A file that is "cut" has its table of contents and not all of its data; one that
\* is "partial" was not finished, and one that is "bad" does not parse.
Files == {"unused", "partial", "cut", "bad", "good", "gone"}
LayerNames == {"systemd", "docker"}
ASSUME NoneAssumption == None \notin LayerNames
States == {"not_installed", "stopped", "failed", "running", "unhealthy"}

Places == {"none", "start", "rules", "load", "save", "dump", "verify", "unlink", "restore",
           "act", "probe", "contain", "make", "chmod", "reload", "follow", "done", "lost"}
\* kept is what run() holds across its awaits, ready what a check answered; code
\* the exit code of an answer.
NoRun == [op |-> None, at |-> "none", kept |-> None, ok |-> FALSE, code |-> 0,
          ready |-> TRUE]

\* What run() may end with: a result with exit code 0 or another, or a throw.
Good == [ok |-> TRUE, code |-> 0, ready |-> TRUE]
Bad == [Good EXCEPT !.code = 1]
Thrown == [Good EXCEPT !.ok = FALSE]

Active(r) == runs[r].at \notin {"none", "done", "lost"}
At(r, ops, at) == runs[r].op \in ops /\ runs[r].at = at
Step(r, to, kept) == runs' = [runs EXCEPT ![r].at = to, ![r].kept = kept]
Answer(r, a) ==
    runs' = [runs EXCEPT ![r] = [@ EXCEPT !.at = "done", !.kept = None, !.ok = a.ok,
                                          !.code = a.code, !.ready = a.ready]]
Done(r) == Answer(r, Good)
Throw(r) == Answer(r, Thrown)

\* Executions under way on the same part of the host, r itself left out.
Beside(r) == {q \in Requests \ {r} : Active(q) /\ Subject(runs[q].op) = Subject(runs[r].op)}
Excuse(what, when) == excused' = IF when THEN excused \cup {what} ELSE excused

-----------------------------------------------------------------------------
Firewalls == [state : Rules, rules : Rules \cup {Unset}, loaded : Rules \cup {Unset}]
Agree(f) == f.rules = f.state /\ f.loaded = f.state

\* The host before the first operation: whatever the three stores of the firewall say,
\* one archive, and the service running in one layer, with or without the other
\* beside it.
Init ==
    /\ runs = [r \in Requests |-> NoRun]
    /\ firewall \in Firewalls
    /\ \E first \in Names :
          archives = [n \in Names |-> [is |-> IF n = first THEN "good" ELSE "unused", at |-> 1]]
    /\ now = 1
    /\ \E on \in LayerNames, s \in {"not_installed", "stopped", "failed"} :
          layers = [l \in LayerNames |-> IF l = on THEN "running" ELSE s]
    /\ scheduled = "nothing"
    /\ prepared = {}
    /\ excused = {x \in {"firewall"} : ~Agree(firewall)}

\* prepare() accepts the request: the operation exists, its arguments parse and
\* the phrase is right; run() is under way.
Accept(r, op) ==
    /\ runs[r].at = "none"
    /\ runs' = [runs EXCEPT ![r].op = op, ![r].at = "start"]

-----------------------------------------------------------------------------
\* readState(), and the change of one operation.
Changed(op, s) ==
    CASE op = "firewall_apply_baseline" -> {s}
      [] op = "firewall_open_https" -> {[s EXCEPT !.https = TRUE]}
      [] op = "firewall_close_https" -> {[s EXCEPT !.https = FALSE]}
      [] op = "firewall_configure_ssh" -> {[s EXCEPT !.ssh = b] : b \in BOOLEAN}

\* Changes between readState and the end of applyRuleset.
Changing == {r \in Requests : runs[r].at \in {"rules", "load", "save"}}

ReadState(r) ==
    /\ At(r, FirewallOps, "start")
    /\ \E s \in Changed(runs[r].op, firewall.state) : Step(r, "rules", s)
    /\ Excuse("firewall", Changing # {})
    /\ UNCHANGED <<firewall, archives, now, layers, scheduled, prepared>>

\* applyRuleset: the rules file is written, before it is checked.  A change that has
\* the stores to itself brings them together again ...
WriteRules(r) ==
    /\ At(r, FirewallOps, "rules")
    /\ firewall' = [firewall EXCEPT !.rules = runs[r].kept]
    /\ Step(r, "load", runs[r].kept)
    /\ excused' = IF Changing = {r} THEN excused \ {"firewall"} ELSE excused
    /\ UNCHANGED <<archives, now, layers, scheduled, prepared>>

\* ... nft is not installed, or the file cannot be written, which may leave half ...
WriteFails(r) ==
    /\ At(r, FirewallOps, "rules")
    /\ \E f \in {firewall.rules, Unset} :
          /\ firewall' = [firewall EXCEPT !.rules = f]
          /\ Excuse("firewall", f # firewall.rules)
    /\ Throw(r)
    /\ UNCHANGED <<archives, now, layers, scheduled, prepared>>

\* ... `nft -c` and `nft -f` read that file, whoever wrote it last ...
LoadRules(r) ==
    /\ At(r, FirewallOps, "load")
    /\ firewall.rules # Unset
    /\ firewall' = [firewall EXCEPT !.loaded = firewall.rules]
    /\ Step(r, "save", runs[r].kept)
    /\ UNCHANGED <<archives, now, layers, scheduled, prepared, excused>>

\* ... or nft fails, or times out, and may have loaded it; the file stays.
LoadFails(r) ==
    /\ At(r, FirewallOps, "load")
    /\ \E f \in {firewall.loaded, firewall.rules} :
          firewall' = [firewall EXCEPT !.loaded = f]
    /\ Throw(r)
    /\ Excuse("firewall", TRUE)
    /\ UNCHANGED <<archives, now, layers, scheduled, prepared>>

\* Mutant of SaveState: the state that was read is written back.
SaveNothing(r) ==
    /\ At(r, FirewallOps, "save")
    /\ Done(r) \/ Throw(r)
    /\ UNCHANGED <<firewall, archives, now, layers, scheduled, prepared, excused>>

\* ... and writeState; the operation throws if the table is not active then.
SaveState(r) ==
    /\ At(r, FirewallOps, "save")
    /\ firewall' = [firewall EXCEPT !.state = runs[r].kept]
    /\ Done(r) \/ Throw(r)
    /\ UNCHANGED <<archives, now, layers, scheduled, prepared, excused>>

\* writeState fails: the kernel filters by rules the state file does not tell of, and
\* what is left of that file may read as the default.
SaveFails(r) ==
    /\ At(r, FirewallOps, "save")
    /\ \E s \in {firewall.state, DefaultState} : firewall' = [firewall EXCEPT !.state = s]
    /\ Throw(r)
    /\ Excuse("firewall", TRUE)
    /\ UNCHANGED <<archives, now, layers, scheduled, prepared>>

-----------------------------------------------------------------------------
Is(n) == archives[n].is
Listed == {n \in Names : Is(n) \notin {"unused", "gone"}}
Writing == {runs[r].kept : r \in {q \in Requests : At(q, {"backup_create"}, "dump")}}
\* now counts every write, so that no two files are of one age.
Write(n, what) ==
    /\ archives' = [archives EXCEPT ![n] = [is |-> what, at |-> now + 1]]
    /\ now' = now + 1

\* backup_create: pg_dump opens the file that is named after the second: a new one, or
\* that of a dump which began in this second too.
StartDump(r) ==
    /\ At(r, {"backup_create"}, "start")
    /\ \E n \in Names :
          /\ Is(n) = "unused" \/ (n \in Listed /\ archives[n].at = now)
          /\ Write(n, "partial")
          /\ Step(r, "dump", n)
          /\ Excuse("archives", Is(n) # "unused")
    /\ UNCHANGED <<firewall, layers, scheduled, prepared>>

\* pg_dump exits with 0, which says little about the file.
DumpEnds(r) ==
    /\ At(r, {"backup_create"}, "dump")
    /\ \E f \in {"good", "cut", "bad"} : Write(runs[r].kept, f)
    /\ Step(r, "verify", runs[r].kept)
    /\ UNCHANGED <<firewall, layers, scheduled, prepared, excused>>

\* It exits otherwise, and the file is removed; or it is killed by the timeout,
\* and the file stays.
DumpFails(r) ==
    /\ At(r, {"backup_create"}, "dump")
    /\ \E f \in {"gone", "cut", "bad"} : Write(runs[r].kept, f)
    /\ Throw(r)
    /\ UNCHANGED <<firewall, layers, scheduled, prepared, excused>>

\* verifyArchive: pg_restore lists the table of contents, which an archive without
\* all of its data has too; one that does not parse is answered with 1, and one
\* that is gone fails the checksum.
VerifyArchive(n) ==
    CASE Is(n) \in {"good", "cut"} -> {Good}
      [] Is(n) = "partial" -> {Good, Bad}
      [] Is(n) = "bad" -> {Bad}
      [] OTHER -> {Thrown}

\* The new archive is kept either way.
Verify(r) ==
    /\ At(r, {"backup_create"}, "verify")
    /\ \E a \in VerifyArchive(runs[r].kept) : Answer(r, a)
    /\ UNCHANGED hostVars

\* backup_restore: an archive that does not parse is refused ...
VerifyFirst(r) ==
    /\ At(r, {"backup_restore"}, "start")
    /\ \E n \in Names : \E a \in VerifyArchive(n) :
          IF a = Good THEN Step(r, "restore", n) ELSE Throw(r)
    /\ UNCHANGED hostVars

\* ... and pg_restore reads the file, as it is by then, over the platform's
\* database; its exit code is the answer.
Restore(r) ==
    /\ At(r, {"backup_restore"}, "restore")
    /\ Answer(r, Bad) \/ (Is(runs[r].kept) = "good" /\ Answer(r, Good))
    /\ UNCHANGED hostVars

\* The newest by the time of its last write; that of a file which was not finished
\* may be any.
Newest == {n \in Listed : \/ Is(n) = "partial"
                         \/ \A e \in Listed : Is(e) = "partial" \/ archives[e].at <= archives[n].at}

\* Mutant of Removable: everything that is old may go.
RemovableOld(cutoff, newest) == {n \in Listed \ Writing : archives[n].at < cutoff}

\* Older than the window, which no file is that is being written, and not the newest.
Removable(cutoff, newest) ==
    {n \in Listed \ Writing : archives[n].at < cutoff /\ n # newest}

\* backup_prune: the directory is listed once ...
ListOld(r) ==
    /\ At(r, {"backup_prune"}, "start")
    /\ \/ Newest = {} /\ Done(r) /\ UNCHANGED excused
       \/ \E newest \in Newest, cutoff \in 1..(now + 1) :
             /\ LET old == Removable(cutoff, newest)
                IN  IF old = {} THEN Done(r) ELSE Step(r, "unlink", old)
             /\ Excuse("archives", Is(newest) # "good")
    /\ UNCHANGED <<firewall, archives, now, layers, scheduled, prepared>>

\* ... and files go one by one; the first that is gone already ends it.
Unlink(r) ==
    /\ At(r, {"backup_prune"}, "unlink")
    /\ LET left == runs[r].kept
       IN  \E n \in left :
             /\ archives' = [archives EXCEPT ![n].is = "gone"]
             /\ IF Is(n) = "gone" THEN Throw(r)
                ELSE IF left = {n} THEN Done(r) ELSE Step(r, "unlink", left \ {n})
    /\ UNCHANGED <<firewall, now, layers, scheduled, prepared, excused>>

-----------------------------------------------------------------------------
Alive(l) == layers[l] \in {"running", "unhealthy"}
\* A container that runs but fails its health check is reported as failed.
Reported(l) == IF layers[l] = "unhealthy" THEN "failed" ELSE layers[l]

\* What the two probes may say: what is there, a state that is neither, as of a unit
\* that is being started, or nothing at all, when systemctl or docker fails or times
\* out.
Probes ==
    {seen \in [LayerNames -> {"not_installed", "stopped", "failed", "running", "unknown"}] :
        \A l \in LayerNames :
            seen[l] \in {Reported(l), "not_installed"}
                       \cup {x \in {"unknown"} : Reported(l) # "not_installed"}}

\* Mutant of Chosen: the unit, if there is one.
ChosenFirst(seen) ==
    IF seen["systemd"] # "not_installed" THEN "systemd"
    ELSE IF seen["docker"] # "not_installed" THEN "docker" ELSE None

\* reportService: the running layer, else a failed one, else the first there is.
Chosen(seen) ==
    LET in(states) == {l \in LayerNames : seen[l] \in states}
        first(ls) == IF "systemd" \in ls THEN "systemd" ELSE "docker"
    IN  IF in({"running"}) # {} THEN first(in({"running"}))
        ELSE IF in({"failed"}) # {} THEN first(in({"failed"}))
        ELSE IF in({"stopped", "unknown"}) # {} THEN first(in({"stopped", "unknown"})) ELSE None

\* control(): the layer is reported; if neither is, a start tries both ...
Report(r) ==
    /\ At(r, ServiceOps, "start")
    /\ \E seen \in Probes :
          /\ IF Chosen(seen) # None THEN Step(r, "act", Chosen(seen))
             ELSE IF runs[r].op = "service_start" THEN Step(r, "probe", None) ELSE Throw(r)
          /\ Excuse("service", \/ Beside(r) # {}
                               \/ \E l \in LayerNames : Alive(l) /\ seen[l] # "running")
    /\ UNCHANGED <<firewall, archives, now, layers, scheduled, prepared>>

SetLayer(l, s) == layers' = [layers EXCEPT ![l] = s]
Wanted(op, l) == IF op = "service_stop" THEN "stopped"
                 ELSE IF op = "service_start" /\ Alive(l) THEN layers[l] ELSE "running"

\* ... and acted upon, or systemctl or docker fails, or times out and may have done it.
Act(r) ==
    /\ At(r, ServiceOps, "act")
    /\ LET l == runs[r].kept
       IN  \/ SetLayer(l, Wanted(runs[r].op, l)) /\ Done(r)
           \/ \E s \in {layers[l], "failed", Wanted(runs[r].op, l)} : SetLayer(l, s) /\ Throw(r)
    /\ UNCHANGED <<firewall, archives, now, scheduled, prepared, excused>>

\* The unit is probed again and started; if that is not to be, ...
StartUnit(r) ==
    /\ At(r, {"service_start"}, "probe")
    /\ \/ UNCHANGED layers /\ Step(r, "contain", None)
       \/ /\ layers["systemd"] # "not_installed"
          /\ \E s \in {layers["systemd"], Wanted("service_start", "systemd")} :
                SetLayer("systemd", s) /\ Throw(r)
       \/ /\ layers["systemd"] # "not_installed"
          /\ SetLayer("systemd", Wanted("service_start", "systemd")) /\ Done(r)
    /\ UNCHANGED <<firewall, archives, now, scheduled, prepared, excused>>

\* ... the container is.
StartContainer(r) ==
    /\ At(r, {"service_start"}, "contain")
    /\ \/ UNCHANGED layers /\ Throw(r)
       \/ /\ layers["docker"] # "not_installed"
          /\ SetLayer("docker", Wanted("service_start", "docker"))
          /\ Done(r) \/ Throw(r)
    /\ UNCHANGED <<firewall, archives, now, scheduled, prepared, excused>>

\* The process of a layer dies, or a container fails its health check or passes it
\* again; systemd or Docker may bring up again what died.
LayerChanges(l) ==
    /\ \E s \in CASE layers[l] = "running" -> {"failed"} \cup {x \in {"unhealthy"} : l = "docker"}
                  [] layers[l] = "unhealthy" -> {"running", "failed"}
                  [] layers[l] = "failed" -> {"running"}
                  [] OTHER -> {} :
          SetLayer(l, s)
    /\ Excuse("service", \/ \E r \in Requests : runs[r].op \in ServiceOps /\ Active(r)
                         \/ layers[l] = "failed" /\ \E m \in LayerNames : Alive(m))
    /\ UNCHANGED <<runs, firewall, archives, now, scheduled, prepared>>

-----------------------------------------------------------------------------
\* schedule(): a minute from now; a second call replaces the first.
Schedule(r) ==
    /\ At(r, PowerOps, "start")
    /\ \/ /\ scheduled' = CASE runs[r].op = "server_reboot" -> "reboot"
                            [] runs[r].op = "server_shutdown" -> "shutdown"
                            [] runs[r].op = "server_power_cancel" -> "nothing"
          /\ Done(r)
       \/ Throw(r) /\ UNCHANGED scheduled
    /\ UNCHANGED <<firewall, archives, now, layers, prepared, excused>>

\* What a check finds, under the names "ready" and "healthy": the host meets the
\* minimums or not ...
CheckSystem == BOOLEAN
CheckDependencies == {"dependencies" \in prepared}
CheckStorage == {Directories \subseteq prepared}
HealthCheck == BOOLEAN
\* ... and those that answer "exists", "active", or a state, under neither.
CheckFirewall == {TRUE}
CheckDockerNetwork == {TRUE}
CheckPostgres == {TRUE}
CheckRedis == {TRUE}
CheckNginx == {TRUE}
CheckBackups == {TRUE}

Findings(step) ==
    CASE step = "system" -> CheckSystem
      [] step = "dependencies" -> CheckDependencies
      [] step = "storage" -> CheckStorage
      [] step = "firewall" -> CheckFirewall
      [] step = "docker" -> CheckDockerNetwork
      [] step = "postgres" -> CheckPostgres
      [] step = "redis" -> CheckRedis
      [] step = "nginx" -> CheckNginx
      [] step = "backups" -> CheckBackups
      [] step = "health" -> HealthCheck

Check(r) ==
    /\ At(r, CheckOps, "start")
    /\ \E ready \in Findings(CheckOf[runs[r].op]) : Answer(r, [Good EXCEPT !.ready = ready])
    /\ UNCHANGED hostVars

\* What an apply puts in place, and how it ends.  apt-get is not asked for Docker,
\* which may stay missing; a network that is there is left alone, and one that
\* could not be inspected is created in vain.
InstallDependencies == {<<{"dependencies"}, Good>>, <<{}, Good>>, <<{}, Thrown>>}
ApplyDocker == IF "docker" \in prepared THEN {<<{}, Good>>, <<{}, Thrown>>}
               ELSE {<<{"docker"}, Good>>, <<{}, Thrown>>}
WritePostgresConf == {<<{"postgres"}, Good>>, <<{}, Thrown>>}

Applied(op) ==
    CASE op = "provision_install_dependencies" -> InstallDependencies
      [] op = "provision_apply_docker" -> ApplyDocker
      [] op = "provision_write_postgres_conf" -> WritePostgresConf

Apply(r) ==
    /\ At(r, ApplyOps \ {"provision_apply_storage"}, "start")
    /\ \E w \in Applied(runs[r].op) : prepared' = prepared \cup w[1] /\ Answer(r, w[2])
    /\ UNCHANGED <<firewall, archives, now, layers, scheduled, excused>>

StorageStep(r) ==
    UNCHANGED <<firewall, archives, now, layers, scheduled, excused>>

\* applyStorage: one directory after the other, ...
ApplyStorage(r) ==
    /\ At(r, {"provision_apply_storage"}, "start")
    /\ Step(r, "make", Directories) /\ UNCHANGED prepared
    /\ StorageStep(r)
MakeDirectory(r) ==
    /\ At(r, {"provision_apply_storage"}, "make")
    /\ \E d \in runs[r].kept :
          /\ prepared' = prepared \cup {d}
          /\ LET left == runs[r].kept \ {d}
             IN  Step(r, IF left = {} THEN "chmod" ELSE "make", left)
    /\ StorageStep(r)

\* ... until one fails, ...
MakeFails(r) ==
    /\ At(r, {"provision_apply_storage"}, "make")
    /\ Throw(r) /\ UNCHANGED prepared
    /\ StorageStep(r)

\* ... then their modes, and the check.
Chmod(r) ==
    /\ At(r, {"provision_apply_storage"}, "chmod")
    /\ \/ \E ready \in CheckStorage : Answer(r, [Good EXCEPT !.ready = ready])
       \/ Throw(r)
    /\ UNCHANGED prepared
    /\ StorageStep(r)

\* Someone removes a directory or the network.
Undo(i) ==
    /\ i \in prepared
    /\ prepared' = prepared \ {i}
    /\ UNCHANGED <<runs, firewall, archives, now, layers, scheduled, excused>>

-----------------------------------------------------------------------------
\* tryRun, and the readings of files: what is not available is null, and the
\* operation answers.
Degrades == {Good}
\* run() rejects: the program is missing, times out, or exits with an error.
Fails == {Good, Thrown}

HostReadings == Degrades
Snapshot == HostReadings
Dependencies == Degrades
SystemAnswers(op) ==
    CASE op = "system_info" -> Snapshot
      [] op = "system_disk" -> HostReadings
      [] op = "system_dependencies" -> Dependencies
      [] op = "system_processes" -> Fails

DockerReads == Degrades
ServiceAnswers(op) == IF op \in {"service_list", "service_status"} THEN Degrades
                      ELSE DockerReads

Psql == Degrades
DatabaseHealth == Psql
DatabaseAnswers == DatabaseHealth

ListeningSockets == Degrades
Exposure == ListeningSockets
NetworkAnswers == Exposure

DirectoryUsage == Degrades
StorageAnswers == DirectoryUsage

FirewallStatus == Degrades
FirewallAnswers == FirewallStatus

\* A source is resolved; it may be gone when it is read.
LogReader == Degrades
ReadTail == Fails
LogAnswers(op) == IF op = "logs_sources" THEN LogReader ELSE ReadTail

\* The doctor answers 1 when a service is down or installed twice in different
\* states, as far as the probes saw, when there is no archive, when the newest is
\* two days old, whatever is in it, or when one of the checks fails that are not
\* modelled.
Conflict(seen) == /\ \A l \in LayerNames : seen[l] # "not_installed"
                  /\ seen["systemd"] # seen["docker"]
Diagnosis(seen) == \/ Chosen(seen) = None \/ Conflict(seen)
                   \/ Chosen(seen) # None /\ seen[Chosen(seen)] # "running"
                   \/ Listed = {}
CollectStatus == Degrades
HealthAnswers(op) == IF op = "kairos_status" THEN CollectStatus
                     ELSE {Bad} \cup {a \in {Good} : \E seen \in Probes : ~Diagnosis(seen)}

\* The key was made before the agent listened.
EnsureIdentity == Degrades
IdentityAnswers == EnsureIdentity

VerifyAnswers == UNION {VerifyArchive(n) : n \in Names}
BackupAnswers(op) == IF op = "backup_list" THEN Degrades ELSE VerifyAnswers

ReadAnswers(op) ==
    CASE op \in SystemReads -> SystemAnswers(op)
      [] op \in ServiceReads -> ServiceAnswers(op)
      [] op \in DatabaseReads -> DatabaseAnswers
      [] op \in NetworkReads -> NetworkAnswers
      [] op \in StorageReads -> StorageAnswers
      [] op \in FirewallReads -> FirewallAnswers
      [] op \in LogReads -> LogAnswers(op)
      [] op \in HealthReads -> HealthAnswers(op)
      [] op \in IdentityReads -> IdentityAnswers
      [] op \in BackupReads -> BackupAnswers(op)

Read(r) ==
    /\ At(r, ReadOps, "start")
    /\ \E a \in ReadAnswers(runs[r].op) : Answer(r, a)
    /\ UNCHANGED hostVars

\* logs_follow: the source is there and is followed, or not ...
Follow(r) ==
    /\ At(r, {"logs_follow"}, "start")
    /\ Step(r, "follow", None) \/ \E a \in ReadTail : Answer(r, a)
    /\ UNCHANGED hostVars

\* ... until the request is closed, the time is up, or the program ends, with a
\* code of its own.
FollowEnds(r) ==
    /\ At(r, {"logs_follow"}, "follow")
    /\ \E a \in {Good, Bad} : Answer(r, a)
    /\ UNCHANGED hostVars

\* nginx_reload: a configuration that does not parse is not loaded ...
TestConfig(r) ==
    /\ At(r, {"nginx_reload"}, "start")
    /\ Step(r, "reload", None) \/ Throw(r)
    /\ UNCHANGED hostVars

\* ... one that did may have changed since; nginx then keeps what it runs.
Reload(r) ==
    /\ At(r, {"nginx_reload"}, "reload")
    /\ Done(r) \/ Throw(r)
    /\ UNCHANGED hostVars

-----------------------------------------------------------------------------
\* The agent stops, and what it was doing with it.
LoseRuns ==
    runs' = [r \in Requests |-> IF Active(r)
                                THEN [NoRun EXCEPT !.op = runs[r].op, !.at = "lost"]
                                ELSE runs[r]]

AgentStops ==
    /\ \E r \in Requests : Active(r)
    /\ LoseRuns
    /\ Excuse("firewall", Changing # {})
    /\ UNCHANGED <<firewall, archives, now, layers, scheduled, prepared>>

\* The minute is over: the table comes back from the rules file.
Reboot ==
    /\ scheduled = "reboot"
    /\ scheduled' = "nothing"
    /\ firewall' = [firewall EXCEPT !.loaded = firewall.rules]
    /\ LoseRuns
    /\ Excuse("firewall", Changing # {})
    /\ UNCHANGED <<archives, now, layers, prepared>>

RunStep(r) ==
    \/ Read(r) \/ Follow(r) \/ FollowEnds(r) \/ TestConfig(r) \/ Reload(r)
    \/ ReadState(r) \/ WriteRules(r) \/ WriteFails(r) \/ LoadRules(r) \/ LoadFails(r)
    \/ SaveState(r) \/ SaveFails(r)
    \/ StartDump(r) \/ DumpEnds(r) \/ DumpFails(r) \/ Verify(r) \/ ListOld(r) \/ Unlink(r)
    \/ VerifyFirst(r) \/ Restore(r)
    \/ Report(r) \/ Act(r) \/ StartUnit(r) \/ StartContainer(r)
    \/ Schedule(r) \/ Check(r) \/ Apply(r)
    \/ ApplyStorage(r) \/ MakeDirectory(r) \/ MakeFails(r) \/ Chmod(r)

Around ==
    \/ \E l \in LayerNames : LayerChanges(l)
    \/ \E i \in Items : Undo(i)
    \/ Reboot

-----------------------------------------------------------------------------
\* Executions, files and layers keep their shape.
HostTypeOK ==
    /\ \A r \in Requests : /\ runs[r].op \in Operations \cup {None} /\ runs[r].at \in Places
                           /\ runs[r].ok \in BOOLEAN /\ runs[r].code \in {0, 1}
                           /\ runs[r].ready \in BOOLEAN
    /\ firewall \in Firewalls
    /\ archives \in [Names -> [is : Files, at : Nat]] /\ now \in Nat
    /\ layers \in [LayerNames -> States]
    /\ scheduled \in {"nothing", "reboot", "shutdown"}
    /\ prepared \subseteq Items
    /\ excused \subseteq {"firewall", "archives", "service"}

(* "Kept as data, so the ruleset is regenerated from intent"                *)
(* (firewall.ts:26): when no change is under way, the kernel filters by the *)
(* state the dashboard shows, after a reboot too, whichever stores a change *)
(* found to disagree, unless two changes overlapped or one ended halfway;   *)
(* then until a change has had the stores to itself.                        *)
FirewallAsIntended == "firewall" \in excused \/ Changing # {} \/ Agree(firewall)

(* "Never delete the last archive, whatever the retention window says"      *)
(* (backup.ts:326): a good archive stays, whatever dumps and prunes do at   *)
(* once, unless a prune took an unfinished, truncated or unreadable file    *)
(* for the newest, or a dump wrote over the archive of the same second.     *)
GoodArchiveKept == "archives" \in excused \/ \E n \in Names : Is(n) = "good"

(* "Two PostgreSQL instances on one data directory will corrupt it"         *)
(* (services.ts:157): no start or restart, nor the start that tries both    *)
(* layers, brings up the second one beside a live one, unless requests      *)
(* overlapped, the service changed between report and act, or a probe       *)
(* failed or did not say "running" of a layer that was alive.               *)
OneLayerRuns ==
    "service" \in excused \/ \E l \in LayerNames : ~Alive(l)
=============================================================================
