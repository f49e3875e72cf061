----------------------------- MODULE HostProofs -----------------------------
(***************************************************************************)
(* Proofs about HostOps and the host it works on: for any number of        *)
(* requests and of archives.                                               *)
(*                                                                         *)
(* HostInv has a part for each thing that executions share.  FirewallInv   *)
(* says which of the three stores agree while one change is halfway,       *)
(* Ages and ArchivesInv that one good archive is newer than every good one *)
(* that any prune still holds, ServiceInv that one request is about to act *)
(* and beside its layer none is alive, ApiInv what a call knows of its     *)
(* execution.  A step of one part leaves the others aside (the lemmas      *)
(* ...Aside), so every action needs an argument for its own part only.     *)
(***************************************************************************)
EXTENDS HostOps, TLAPS

-----------------------------------------------------------------------------
\* What an execution is and may hold.
Held == Rules \cup LayerNames \cup Names \cup (SUBSET Names) \cup (SUBSET Directories)
Kept == Held \cup {None}
Run == [op : Operations \cup {None}, at : Places, kept : Kept, ok : BOOLEAN, code : {0, 1},
        ready : BOOLEAN]

\* What it holds, and which operation it is, by how far it is.
Holds(x) ==
    /\ x.at \in {"rules", "load", "save"} => x.op \in FirewallOps /\ x.kept \in Rules
    /\ x.at \in {"dump", "verify"} => x.op = "backup_create" /\ x.kept \in Names
    /\ x.at = "unlink" => x.op = "backup_prune" /\ x.kept \in SUBSET Names
    /\ x.at \in {"act", "probe", "contain"} => x.op \in ServiceOps
    /\ x.at = "act" => x.kept \in LayerNames
    /\ x.at = "make" => x.kept \in SUBSET Directories

-----------------------------------------------------------------------------
\* Unless that is excused one change of the firewall at a time is between two of its
\* stores, and which of them agree follows from how far it is.
Halfway(r) == runs[r].at \in {"rules", "load", "save"}
FirewallInv ==
    \/ "firewall" \in excused
    \/ /\ \A q, r \in Requests : Halfway(q) /\ Halfway(r) => q = r
       /\ \A r \in Requests : LET x == runs[r] IN
             /\ x.at = "rules" => firewall.loaded = firewall.state /\ firewall.rules = firewall.state
             /\ x.at = "load" => firewall.rules = x.kept
             /\ x.at = "save" => firewall.rules = x.kept /\ firewall.loaded = x.kept
       /\ (\A r \in Requests : ~Halfway(r)) =>
             firewall.loaded = firewall.state /\ firewall.rules = firewall.state

\* No two files were written at once, unless dumps shared one.
Ages ==
    /\ \A n \in Names : archives[n].at <= now
    /\ "archives" \notin excused =>
          \A m, n \in Names : m # n /\ Is(m) # "unused" /\ Is(n) # "unused" =>
                                 archives[m].at # archives[n].at

\* A dump has a file of its own, which is not finished and which no prune is about to
\* remove; and one good archive is newer than all good ones that are.
Dumping(r) == runs[r].at = "dump"
Spared(g) ==
    /\ Is(g) = "good"
    /\ \A r \in Requests : runs[r].at = "unlink" =>
          \A d \in runs[r].kept : Is(d) = "good" => archives[d].at < archives[g].at
ArchivesInv ==
    \/ "archives" \in excused
    \/ /\ \A r \in Requests : Dumping(r) => Is(runs[r].kept) = "partial"
       /\ \A q, r \in Requests :
             Dumping(q) /\ Dumping(r) /\ runs[q].kept = runs[r].kept => q = r
       /\ \A r \in Requests : runs[r].at = "unlink" =>
             \A d \in runs[r].kept : /\ Is(d) # "unused"
                                     /\ \A q \in Requests : Dumping(q) => runs[q].kept # d
       /\ \E g \in Names : Spared(g)

\* One request at a time is about to act, and none is alive but the layer it acts on.
Acting(r) == runs[r].at \in {"act", "probe", "contain"}
Others(r) == IF runs[r].at = "act" THEN LayerNames \ {runs[r].kept} ELSE LayerNames
ServiceInv ==
    \/ "service" \in excused
    \/ /\ \E l \in LayerNames : ~Alive(l)
       /\ \A q, r \in Requests : Acting(q) /\ Acting(r) => q = r
       /\ \A r \in Requests : Acting(r) => \A l \in Others(r) : ~Alive(l)

\* What the API knows of an execution.
EndedWell(r) == runs[r].at = "done" /\ runs[r].ok
WasReady(r) == EndedWell(r) /\ (runs[r].op \in CheckOps => runs[r].ready)
CallOf(r) ==
    LET c == calls[r] IN
    /\ c.at \in {"idle", "guard", "begin", "send"} => runs[r].at = "none"
    /\ runs[r].at # "none" => runs[r].op = c.op
    /\ c.at = "step" => c.kind = "setup"
    /\ r \in cut => c.kind # "setup" /\ c.at # "idle"
    /\ c.outcome = "succeeded" =>
          r \in cut \/ (EndedWell(r) /\ runs[r].code = c.code /\ runs[r].ready = c.ready)
    /\ records[r].status = "succeeded" =>
          r \in cut \/ (EndedWell(r) /\ runs[r].code = records[r].code)
ApiInv ==
    /\ \A r \in Requests : CallOf(r)
    /\ \A s \in SetupSteps : steps[s].status = "completed" =>
          steps[s].by \in Requests /\ WasReady(steps[s].by)

Records == [status : Outcomes \cup {"running"}, code : Codes]
Statuses == {"none", "running", "completed", "pending", "failed"}
Marks == [SetupSteps -> [status : Statuses, by : Requests \cup {None}]]
HostInv ==
    /\ TypeOK /\ runs \in [Requests -> Run] /\ \A r \in Requests : Holds(runs[r])
    /\ steps \in Marks
    /\ FirewallInv /\ Ages /\ ArchivesInv /\ ServiceInv /\ ApiInv

-----------------------------------------------------------------------------
LEMMA KeptHas ==
    /\ None \in Kept /\ Rules \subseteq Kept /\ LayerNames \subseteq Kept
    /\ Names \subseteq Kept /\ SUBSET Names \subseteq Kept /\ SUBSET Directories \subseteq Kept
<1>1. None \in Kept
  BY DEF Kept
<1>2. Rules \subseteq Kept
  BY DEF Kept, Held
<1>3. LayerNames \subseteq Kept
  BY DEF Kept, Held
<1>4. Names \subseteq Kept
  BY DEF Kept, Held
<1>5. SUBSET Names \subseteq Kept
  BY DEF Kept, Held
<1>6. SUBSET Directories \subseteq Kept
  BY DEF Kept, Held
<1> QED
  BY <1>1, <1>2, <1>3, <1>4, <1>5, <1>6

\* What the operations are and answer.
LEMMA Answers ==
    /\ Good.ok = TRUE /\ Bad.ok = TRUE /\ Thrown.ok = FALSE
    /\ \A a \in {Good, Bad, Thrown} : a.ok \in BOOLEAN /\ a.code \in {0, 1} /\ a.ready = TRUE
  BY DEF Good, Bad, Thrown

LEMMA FindingsOf ==
    ASSUME NEW step \in {"system", "dependencies", "storage", "firewall", "docker", "postgres",
                         "redis", "nginx", "backups", "health"}
    PROVE  Findings(step) \subseteq BOOLEAN
<1>1. CASE step \in {"system", "health"}
  BY <1>1 DEF Findings, CheckSystem, HealthCheck
<1>2. CASE step = "dependencies"
  BY <1>2 DEF Findings, CheckDependencies
<1>3. CASE step = "storage"
  BY <1>3 DEF Findings, CheckStorage
<1>4. CASE step \in {"firewall", "docker", "postgres", "redis", "nginx", "backups"}
  BY <1>4 DEF Findings, CheckFirewall, CheckDockerNetwork, CheckPostgres, CheckRedis, CheckNginx,
     CheckBackups
<1> QED
  BY <1>1, <1>2, <1>3, <1>4

LEMMA ChecksFind ==
    ASSUME NEW op \in CheckOps PROVE Findings(CheckOf[op]) \subseteq BOOLEAN
<1>1. CheckOf[op] \in {"system", "dependencies", "storage", "firewall", "docker", "postgres",
                       "redis", "nginx", "backups", "health"}
  BY DEF CheckOps, CheckOf
<1> QED
  BY <1>1, FindingsOf

LEMMA ItemsAre ==
    /\ {"dependencies"} \subseteq Items /\ {"docker"} \subseteq Items
    /\ {"postgres"} \subseteq Items /\ {} \subseteq Items /\ Directories \subseteq Items
  BY DEF Items

LEMMA AppliesPut ==
    ASSUME NEW op \in ApplyOps \ {"provision_apply_storage"}, NEW w \in Applied(op)
    PROVE  w[1] \subseteq Items /\ w[2] \in {Good, Bad, Thrown}
<1>1. op \in {"provision_install_dependencies", "provision_apply_docker",
              "provision_write_postgres_conf"}
  BY DEF ApplyOps, ApplyOf
<1>2. \E i \in {{}, {"dependencies"}, {"docker"}, {"postgres"}} :
         \E a \in {Good, Bad, Thrown} : w = <<i, a>>
  <2>1. CASE op = "provision_install_dependencies"
    BY <2>1 DEF Applied, InstallDependencies
  <2>2. CASE op = "provision_apply_docker"
    BY <2>2 DEF Applied, ApplyDocker
  <2>3. CASE op = "provision_write_postgres_conf"
    BY <2>3 DEF Applied, WritePostgresConf
  <2> QED
    BY <1>1, <2>1, <2>2, <2>3
<1> QED
  BY <1>2, ItemsAre

LEMMA ArchiveVerified ==
    ASSUME NEW n \in Names PROVE VerifyArchive(n) \subseteq {Good, Bad, Thrown}
<1>1. CASE Is(n) \in {"good", "cut"}
  BY <1>1 DEF VerifyArchive
<1>2. CASE Is(n) = "partial"
  BY <1>2 DEF VerifyArchive
<1>3. CASE Is(n) = "bad"
  BY <1>3 DEF VerifyArchive
<1>4. CASE Is(n) \notin {"good", "cut", "partial", "bad"}
  BY <1>4 DEF VerifyArchive
<1> QED
  BY <1>1, <1>2, <1>3, <1>4

LEMMA ReadsAnswer ==
    ASSUME NEW op \in ReadOps PROVE ReadAnswers(op) \subseteq {Good, Bad, Thrown}
<1>1. Degrades \subseteq {Good, Bad, Thrown} /\ Fails \subseteq {Good, Bad, Thrown}
  BY DEF Degrades, Fails
<1>2. /\ SystemAnswers(op) \subseteq {Good, Bad, Thrown} \/ op \notin SystemReads
      /\ ServiceAnswers(op) \subseteq {Good, Bad, Thrown}
      /\ DatabaseAnswers \subseteq {Good, Bad, Thrown}
      /\ NetworkAnswers \subseteq {Good, Bad, Thrown}
      /\ StorageAnswers \subseteq {Good, Bad, Thrown}
      /\ FirewallAnswers \subseteq {Good, Bad, Thrown}
      /\ LogAnswers(op) \subseteq {Good, Bad, Thrown}
      /\ IdentityAnswers \subseteq {Good, Bad, Thrown}
  BY <1>1 DEF SystemAnswers, SystemReads, HostReadings, Snapshot, Dependencies, DockerReads,
     ServiceAnswers, Psql, DatabaseHealth, DatabaseAnswers, ListeningSockets, Exposure,
     NetworkAnswers, DirectoryUsage, StorageAnswers, FirewallStatus, FirewallAnswers, LogReader,
     ReadTail, LogAnswers, EnsureIdentity, IdentityAnswers
<1>3. HealthAnswers(op) \subseteq {Good, Bad, Thrown}
  <2>1. CollectStatus \subseteq {Good, Bad, Thrown}
    BY <1>1 DEF CollectStatus
  <2>2. {Bad} \cup {a \in {Good} : \E seen \in Probes : ~Diagnosis(seen)}
         \subseteq {Good, Bad, Thrown}
    OBVIOUS
  <2> QED
    BY <2>1, <2>2 DEF HealthAnswers
<1>4. BackupAnswers(op) \subseteq {Good, Bad, Thrown}
  <2>1. VerifyAnswers \subseteq {Good, Bad, Thrown}
    BY ArchiveVerified DEF VerifyAnswers
  <2> QED
    BY <1>1, <2>1 DEF BackupAnswers
<1> QED
  BY <1>2, <1>3, <1>4 DEF ReadAnswers, ReadOps

-----------------------------------------------------------------------------
\* The shapes, to cite.
LEMMA HostShape ==
    ASSUME HostInv
    PROVE  /\ runs \in [Requests -> Run] /\ \A r \in Requests : Holds(runs[r])
           /\ firewall \in Firewalls
           /\ archives \in [Names -> [is : Files, at : Nat]] /\ now \in Nat
           /\ layers \in [LayerNames -> States]
  BY DEF HostInv, TypeOK, HostTypeOK

\* An execution under way becomes x.
Moves(r, x) ==
    /\ Active(r) /\ runs' = [runs EXCEPT ![r] = x]
    /\ x \in Run /\ Holds(x) /\ x.op = runs[r].op /\ x.at # "none"

LEMMA Moved ==
    ASSUME HostInv, NEW r \in Requests, NEW x, Moves(r, x)
    PROVE  /\ runs' \in [Requests -> Run] /\ runs'[r] = x
           /\ \A q \in Requests \ {r} : runs'[q] = runs[q]
           /\ \A q \in Requests : Holds(runs'[q])
<1>1. /\ runs' \in [Requests -> Run] /\ runs'[r] = x
      /\ \A q \in Requests \ {r} : runs'[q] = runs[q]
  BY HostShape DEF Moves
<1>2. \A q \in Requests : Holds(runs'[q])
  BY <1>1, HostShape DEF Moves
<1> QED
  BY <1>1, <1>2

\* It goes on, or answers.
LEMMA StepMoves ==
    ASSUME HostInv, NEW r \in Requests, Active(r), NEW to \in Places \ {"none", "done"},
           NEW kept \in Kept, Step(r, to, kept),
           to \in {"rules", "load", "save"} => runs[r].op \in FirewallOps /\ kept \in Rules,
           to \in {"dump", "verify"} => runs[r].op = "backup_create" /\ kept \in Names,
           to = "unlink" => runs[r].op = "backup_prune" /\ kept \in SUBSET Names,
           to \in {"act", "probe", "contain"} => runs[r].op \in ServiceOps,
           to = "act" => kept \in LayerNames,
           to = "make" => kept \in SUBSET Directories
    PROVE  \E x \in Run : Moves(r, x) /\ x.at = to /\ x.kept = kept
<1> DEFINE x == [runs[r] EXCEPT !.at = to, !.kept = kept]
<1>1. runs[r] \in Run
  BY HostShape
<1>2. x \in Run /\ x.at = to /\ x.kept = kept /\ x.op = runs[r].op
  BY <1>1 DEF Run
<1>3. runs' = [runs EXCEPT ![r] = x]
  BY HostShape DEF Step
<1> HIDE DEF x
<1>4. Holds(x)
  BY <1>2 DEF Holds
<1> QED
  BY <1>2, <1>3, <1>4 DEF Moves

LEMMA AnswerMoves ==
    ASSUME HostInv, NEW r \in Requests, Active(r), NEW a, Answer(r, a),
           a.ok \in BOOLEAN, a.code \in {0, 1}, a.ready \in BOOLEAN
    PROVE  \E x \in Run : Moves(r, x) /\ x.at = "done"
<1>0. PICK ok \in BOOLEAN, code \in {0, 1}, ready \in BOOLEAN :
          ok = a.ok /\ code = a.code /\ ready = a.ready
  OBVIOUS
<1> DEFINE x == [runs[r] EXCEPT !.at = "done", !.kept = None, !.ok = ok, !.code = code,
                                !.ready = ready]
<1>1. runs[r] \in Run /\ None \in Kept /\ "done" \in Places
  <2>1. "done" \in Places
    BY DEF Places
  <2> QED
    BY <2>1, KeptHas, HostShape
<1>2. x \in Run /\ x.at = "done" /\ x.op = runs[r].op /\ x.ready = ready
  BY <1>1 DEF Run
<1>3. runs' = [runs EXCEPT ![r] = x]
  BY <1>0, HostShape DEF Answer
<1> HIDE DEF x
<1>4. Holds(x)
  BY <1>0, <1>2 DEF Holds
<1> QED
  BY <1>2, <1>3, <1>4 DEF Moves

LEMMA EndMoves ==
    ASSUME HostInv, NEW r \in Requests, Active(r),
           \E a \in {Good, Bad, Thrown} : Answer(r, a)
    PROVE  \E x \in Run : Moves(r, x) /\ x.at = "done"
  BY Answers, AnswerMoves

-----------------------------------------------------------------------------
\* What leaves a part of the host alone leaves what is said of it.
LEMMA FirewallAside ==
    ASSUME HostInv, NEW r \in Requests, NEW x, Moves(r, x), UNCHANGED firewall,
           "firewall" \in excused => "firewall" \in excused', ~Halfway(r), x.at \notin {"rules", "load", "save"}
    PROVE  FirewallInv'
<1>1. \A q \in Requests : /\ Halfway(q)' <=> Halfway(q)
                          /\ Halfway(q) => runs'[q] = runs[q]
                          /\ runs'[q].at \in {"rules", "load", "save"} => runs'[q] = runs[q]
  BY Moved DEF Halfway
<1> QED
  BY <1>1 DEF HostInv, FirewallInv, Halfway

LEMMA ArchivesAside ==
    ASSUME HostInv, NEW r \in Requests, NEW x, Moves(r, x), UNCHANGED <<archives, now>>,
           "archives" \in excused => "archives" \in excused',
           runs[r].at \notin {"dump", "unlink"}, x.at \notin {"dump", "unlink"}
    PROVE  Ages' /\ ArchivesInv'
<1>1. \A q \in Requests : /\ Dumping(q)' <=> Dumping(q)
                          /\ runs'[q].at = "unlink" <=> runs[q].at = "unlink"
                          /\ runs'[q].at \in {"dump", "unlink"} => runs'[q] = runs[q]
  BY Moved DEF Dumping
<1>2. \A d \in Names : Spared(d) => Spared(d)'
  BY <1>1 DEF Spared, Is
<1>3. Ages'
  BY DEF HostInv, Ages, Is
<1>4. CASE "archives" \in excused
  BY <1>3, <1>4 DEF ArchivesInv
<1>5. CASE "archives" \notin excused
  <2>1. (\A q \in Requests : Dumping(q) => Is(runs[q].kept) = "partial")'
    BY <1>1, <1>5 DEF HostInv, ArchivesInv, Is, Dumping
  <2>2. (\A q, p \in Requests :
            Dumping(q) /\ Dumping(p) /\ runs[q].kept = runs[p].kept => q = p)'
    BY <1>1, <1>5 DEF HostInv, ArchivesInv, Dumping
  <2>3. (\A q \in Requests : runs[q].at = "unlink" =>
            \A d \in runs[q].kept : /\ Is(d) # "unused"
                                    /\ \A p \in Requests : Dumping(p) => runs[p].kept # d)'
    BY <1>1, <1>5 DEF HostInv, ArchivesInv, Dumping, Is
  <2>4. (\E d \in Names : Spared(d))'
    BY <1>2, <1>5 DEF HostInv, ArchivesInv
  <2> QED
    BY <1>3, <2>1, <2>2, <2>3, <2>4 DEF ArchivesInv
<1> QED
  BY <1>4, <1>5

LEMMA ServiceAside ==
    ASSUME HostInv, NEW r \in Requests, NEW x, Moves(r, x), UNCHANGED layers,
           "service" \in excused => "service" \in excused', ~Acting(r),
           x.at \notin {"act", "probe", "contain"}
    PROVE  ServiceInv'
<1>1. \A q \in Requests : Acting(q)' => Acting(q) /\ runs'[q] = runs[q]
  BY Moved DEF Acting
<1>2. \A l \in LayerNames : Alive(l)' <=> Alive(l)
  BY DEF Alive
<1>3. \A q \in Requests : Acting(q)' => Others(q)' = Others(q)
  BY <1>1 DEF Others
<1>4. \A q \in Requests : Acting(q)' => \A l \in Others(q)' : Alive(l)' => Alive(l)
  BY <1>2, <1>3 DEF Others
<1> QED
  BY <1>1, <1>2, <1>3, <1>4 DEF HostInv, ServiceInv

LEMMA ApiAside ==
    ASSUME HostInv, NEW r \in Requests, NEW x, Moves(r, x), UNCHANGED apiVars
    PROVE  ApiInv'
<1>1. UNCHANGED <<calls, records, steps, cut>>
  BY DEF apiVars
<1>2. \A q \in Requests : /\ runs'[q].at = "none" <=> runs[q].at = "none"
                          /\ runs'[q].op = runs[q].op
                          /\ runs[q].at = "done" => runs'[q] = runs[q]
  BY Moved DEF Moves, Active
<1>3. \A q \in Requests : EndedWell(q) => EndedWell(q)' /\ runs'[q] = runs[q]
                                           /\ (WasReady(q) => WasReady(q)')
  BY <1>2 DEF EndedWell, WasReady
<1>4. \A q \in Requests : CallOf(q)'
  BY <1>1, <1>2, <1>3 DEF HostInv, ApiInv, CallOf
<1> QED
  BY <1>1, <1>3, <1>4 DEF HostInv, ApiInv, WasReady

\* What is asked of a step of an execution.
LEMMA MoveKeeps ==
    ASSUME HostInv, NEW r \in Requests, NEW x, Moves(r, x), UNCHANGED apiVars,
           firewall' \in Firewalls, archives' \in [Names -> [is : Files, at : Nat]], now' \in Nat,
           layers' \in [LayerNames -> States],
           scheduled' \in {"nothing", "reboot", "shutdown"}, prepared' \subseteq Items,
           excused' \subseteq {"firewall", "archives", "service"},
           FirewallInv', Ages', ArchivesInv', ServiceInv'
    PROVE  HostInv'
<1>1. UNCHANGED <<calls, records, steps, unwritten, cut>>
  BY DEF apiVars
<1>2. runs' \in [Requests -> Run] /\ \A q \in Requests : Holds(runs'[q])
  BY Moved
<1>3. HostTypeOK'
  BY <1>2 DEF HostTypeOK, Run
<1>4. TypeOK'
  BY <1>1, <1>3 DEF HostInv, TypeOK
<1>5. ApiInv'
  BY ApiAside
<1>6. steps' \in Marks
  BY <1>1 DEF HostInv, Marks
<1> QED
  BY <1>2, <1>4, <1>5, <1>6 DEF HostInv

-----------------------------------------------------------------------------
\* Steps that leave the three parts alone.
Special == {"rules", "load", "save", "dump", "unlink", "act", "probe", "contain"}
Shared == UNCHANGED <<apiVars, firewall, archives, now, layers, excused>>

LEMMA AsideKeeps ==
    ASSUME HostInv, NEW r \in Requests, NEW x, Moves(r, x), Shared,
           scheduled' \in {"nothing", "reboot", "shutdown"}, prepared' \subseteq Items,
           runs[r].at \notin Special, x.at \notin Special
    PROVE  HostInv'
<1>1. FirewallInv'
  BY FirewallAside DEF Special, Halfway, Shared
<1>2. Ages' /\ ArchivesInv'
  BY ArchivesAside DEF Special, Shared
<1>3. ServiceInv'
  BY ServiceAside DEF Special, Acting, Shared
<1>4. /\ firewall' \in Firewalls /\ archives' \in [Names -> [is : Files, at : Nat]]
      /\ now' \in Nat /\ layers' \in [LayerNames -> States]
      /\ excused' \subseteq {"firewall", "archives", "service"}
  BY DEF HostInv, TypeOK, HostTypeOK, Shared
<1> QED
  BY <1>1, <1>2, <1>3, <1>4, MoveKeeps DEF Shared

\* The same, of an execution that answers, and of one that goes on.
LEMMA AnswerKeeps ==
    ASSUME HostInv, NEW r \in Requests, Active(r), NEW a, Answer(r, a),
           a.ok \in BOOLEAN, a.code \in {0, 1}, a.ready \in BOOLEAN, Shared,
           scheduled' \in {"nothing", "reboot", "shutdown"}, prepared' \subseteq Items,
           runs[r].at \notin Special
    PROVE  HostInv'
<1>1. PICK x \in Run : Moves(r, x) /\ x.at = "done"
  BY AnswerMoves
<1>2. x.at \notin Special
  BY <1>1 DEF Special
<1> QED
  BY <1>1, <1>2, AsideKeeps

LEMMA EndKeeps ==
    ASSUME HostInv, NEW r \in Requests, Active(r), \E a \in {Good, Bad, Thrown} : Answer(r, a),
           Shared, scheduled' \in {"nothing", "reboot", "shutdown"}, prepared' \subseteq Items,
           runs[r].at \notin Special
    PROVE  HostInv'
  BY Answers, AnswerKeeps

LEMMA GoKeeps ==
    ASSUME HostInv, NEW r \in Requests, Active(r), NEW to \in Places \ ({"none", "done"} \cup Special),
           NEW kept \in Kept, Step(r, to, kept),
           to # "verify", to = "make" => kept \in SUBSET Directories,
           Shared, scheduled' \in {"nothing", "reboot", "shutdown"}, prepared' \subseteq Items,
           runs[r].at \notin Special
    PROVE  HostInv'
<1>1. PICK x \in Run : Moves(r, x) /\ x.at = to
  BY StepMoves DEF Special
<1>2. x.at \notin Special
  BY <1>1
<1> QED
  BY <1>1, <1>2, AsideKeeps

LEMMA Aside ==
    ASSUME HostInv, UNCHANGED <<hostVars, apiVars>>
    PROVE  Shared /\ scheduled' \in {"nothing", "reboot", "shutdown"} /\ prepared' \subseteq Items
  BY DEF hostVars, HostInv, TypeOK, HostTypeOK, Shared

\* Where an execution stands is not one of the three parts, and it is under way.
LEMMA Starts ==
    ASSUME NEW r \in Requests, NEW ops, At(r, ops, "start") \/ At(r, ops, "follow")
                 \/ At(r, ops, "reload") \/ At(r, ops, "restore") \/ At(r, ops, "verify")
                 \/ At(r, ops, "make") \/ At(r, ops, "chmod")
    PROVE  Active(r) /\ runs[r].op \in ops /\ runs[r].at \notin Special
  BY DEF At, Active, Special

LEMMA AsideSteps ==
    ASSUME HostInv, NEW r \in Requests, UNCHANGED apiVars,
           \/ Read(r) \/ Follow(r) \/ FollowEnds(r) \/ TestConfig(r) \/ Reload(r)
           \/ Verify(r) \/ VerifyFirst(r) \/ Restore(r) \/ Schedule(r) \/ Check(r) \/ Apply(r)
           \/ ApplyStorage(r) \/ MakeDirectory(r) \/ MakeFails(r) \/ Chmod(r)
    PROVE  HostInv'
<1>0. {"follow", "reload", "restore"} \subseteq Places \ ({"none", "done", "verify", "make"} \cup Special)
  BY DEF Places, Special
<1>1. CASE Read(r)
  <2>1. Active(r) /\ runs[r].op \in ReadOps /\ runs[r].at \notin Special
    BY <1>1, Starts DEF Read
  <2>2. \E a \in {Good, Bad, Thrown} : Answer(r, a)
    BY <1>1, <2>1, ReadsAnswer DEF Read
  <2> QED
    BY <1>1, <2>1, <2>2, Aside, EndKeeps DEF Read
<1>2. CASE Follow(r)
  <2>1. Active(r) /\ runs[r].at \notin Special
    BY <1>2, Starts DEF Follow
  <2>2. CASE Step(r, "follow", None)
    BY <1>0, <1>2, <2>1, <2>2, Aside, KeptHas, GoKeeps DEF Follow
  <2>3. CASE \E a \in ReadTail : Answer(r, a)
    BY <1>2, <2>1, <2>3, Aside, EndKeeps DEF Follow, ReadTail, Fails
  <2> QED
    BY <1>2, <2>2, <2>3 DEF Follow
<1>3. CASE FollowEnds(r)
  <2>1. Active(r) /\ runs[r].at \notin Special
    BY <1>3, Starts DEF FollowEnds
  <2> QED
    BY <1>3, <2>1, Aside, EndKeeps DEF FollowEnds
<1>4. CASE TestConfig(r)
  <2>1. Active(r) /\ runs[r].at \notin Special
    BY <1>4, Starts DEF TestConfig
  <2>2. CASE Step(r, "reload", None)
    BY <1>0, <1>4, <2>1, <2>2, Aside, KeptHas, GoKeeps DEF TestConfig
  <2>3. CASE Throw(r)
    BY <1>4, <2>1, <2>3, Aside, EndKeeps DEF TestConfig, Throw
  <2> QED
    BY <1>4, <2>2, <2>3 DEF TestConfig
<1>5. CASE Reload(r)
  <2>1. Active(r) /\ runs[r].at \notin Special
    BY <1>5, Starts DEF Reload
  <2> QED
    BY <1>5, <2>1, Aside, EndKeeps DEF Reload, Done, Throw
<1>6. CASE Verify(r)
  <2>1. Active(r) /\ runs[r].at \notin Special
    BY <1>6, Starts DEF Verify
  <2>2. runs[r].kept \in Names
    BY <1>6, HostShape DEF Verify, At, Holds
  <2>3. \E a \in {Good, Bad, Thrown} : Answer(r, a)
    BY <1>6, <2>2, ArchiveVerified DEF Verify
  <2> QED
    BY <1>6, <2>1, <2>3, Aside, EndKeeps DEF Verify
<1>7. CASE VerifyFirst(r)
  <2>1. Active(r) /\ runs[r].at \notin Special
    BY <1>7, Starts DEF VerifyFirst
  <2>2. PICK d \in Names : Step(r, "restore", d) \/ Throw(r)
    BY <1>7 DEF VerifyFirst
  <2>3. CASE Step(r, "restore", d)
    BY <1>0, <1>7, <2>1, <2>3, Aside, KeptHas, GoKeeps DEF VerifyFirst
  <2>4. CASE Throw(r)
    BY <1>7, <2>1, <2>4, Aside, EndKeeps DEF VerifyFirst, Throw
  <2> QED
    BY <2>2, <2>3, <2>4
<1>8. CASE Restore(r)
  <2>1. Active(r) /\ runs[r].at \notin Special
    BY <1>8, Starts DEF Restore
  <2> QED
    BY <1>8, <2>1, Aside, EndKeeps DEF Restore
<1>9. CASE Schedule(r)
  <2>1. Active(r) /\ runs[r].at \notin Special /\ runs[r].op \in PowerOps
    BY <1>9, Starts DEF Schedule
  <2>2. scheduled' \in {"nothing", "reboot", "shutdown"}
    <3>1. scheduled \in {"nothing", "reboot", "shutdown"}
      BY DEF HostInv, TypeOK, HostTypeOK
    <3> QED
      BY <1>9, <2>1, <3>1 DEF Schedule, PowerOps
  <2>3. prepared' \subseteq Items /\ Shared
    BY <1>9 DEF Schedule, HostInv, TypeOK, HostTypeOK, Shared
  <2> QED
    BY <1>9, <2>1, <2>2, <2>3, EndKeeps DEF Schedule, Done, Throw
<1>10. CASE Check(r)
  <2>1. Active(r) /\ runs[r].at \notin Special /\ runs[r].op \in CheckOps
    BY <1>10, Starts DEF Check
  <2>2. PICK ready \in BOOLEAN : Answer(r, [Good EXCEPT !.ready = ready])
    BY <1>10, <2>1, ChecksFind DEF Check
  <2> DEFINE a == [Good EXCEPT !.ready = ready]
  <2>3. a.ok \in BOOLEAN /\ a.code \in {0, 1} /\ a.ready \in BOOLEAN
    BY DEF Good
  <2>4. Answer(r, a)
    BY <2>2
  <2> HIDE DEF a
  <2> QED
    BY <1>10, <2>1, <2>3, <2>4, Aside, AnswerKeeps DEF Check
<1>11. CASE Apply(r)
  <2>1. Active(r) /\ runs[r].at \notin Special 
        /\ runs[r].op \in ApplyOps \ {"provision_apply_storage"}
    BY <1>11, Starts DEF Apply
  <2>2. PICK w \in Applied(runs[r].op) : prepared' = prepared \cup w[1] /\ Answer(r, w[2])
    BY <1>11 DEF Apply
  <2>3. w[1] \subseteq Items /\ w[2] \in {Good, Bad, Thrown}
    BY <2>1, AppliesPut
  <2>4. /\ prepared' \subseteq Items /\ Shared
        /\ scheduled' \in {"nothing", "reboot", "shutdown"}
    BY <1>11, <2>2, <2>3 DEF Apply, HostInv, TypeOK, HostTypeOK, Shared
  <2> QED
    BY <1>11, <2>1, <2>2, <2>3, <2>4, EndKeeps DEF Apply
<1>12. ASSUME StorageStep(r) PROVE Shared /\ scheduled' \in {"nothing", "reboot", "shutdown"}
  BY <1>12 DEF StorageStep, Shared, HostInv, TypeOK, HostTypeOK
<1>13. CASE ApplyStorage(r)
  <2>1. Active(r) /\ runs[r].at \notin Special /\ Step(r, "make", Directories)
    BY <1>13, Starts DEF ApplyStorage
  <2>2. "make" \in Places \ ({"none", "done"} \cup Special) /\ Directories \in Kept
    BY KeptHas DEF Places, Special
  <2>3. Shared /\ scheduled' \in {"nothing", "reboot", "shutdown"} /\ prepared' \subseteq Items
    BY <1>12, <1>13 DEF ApplyStorage, HostInv, TypeOK, HostTypeOK
  <2> QED
    BY <2>1, <2>2, <2>3, GoKeeps
<1>14. CASE MakeDirectory(r)
  <2>1. /\ Active(r) /\ runs[r].at \notin Special /\ runs[r].kept \in SUBSET Directories
        /\ prepared \subseteq Items
    BY <1>14, Starts, HostShape DEF MakeDirectory, At, Holds, HostInv, TypeOK, HostTypeOK
  <2>2. PICK d \in Directories : /\ prepared' = prepared \cup {d}
                                /\ \/ Step(r, "chmod", runs[r].kept \ {d})
                                   \/ Step(r, "make", runs[r].kept \ {d})
    BY <1>14, <2>1 DEF MakeDirectory
  <2>3. "make" \in Places \ ({"none", "done"} \cup Special)
        /\ "chmod" \in Places \ ({"none", "done"} \cup Special)
    BY DEF Places, Special
  <2>4. runs[r].kept \ {d} \in SUBSET Directories /\ runs[r].kept \ {d} \in Kept
    BY <2>1, KeptHas
  <2>5. Shared /\ scheduled' \in {"nothing", "reboot", "shutdown"} /\ prepared' \subseteq Items
    BY <1>12, <1>14, <2>1, <2>2, ItemsAre DEF MakeDirectory
  <2> QED
    BY <2>1, <2>2, <2>3, <2>4, <2>5, GoKeeps
<1>15. CASE MakeFails(r)
  <2>1. Active(r) /\ runs[r].at \notin Special
    BY <1>15, Starts DEF MakeFails
  <2>2. Shared /\ scheduled' \in {"nothing", "reboot", "shutdown"} /\ prepared' \subseteq Items
    BY <1>12, <1>15 DEF MakeFails, HostInv, TypeOK, HostTypeOK
  <2> QED
    BY <1>15, <2>1, <2>2, EndKeeps DEF MakeFails, Throw
<1>16. CASE Chmod(r)
  <2>1. Active(r) /\ runs[r].at \notin Special
    BY <1>16, Starts DEF Chmod
  <2>2. Shared /\ scheduled' \in {"nothing", "reboot", "shutdown"} /\ prepared' \subseteq Items
    BY <1>12, <1>16 DEF Chmod, HostInv, TypeOK, HostTypeOK
  <2>3. CASE Throw(r)
    BY <2>1, <2>2, <2>3, EndKeeps DEF Throw
  <2>4. CASE \E ready \in CheckStorage : Answer(r, [Good EXCEPT !.ready = ready])
    <3>1. PICK ready \in BOOLEAN : Answer(r, [Good EXCEPT !.ready = ready])
      BY <2>4 DEF CheckStorage
    <3> DEFINE a == [Good EXCEPT !.ready = ready]
    <3>2. a.ok \in BOOLEAN /\ a.code \in {0, 1} /\ a.ready \in BOOLEAN
      BY DEF Good
    <3>3. Answer(r, a)
      BY <3>1
    <3> HIDE DEF a
    <3> QED
      BY <2>1, <2>2, <3>2, <3>3, AnswerKeeps
  <2> QED
    BY <1>16, <2>3, <2>4 DEF Chmod
<1> QED
  BY <1>1, <1>2, <1>3, <1>4, <1>5, <1>6, <1>7, <1>8, <1>9, <1>10, <1>11, <1>13, <1>14, <1>15,
     <1>16

-----------------------------------------------------------------------------
\* The firewall.
LEMMA SubjectOf ==
    ASSUME NEW op
    PROVE  /\ op \in FirewallOps => Subject(op) = "firewall"
           /\ op \in ServiceOps => Subject(op) = "service"
<1>1. /\ op \in FirewallOps => op \notin ServiceOps /\ op \notin {"backup_create", "backup_prune"}
      /\ op \in ServiceOps => op \notin FirewallOps /\ op \notin {"backup_create", "backup_prune"}
  BY DEF ServiceOps, FirewallOps
<1>2. CASE op \in FirewallOps
  BY <1>1, <1>2, Zenon DEF Subject
<1>3. CASE op \in ServiceOps
  BY <1>1, <1>3, Zenon DEF Subject
<1> QED
  BY <1>1, <1>2, <1>3

LEMMA FirewallMoves ==
    ASSUME HostInv, NEW r \in Requests, NEW x, Moves(r, x),
           UNCHANGED <<apiVars, archives, now, layers, scheduled, prepared>>,
           firewall' \in Firewalls,
           excused' \in {excused, excused \cup {"firewall"}, excused \ {"firewall"}},
           runs[r].at \in {"start", "rules", "load", "save"},
           x.at \in {"rules", "load", "save", "done"},
           FirewallInv'
    PROVE  HostInv'
<1>1. Ages' /\ ArchivesInv'
  BY ArchivesAside
<1>2. ServiceInv'
  BY ServiceAside DEF Acting
<1>3. /\ archives' \in [Names -> [is : Files, at : Nat]] /\ now' \in Nat
      /\ layers' \in [LayerNames -> States]
      /\ excused' \subseteq {"firewall", "archives", "service"}
      /\ scheduled' \in {"nothing", "reboot", "shutdown"} /\ prepared' \subseteq Items
  BY DEF HostInv, TypeOK, HostTypeOK
<1> QED
  BY <1>1, <1>2, <1>3, MoveKeeps

LEMMA ChangedAreRules ==
    ASSUME NEW op \in FirewallOps, NEW s \in Rules PROVE Changed(op, s) \subseteq Rules
<1>1. \A b \in BOOLEAN : [s EXCEPT !.https = b] \in Rules /\ [s EXCEPT !.ssh = b] \in Rules
  BY DEF Rules
<1>2. CASE op = "firewall_apply_baseline"
  BY <1>2 DEF Changed
<1>3. CASE op = "firewall_open_https"
  BY <1>1, <1>3 DEF Changed
<1>4. CASE op = "firewall_close_https"
  BY <1>1, <1>4 DEF Changed
<1>5. CASE op = "firewall_configure_ssh"
  BY <1>1, <1>5 DEF Changed
<1> QED
  BY <1>2, <1>3, <1>4, <1>5 DEF FirewallOps

LEMMA ChangingIs == Changing = {r \in Requests : Halfway(r)}
  BY DEF Changing, Halfway

\* What is asked of a step: that no other change is halfway, or that is excused.
LEMMA FirewallGoesOn ==
    ASSUME HostInv, NEW r \in Requests, NEW x, Moves(r, x),
           x.at \in {"rules", "load", "save", "done"},
           "firewall" \notin excused' =>
               /\ \A q \in Requests \ {r} : ~Halfway(q)
               /\ x.at = "load" => firewall'.rules = x.kept
               /\ x.at = "save" => firewall'.rules = x.kept /\ firewall'.loaded = x.kept
               /\ x.at \in {"rules", "done"} =>
                     firewall'.loaded = firewall'.state /\ firewall'.rules = firewall'.state
    PROVE  FirewallInv'
<1>1. runs'[r] = x /\ \A q \in Requests \ {r} : runs'[q] = runs[q]
  BY Moved
<1>2. CASE "firewall" \in excused'
  BY <1>2 DEF FirewallInv
<1>3. CASE "firewall" \notin excused'
  <2>1. \A q \in Requests \ {r} : ~Halfway(q)'
    BY <1>1, <1>3 DEF Halfway
  <2>2. \A q \in Requests : Halfway(q)' => q = r
    BY <2>1
  <2> QED
    BY <1>1, <1>3, <2>1, <2>2 DEF FirewallInv, Halfway
<1> QED
  BY <1>2, <1>3

\* The first step finds the stores as the last one left them.
LEMMA ReadStateKeeps ==
    ASSUME HostInv, NEW r \in Requests, ReadState(r), UNCHANGED apiVars PROVE HostInv'
<1>1. Active(r) /\ runs[r].op \in FirewallOps /\ runs[r].at = "start"
  BY DEF ReadState, At, Active
<1>2. PICK s \in Rules : Step(r, "rules", s)
  BY <1>1, ChangedAreRules, HostShape DEF ReadState, Firewalls
<1>3. PICK x \in Run : Moves(r, x) /\ x.at = "rules" /\ x.kept = s
  <2>1. "rules" \in Places \ {"none", "done"} /\ s \in Kept
    BY KeptHas DEF Places
  <2> QED
    BY <1>1, <1>2, <2>1, StepMoves
<1>4. UNCHANGED <<firewall, archives, now, layers, scheduled, prepared>>
      /\ excused' \in {excused, excused \cup {"firewall"}}
  BY DEF ReadState, Excuse
<1>5. FirewallInv'
  <2>1. ASSUME "firewall" \notin excused'
        PROVE  /\ \A q \in Requests \ {r} : ~Halfway(q)
               /\ firewall.loaded = firewall.state /\ firewall.rules = firewall.state
    <3>1. Changing = {} /\ "firewall" \notin excused
      BY <2>1 DEF ReadState, Excuse
    <3>2. \A q \in Requests : ~Halfway(q)
      BY <3>1, ChangingIs
    <3> QED
      BY <3>1, <3>2 DEF HostInv, FirewallInv
  <2> QED
    BY <1>3, <1>4, <2>1, FirewallGoesOn
<1>6. firewall' \in Firewalls
  BY <1>4, HostShape
<1> QED
  BY <1>1, <1>3, <1>4, <1>5, <1>6, FirewallMoves

\* The one change that is halfway.
LEMMA Lone ==
    ASSUME HostInv, NEW r \in Requests, Halfway(r), "firewall" \notin excused
    PROVE  /\ \A q \in Requests \ {r} : ~Halfway(q)
           /\ runs[r].at = "rules" => firewall.loaded = firewall.state /\ firewall.rules = firewall.state
           /\ runs[r].at = "load" => firewall.rules = runs[r].kept
           /\ runs[r].at = "save" => firewall.rules = runs[r].kept /\ firewall.loaded = runs[r].kept
  BY DEF HostInv, FirewallInv

LEMMA FirewallKeeps ==
    ASSUME HostInv, NEW r \in Requests, UNCHANGED apiVars,
           \/ WriteRules(r) \/ WriteFails(r) \/ LoadRules(r) \/ LoadFails(r)
           \/ SaveState(r) \/ SaveFails(r)
    PROVE  HostInv'
<1>0. /\ Active(r) /\ Halfway(r) /\ runs[r].at \in {"start", "rules", "load", "save"}
      /\ runs[r].op \in FirewallOps /\ runs[r].kept \in Rules /\ runs[r].kept \in Kept
  BY HostShape, KeptHas
     DEF WriteRules, WriteFails, LoadRules, LoadFails, SaveState, SaveFails, At, Active, Halfway, Holds
<1>1. PICK a \in Rules, b \in Rules \cup {Unset}, c \in Rules \cup {Unset} :
          firewall = [state |-> a, rules |-> b, loaded |-> c]
  BY HostShape DEF Firewalls
<1>2. PICK k \in Rules : k = runs[r].kept
  BY <1>0
<1>3. \A s \in Rules, f, l \in Rules \cup {Unset} : [state |-> s, rules |-> f, loaded |-> l] \in Firewalls
  BY DEF Firewalls
<1>4. CASE WriteRules(r)
  <2>1. PICK x \in Run : Moves(r, x) /\ x.at = "load" /\ x.kept = k
    <3>1. "load" \in Places \ {"none", "done"} /\ Step(r, "load", k)
      BY <1>2, <1>4 DEF Places, WriteRules
    <3> QED
      BY <1>0, <1>2, <3>1, StepMoves
  <2>2. firewall' = [state |-> a, rules |-> k, loaded |-> c] /\ firewall' \in Firewalls
    <3>1. firewall' = [state |-> a, rules |-> k, loaded |-> c]
      BY <1>1, <1>2, <1>4 DEF WriteRules
    <3> QED
      BY <1>3, <3>1
  <2>3. FirewallInv'
    <3>1. ASSUME "firewall" \notin excused' PROVE \A q \in Requests \ {r} : ~Halfway(q)
      <4>1. CASE Changing = {r}
        BY <4>1, ChangingIs
      <4>2. CASE Changing # {r}
        <5>1. "firewall" \notin excused
          BY <1>4, <3>1, <4>2 DEF WriteRules
        <5> QED
          BY <1>0, <5>1, Lone
      <4> QED
        BY <4>1, <4>2
    <3> QED
      BY <2>1, <2>2, <3>1, FirewallGoesOn
  <2>4. excused' \in {excused, excused \ {"firewall"}}
    BY <1>4 DEF WriteRules
  <2> QED
    BY <1>0, <1>4, <2>1, <2>2, <2>3, <2>4, FirewallMoves DEF WriteRules
<1>5. CASE WriteFails(r)
  <2>1. PICK x \in Run : Moves(r, x) /\ x.at = "done"
    BY <1>0, <1>5, EndMoves DEF WriteFails, Throw
  <2>2. PICK f \in Rules \cup {Unset} :
           /\ firewall' = [state |-> a, rules |-> f, loaded |-> c]
           /\ IF f # b THEN excused' = excused \cup {"firewall"} ELSE excused' = excused
    BY <1>1, <1>5 DEF WriteFails, Excuse
  <2>3. firewall' \in Firewalls
    BY <1>3, <2>2
  <2>4. FirewallInv'
    <3>1. ASSUME "firewall" \notin excused'
          PROVE  /\ \A q \in Requests \ {r} : ~Halfway(q)
                 /\ firewall'.loaded = firewall'.state /\ firewall'.rules = firewall'.state
      <4>1. f = b /\ "firewall" \notin excused
        BY <2>2, <3>1
      <4>2. c = a /\ b = a
        BY <1>0, <1>1, <1>5, <4>1, Lone DEF WriteFails, At
      <4> QED
        BY <1>0, <2>2, <4>1, <4>2, Lone
    <3> QED
      BY <2>1, <3>1, FirewallGoesOn
  <2> QED
    BY <1>0, <1>5, <2>1, <2>2, <2>3, <2>4, FirewallMoves DEF WriteFails
<1>6. CASE LoadRules(r)
  <2>1. PICK x \in Run : Moves(r, x) /\ x.at = "save" /\ x.kept = k
    <3>1. "save" \in Places \ {"none", "done"} /\ Step(r, "save", k)
      BY <1>2, <1>6 DEF Places, LoadRules
    <3> QED
      BY <1>0, <1>2, <3>1, StepMoves
  <2>2. firewall' = [state |-> a, rules |-> b, loaded |-> b] /\ firewall' \in Firewalls
    <3>1. firewall' = [state |-> a, rules |-> b, loaded |-> b]
      BY <1>1, <1>6 DEF LoadRules
    <3> QED
      BY <1>3, <3>1
  <2>3. FirewallInv'
    <3>1. ASSUME "firewall" \notin excused'
          PROVE  (\A q \in Requests \ {r} : ~Halfway(q)) /\ b = k
      <4>1. "firewall" \notin excused
        BY <1>6, <3>1 DEF LoadRules
      <4> QED
        BY <1>0, <1>1, <1>2, <1>6, <4>1, Lone DEF LoadRules, At
    <3> QED
      BY <2>1, <2>2, <3>1, FirewallGoesOn
  <2> QED
    BY <1>0, <1>6, <2>1, <2>2, <2>3, FirewallMoves DEF LoadRules
<1>7. CASE LoadFails(r)
  <2>1. PICK x \in Run : Moves(r, x) /\ x.at = "done"
    BY <1>0, <1>7, EndMoves DEF LoadFails, Throw
  <2>2. excused' = excused \cup {"firewall"}
    BY <1>7 DEF LoadFails, Excuse
  <2>3. PICK l \in Rules \cup {Unset} : firewall' = [state |-> a, rules |-> b, loaded |-> l]
    BY <1>1, <1>7 DEF LoadFails
  <2>4. FirewallInv'
    BY <2>2 DEF FirewallInv
  <2>5. firewall' \in Firewalls
    BY <1>3, <2>3
  <2> QED
    BY <1>0, <1>7, <2>1, <2>2, <2>4, <2>5, FirewallMoves DEF LoadFails
<1>8. CASE SaveState(r)
  <2>1. PICK x \in Run : Moves(r, x) /\ x.at = "done"
    BY <1>0, <1>8, EndMoves DEF SaveState, Throw, Done
  <2>2. firewall' = [state |-> k, rules |-> b, loaded |-> c] /\ firewall' \in Firewalls
    <3>1. firewall' = [state |-> k, rules |-> b, loaded |-> c]
      BY <1>1, <1>2, <1>8 DEF SaveState
    <3> QED
      BY <1>3, <3>1
  <2>3. FirewallInv'
    <3>1. ASSUME "firewall" \notin excused'
          PROVE  (\A q \in Requests \ {r} : ~Halfway(q)) /\ b = k /\ c = k
      <4>1. "firewall" \notin excused
        BY <1>8, <3>1 DEF SaveState
      <4> QED
        BY <1>0, <1>1, <1>2, <1>8, <4>1, Lone DEF SaveState, At
    <3> QED
      BY <2>1, <2>2, <3>1, FirewallGoesOn
  <2> QED
    BY <1>0, <1>8, <2>1, <2>2, <2>3, FirewallMoves DEF SaveState
<1>9. CASE SaveFails(r)
  <2>1. PICK x \in Run : Moves(r, x) /\ x.at = "done"
    BY <1>0, <1>9, EndMoves DEF SaveFails, Throw
  <2>2. excused' = excused \cup {"firewall"}
    BY <1>9 DEF SaveFails, Excuse
  <2>3. PICK s \in Rules : firewall' = [state |-> s, rules |-> b, loaded |-> c]
    <3>1. DefaultState \in Rules
      BY DEF DefaultState, Rules
    <3> QED
      BY <1>1, <1>9, <3>1 DEF SaveFails
  <2>4. FirewallInv'
    BY <2>2 DEF FirewallInv
  <2>5. firewall' \in Firewalls
    BY <1>3, <2>3
  <2> QED
    BY <1>0, <1>9, <2>1, <2>2, <2>4, <2>5, FirewallMoves DEF SaveFails
<1> QED
  BY <1>4, <1>5, <1>6, <1>7, <1>8, <1>9

-----------------------------------------------------------------------------
\* The archives.
LEMMA ArchivesMoves ==
    ASSUME HostInv, NEW r \in Requests, NEW x, Moves(r, x),
           UNCHANGED <<apiVars, firewall, layers, scheduled, prepared>>,
           archives' \in [Names -> [is : Files, at : Nat]], now' \in Nat,
           excused' \in {excused, excused \cup {"archives"}},
           runs[r].at \in {"start", "dump", "unlink"},
           x.at \in {"dump", "verify", "unlink", "done"},
           Ages', ArchivesInv'
    PROVE  HostInv'
<1>1. FirewallInv'
  BY FirewallAside DEF Halfway
<1>2. ServiceInv'
  BY ServiceAside DEF Acting
<1>3. /\ firewall' \in Firewalls /\ layers' \in [LayerNames -> States]
      /\ excused' \subseteq {"firewall", "archives", "service"}
      /\ scheduled' \in {"nothing", "reboot", "shutdown"} /\ prepared' \subseteq Items
  BY DEF HostInv, TypeOK, HostTypeOK
<1> QED
  BY <1>1, <1>2, <1>3, MoveKeeps

\* What the invariant says when nothing is excused.
LEMMA ArchivesHeld ==
    ASSUME HostInv, "archives" \notin excused
    PROVE  /\ \A q \in Requests : Dumping(q) =>
                 runs[q].kept \in Names /\ Is(runs[q].kept) = "partial"
           /\ \A q \in Requests : runs[q].at = "unlink" =>
                 /\ runs[q].kept \in SUBSET Names
                 /\ \A d \in runs[q].kept : Is(d) # "unused"
                 /\ \A d \in runs[q].kept, p \in Requests : Dumping(p) => runs[p].kept # d
           /\ \A q, p \in Requests :
                 Dumping(q) /\ Dumping(p) /\ runs[q].kept = runs[p].kept => q = p
           /\ \E g \in Names : Spared(g)
<1>1. \A q \in Requests : Holds(runs[q])
  BY HostShape
<1>2. ArchivesInv
  BY DEF HostInv
<1> QED
  BY <1>1, <1>2 DEF ArchivesInv, Dumping, Holds

\* A file is written: it is of an age of its own, and the others are as they were.
LEMMA Written ==
    ASSUME HostInv, NEW k \in Names, NEW f \in Files, Write(k, f),
           "archives" \in excused => "archives" \in excused'
    PROVE  /\ archives' \in [Names -> [is : Files, at : Nat]] /\ now' \in Nat
           /\ Is(k)' = f /\ \A n \in Names \ {k} : archives'[n] = archives[n]
           /\ Ages'
<1> DEFINE v == [is |-> f, at |-> now + 1]
<1>1. v \in [is : Files, at : Nat] /\ v.is = f /\ v.at = now + 1
  BY HostShape
<1>2. archives' = [archives EXCEPT ![k] = v] /\ now' = now + 1
  BY DEF Write
<1> HIDE DEF v
<1>3. /\ archives' \in [Names -> [is : Files, at : Nat]] /\ now' \in Nat
      /\ archives'[k] = v /\ \A n \in Names \ {k} : archives'[n] = archives[n]
  BY <1>1, <1>2, HostShape
<1>4. \A n \in Names : archives[n].at \in Nat /\ archives[n].at <= now
  BY HostShape DEF HostInv, Ages
<1>5. \A n \in Names : archives'[n].at <= now'
  <2> TAKE n \in Names
  <2>1. CASE n = k
    BY <1>1, <1>2, <1>3, <2>1, HostShape
  <2>2. CASE n # k
    BY <1>2, <1>3, <1>4, <2>2, HostShape
  <2> QED
    BY <2>1, <2>2
<1>6. \A n \in Names \ {k} : archives'[n].at # archives'[k].at
  <2> TAKE n \in Names \ {k}
  <2>1. archives'[n].at = archives[n].at /\ archives[n].at \in Nat /\ archives[n].at <= now
    BY <1>3, <1>4
  <2> QED
    BY <1>1, <1>3, <2>1, HostShape
<1>7. "archives" \notin excused => \A m, n \in Names :
         m # n /\ archives'[m].is # "unused" /\ archives'[n].is # "unused"
           => archives'[m].at # archives'[n].at
  <2> SUFFICES ASSUME "archives" \notin excused, NEW m \in Names, NEW n \in Names, m # n,
                      archives'[m].is # "unused", archives'[n].is # "unused"
               PROVE  archives'[m].at # archives'[n].at
    OBVIOUS
  <2>1. CASE m = k \/ n = k
    BY <1>6, <2>1
  <2>2. CASE m # k /\ n # k
    BY <1>3, <2>2 DEF HostInv, Ages, Is
  <2> QED
    BY <2>1, <2>2
<1>8. Is(k)' = f
  BY <1>1, <1>3 DEF Is
<1> QED
  BY <1>3, <1>5, <1>7, <1>8 DEF Ages, Is

\* A file that was not good and is held by no prune is written, by a dump that alone
\* holds it if one does.
LEMMA WrittenKeeps ==
    ASSUME HostInv, "archives" \notin excused,
           NEW r \in Requests, NEW x, Moves(r, x), runs[r].at # "unlink", x.at # "unlink",
           NEW k \in Names, NEW f \in Files \ {"unused"}, Write(k, f), Is(k) # "good",
           \A q \in Requests : runs[q].at = "unlink" => k \notin runs[q].kept,
           \A q \in Requests \ {r} : Dumping(q) => runs[q].kept # k,
           x.at = "dump" => x.kept = k /\ f = "partial"
    PROVE  ArchivesInv'
<1>1. /\ runs'[r] = x /\ \A q \in Requests \ {r} : runs'[q] = runs[q]
  BY Moved
<1>2. /\ archives' \in [Names -> [is : Files, at : Nat]]
      /\ Is(k)' = f /\ \A n \in Names \ {k} : archives'[n] = archives[n]
  BY Written
<1>3. \A q \in Requests : runs'[q].at = "unlink" => q # r /\ runs'[q] = runs[q]
  BY <1>1
<1>4. \A q \in Requests \ {r} : Dumping(q)' => Dumping(q) /\ runs'[q] = runs[q]
  BY <1>1 DEF Dumping
<1>5. (\A q \in Requests : Dumping(q) => Is(runs[q].kept) = "partial")'
  <2> SUFFICES ASSUME NEW q \in Requests, runs'[q].at = "dump"
               PROVE  archives'[runs'[q].kept].is = "partial"
    BY DEF Dumping, Is
  <2>1. CASE q = r
    BY <1>1, <1>2, <2>1 DEF Is
  <2>2. CASE q # r
    <3>1. Dumping(q) /\ runs'[q] = runs[q]
      BY <1>4, <2>2 DEF Dumping
    <3>2. runs[q].kept \in Names \ {k} /\ archives[runs[q].kept].is = "partial"
      BY <2>2, <3>1, ArchivesHeld DEF Is
    <3> QED
      BY <1>2, <3>1, <3>2
  <2> QED
    BY <2>1, <2>2
<1>6. (\A q, p \in Requests : Dumping(q) /\ Dumping(p) /\ runs[q].kept = runs[p].kept => q = p)'
  <2> SUFFICES ASSUME NEW q \in Requests, NEW p \in Requests, runs'[q].at = "dump",
                      runs'[p].at = "dump", runs'[q].kept = runs'[p].kept
               PROVE  q = p
    BY DEF Dumping
  <2>1. CASE q # r /\ p # r
    BY <1>4, <2>1, ArchivesHeld DEF Dumping
  <2>2. CASE q = r /\ p # r
    BY <1>1, <1>4, <2>2 DEF Dumping
  <2>3. CASE q # r /\ p = r
    BY <1>1, <1>4, <2>3 DEF Dumping
  <2> QED
    BY <2>1, <2>2, <2>3
<1>7. (\A q \in Requests : runs[q].at = "unlink" =>
          \A d \in runs[q].kept : /\ Is(d) # "unused"
                                  /\ \A p \in Requests : Dumping(p) => runs[p].kept # d)'
  <2> SUFFICES ASSUME NEW q \in Requests, runs'[q].at = "unlink", NEW d \in runs'[q].kept
               PROVE  /\ archives'[d].is # "unused"
                      /\ \A p \in Requests : runs'[p].at = "dump" => runs'[p].kept # d
    BY DEF Dumping, Is
  <2>1. /\ d \in Names \ {k} /\ archives[d].is # "unused"
        /\ \A p \in Requests : Dumping(p) => runs[p].kept # d
    BY <1>3, ArchivesHeld DEF Is
  <2>2. \A p \in Requests : runs'[p].at = "dump" => runs'[p].kept # d
    BY <1>1, <1>4, <2>1 DEF Dumping
  <2> QED
    BY <1>2, <2>1, <2>2
<1>8. (\E g \in Names : Spared(g))'
  <2>1. PICK g \in Names : Spared(g)
    BY ArchivesHeld
  <2>2. g # k
    BY <2>1 DEF Spared
  <2>3. \A q \in Requests : runs'[q].at = "unlink" =>
           \A d \in runs'[q].kept : archives'[d].is = "good" => archives'[d].at < archives'[g].at
    <3> SUFFICES ASSUME NEW q \in Requests, runs'[q].at = "unlink", NEW d \in runs'[q].kept,
                        archives'[d].is = "good"
                 PROVE  archives'[d].at < archives'[g].at
      OBVIOUS
    <3>1. runs'[q] = runs[q] /\ d \in Names \ {k}
      BY <1>3, ArchivesHeld
    <3> QED
      BY <1>2, <2>1, <2>2, <3>1 DEF Spared, Is
  <2>4. archives'[g].is = "good"
    BY <1>2, <2>1, <2>2 DEF Spared, Is
  <2> QED
    BY <2>3, <2>4 DEF Spared, Is
<1> QED
  BY <1>5, <1>6, <1>7, <1>8 DEF ArchivesInv

\* A file is opened: it was no archive yet, or that is excused.
LEMMA StartDumpKeeps ==
    ASSUME HostInv, NEW r \in Requests, StartDump(r), UNCHANGED apiVars PROVE HostInv'
<1>1. /\ Active(r) /\ runs[r].op = "backup_create" /\ runs[r].at = "start"
      /\ runs[r].at \in {"start", "dump", "unlink"} /\ runs[r].at # "unlink"
  BY DEF StartDump, At, Active
<1>2. PICK n \in Names : /\ Write(n, "partial") /\ Step(r, "dump", n)
                         /\ Excuse("archives", Is(n) # "unused")
  BY DEF StartDump
<1>3. PICK x \in Run : Moves(r, x) /\ x.at = "dump" /\ x.kept = n
  <2>1. "dump" \in Places \ {"none", "done"} /\ n \in Kept
    BY KeptHas DEF Places
  <2> QED
    BY <1>1, <1>2, <2>1, StepMoves
<1>4. /\ UNCHANGED <<firewall, layers, scheduled, prepared>>
      /\ excused' \in {excused, excused \cup {"archives"}}
  BY <1>2 DEF StartDump, Excuse
<1>5. "partial" \in Files \ {"unused"}
  BY DEF Files
<1>6. /\ archives' \in [Names -> [is : Files, at : Nat]] /\ now' \in Nat /\ Ages'
  BY <1>2, <1>4, <1>5, Written
<1>7. ArchivesInv'
  <2>1. CASE "archives" \in excused'
    BY <2>1 DEF ArchivesInv
  <2>2. CASE "archives" \notin excused'
    <3>1. "archives" \notin excused /\ Is(n) = "unused"
      BY <1>2, <2>2 DEF Excuse
    <3>2. /\ \A q \in Requests : runs[q].at = "unlink" => n \notin runs[q].kept
          /\ \A q \in Requests : Dumping(q) => runs[q].kept # n
      BY <3>1, ArchivesHeld
    <3> QED
      BY <1>1, <1>2, <1>3, <1>5, <3>1, <3>2, WrittenKeeps
  <2> QED
    BY <2>1, <2>2
<1> QED
  BY <1>1, <1>3, <1>4, <1>6, <1>7, ArchivesMoves

\* It is written, or not: the file is the dump's own.
LEMMA DumpKeeps ==
    ASSUME HostInv, NEW r \in Requests, DumpEnds(r) \/ DumpFails(r), UNCHANGED apiVars
    PROVE  HostInv'
<1>1. /\ Active(r) /\ runs[r].op = "backup_create" /\ Dumping(r)
      /\ runs[r].at \in {"start", "dump", "unlink"} /\ runs[r].at # "unlink"
      /\ runs[r].kept \in Names
  BY HostShape DEF DumpEnds, DumpFails, At, Active, Holds, Dumping
<1>2. PICK x \in Run : Moves(r, x) /\ x.at \in {"verify", "done"}
  <2>1. CASE DumpEnds(r)
    <3>1. /\ "verify" \in Places \ {"none", "done"} /\ runs[r].kept \in Kept
          /\ Step(r, "verify", runs[r].kept)
      BY <1>1, <2>1, KeptHas DEF Places, DumpEnds
    <3> QED
      BY <1>1, <3>1, StepMoves
  <2>2. CASE DumpFails(r)
    BY <1>1, <2>2, EndMoves DEF DumpFails, Throw
  <2> QED
    BY <2>1, <2>2
<1>3. UNCHANGED <<firewall, layers, scheduled, prepared, excused>>
  BY DEF DumpEnds, DumpFails
<1>4. PICK k \in Names : k = runs[r].kept
  BY <1>1
<1>5. PICK f \in Files \ {"unused"} : Write(k, f)
  BY <1>4 DEF DumpEnds, DumpFails, Files
<1>6. /\ archives' \in [Names -> [is : Files, at : Nat]] /\ now' \in Nat /\ Ages'
  BY <1>3, <1>5, Written
<1>7. ArchivesInv'
  <2>1. CASE "archives" \in excused
    BY <1>3, <2>1 DEF ArchivesInv
  <2>2. CASE "archives" \notin excused
    <3>1. /\ Is(k) # "good"
          /\ \A q \in Requests : runs[q].at = "unlink" => k \notin runs[q].kept
          /\ \A q \in Requests \ {r} : Dumping(q) => runs[q].kept # k
      BY <1>1, <1>4, <2>2, ArchivesHeld
    <3>2. x.at # "dump" /\ x.at # "unlink"
      BY <1>2
    <3> QED
      BY <1>1, <1>2, <1>5, <2>2, <3>1, <3>2, WrittenKeeps
  <2> QED
    BY <2>1, <2>2
<1> QED
  BY <1>1, <1>2, <1>3, <1>6, <1>7, ArchivesMoves

\* The newest is a good one: it is newer than all good ones that this prune and the
\* others are going to remove.
LEMMA ListOldKeeps ==
    ASSUME HostInv, NEW r \in Requests, ListOld(r), UNCHANGED apiVars PROVE HostInv'
<1>1. /\ Active(r) /\ runs[r].op = "backup_prune" /\ runs[r].at = "start"
      /\ runs[r].at \in {"start", "dump", "unlink"} /\ runs[r].at \notin {"dump", "unlink"}
  BY DEF ListOld, At, Active
<1>2. UNCHANGED <<firewall, archives, now, layers, scheduled, prepared>>
  BY DEF ListOld
<1>3. Ages' /\ archives' \in [Names -> [is : Files, at : Nat]] /\ now' \in Nat
  <2>1. "archives" \in excused => "archives" \in excused'
    BY DEF ListOld, Excuse
  <2> QED
    BY <1>2, <2>1, HostShape DEF HostInv, Ages, Is
<1>4. CASE Done(r) /\ UNCHANGED excused
  <2>1. PICK x \in Run : Moves(r, x) /\ x.at = "done"
    BY <1>1, <1>4, EndMoves DEF Done
  <2>2. ArchivesInv'
    BY <1>1, <1>2, <1>4, <2>1, ArchivesAside
  <2> QED
    BY <1>1, <1>2, <1>3, <1>4, <2>1, <2>2, ArchivesMoves
<1>5. CASE \E newest \in Newest, cutoff \in 1..(now + 1) :
             /\ LET old == Removable(cutoff, newest)
                IN  IF old = {} THEN Done(r) ELSE Step(r, "unlink", old)
             /\ Excuse("archives", Is(newest) # "good")
  <2>1. PICK newest \in Newest, cutoff \in 1..(now + 1) :
             /\ IF Removable(cutoff, newest) = {} THEN Done(r)
                ELSE Step(r, "unlink", Removable(cutoff, newest))
             /\ Excuse("archives", Is(newest) # "good")
    BY <1>5
  <2>2. PICK old \in SUBSET Names :
             /\ old = Removable(cutoff, newest)
             /\ \A d \in old : d \in Listed /\ d \notin Writing /\ d # newest
    <3>1. Removable(cutoff, newest) \in SUBSET Names
      BY DEF Removable, Listed
    <3>2. \A d \in Removable(cutoff, newest) : d \in Listed /\ d \notin Writing /\ d # newest
      BY DEF Removable
    <3> QED
      BY <3>1, <3>2
  <2>3. excused' \in {excused, excused \cup {"archives"}}
    BY <2>1 DEF Excuse
  <2>4. PICK x \in Run : Moves(r, x) /\ (x.at = "done" \/ (x.at = "unlink" /\ x.kept = old))
    <3>1. CASE Done(r)
      BY <1>1, <3>1, EndMoves DEF Done
    <3>2. CASE Step(r, "unlink", old)
      <4>1. "unlink" \in Places \ {"none", "done"} /\ old \in Kept
        BY KeptHas DEF Places
      <4> QED
        BY <1>1, <3>2, <4>1, StepMoves
    <3> QED
      BY <2>1, <2>2, <3>1, <3>2
  <2>5. ArchivesInv'
    <3>1. CASE "archives" \in excused'
      BY <3>1 DEF ArchivesInv
    <3>2. CASE "archives" \notin excused'
      <4>1. "archives" \notin excused /\ Is(newest) = "good"
        BY <2>1, <3>2 DEF Excuse
      <4>2. /\ runs'[r] = x /\ \A q \in Requests \ {r} : runs'[q] = runs[q]
            /\ ~Dumping(r)
        BY <1>1, <2>4, Moved DEF Dumping
      <4>3. \A q \in Requests : Dumping(q)' => Dumping(q) /\ runs'[q] = runs[q]
        BY <2>4, <4>2 DEF Dumping
      <4>4. newest \in Names /\ newest \in Listed
        BY DEF Newest, Listed
      <4>5. \A e \in Listed : Is(e) = "good" => archives[e].at <= archives[newest].at
        BY <4>1, <4>4 DEF Newest
      <4>6. \A d \in old : Is(d) = "good" => archives[d].at < archives[newest].at
        <5> SUFFICES ASSUME NEW d \in old, Is(d) = "good" PROVE archives[d].at < archives[newest].at
          OBVIOUS
        <5>1. d \in Names /\ d # newest /\ archives[d].at <= archives[newest].at
          BY <2>2, <4>5
        <5>2. archives[d].at # archives[newest].at
          BY <4>1, <4>4, <5>1 DEF HostInv, Ages
        <5>3. archives[d].at \in Nat /\ archives[newest].at \in Nat
          BY <4>4, <5>1, HostShape
        <5> QED
          BY <5>1, <5>2, <5>3
      <4>7. PICK g \in Names : Spared(g)
        BY <4>1, ArchivesHeld
      <4>8. g \in Listed
        BY <4>7 DEF Spared, Listed
      <4>9. archives[g].at <= archives[newest].at
        BY <4>5, <4>7, <4>8 DEF Spared
      <4>10. \A q \in Requests : runs[q].at = "unlink" =>
                \A d \in runs[q].kept : Is(d) = "good" => archives[d].at < archives[newest].at
        <5> SUFFICES ASSUME NEW q \in Requests, runs[q].at = "unlink", NEW d \in runs[q].kept,
                            Is(d) = "good"
                     PROVE  archives[d].at < archives[newest].at
          OBVIOUS
        <5>1. d \in Names /\ archives[d].at < archives[g].at
          BY <4>1, <4>7, ArchivesHeld DEF Spared
        <5>2. archives[d].at \in Nat /\ archives[g].at \in Nat /\ archives[newest].at \in Nat
          BY <4>4, <5>1, HostShape
        <5> QED
          BY <4>9, <5>1, <5>2
      <4>11. Spared(newest)'
        <5>1. \A q \in Requests : runs'[q].at = "unlink" => \A d \in runs'[q].kept :
                 archives[d].is = "good" => archives[d].at < archives[newest].at
          BY <2>4, <4>2, <4>6, <4>10 DEF Is
        <5> QED
          BY <1>2, <4>1, <5>1 DEF Spared, Is
      <4>12. \A d \in old : Is(d) # "unused" /\ \A q \in Requests : Dumping(q) => runs[q].kept # d
        <5>1. \A q \in Requests : Dumping(q) => runs[q].kept \in Writing
          BY HostShape DEF Dumping, Writing, At, Holds
        <5> QED
          BY <2>2, <5>1 DEF Listed
      <4>13. (\A q \in Requests : runs[q].at = "unlink" =>
                 \A d \in runs[q].kept : /\ Is(d) # "unused"
                                         /\ \A p \in Requests : Dumping(p) => runs[p].kept # d)'
        <5> SUFFICES ASSUME NEW q \in Requests, runs'[q].at = "unlink", NEW d \in runs'[q].kept
                     PROVE  /\ Is(d) # "unused"
                            /\ \A p \in Requests : Dumping(p)' => runs'[p].kept # d
          BY <1>2 DEF Is
        <5>1. Is(d) # "unused" /\ \A p \in Requests : Dumping(p) => runs[p].kept # d
          BY <2>4, <4>1, <4>2, <4>12, ArchivesHeld
        <5> QED
          BY <4>3, <5>1
      <4>14. (\A q \in Requests : Dumping(q) => Is(runs[q].kept) = "partial")'
        BY <1>2, <4>1, <4>3, ArchivesHeld DEF Is
      <4>15. (\A q, p \in Requests :
                 Dumping(q) /\ Dumping(p) /\ runs[q].kept = runs[p].kept => q = p)'
        BY <4>1, <4>3, ArchivesHeld
      <4>16. (\E d \in Names : Spared(d))'
        BY <4>4, <4>11
      <4> QED
        BY <4>13, <4>14, <4>15, <4>16 DEF ArchivesInv
    <3> QED
      BY <3>1, <3>2
  <2> QED
    BY <1>1, <1>2, <1>3, <2>3, <2>4, <2>5, ArchivesMoves
<1> QED
  BY <1>4, <1>5 DEF ListOld

\* A file goes: it is older than the archive that is spared, or is not a good one.
LEMMA UnlinkKeeps ==
    ASSUME HostInv, NEW r \in Requests, Unlink(r), UNCHANGED apiVars PROVE HostInv'
<1>1. /\ Active(r) /\ runs[r].op = "backup_prune" /\ runs[r].at = "unlink"
      /\ runs[r].at \in {"start", "dump", "unlink"} /\ runs[r].kept \in SUBSET Names
  BY HostShape DEF Unlink, At, Active, Holds
<1>2. UNCHANGED <<firewall, now, layers, scheduled, prepared, excused>>
  BY DEF Unlink
<1>3. PICK k \in runs[r].kept :
         /\ archives' = [archives EXCEPT ![k].is = "gone"]
         /\ Throw(r) \/ Done(r) \/ Step(r, "unlink", runs[r].kept \ {k})
  BY DEF Unlink
<1>4. k \in Names /\ runs[r].kept \ {k} \in SUBSET Names
  BY <1>1
<1>5. PICK x \in Run : Moves(r, x) /\ \/ x.at = "done"
                                      \/ x.at = "unlink" /\ x.kept = runs[r].kept \ {k}
  <2>1. CASE Throw(r) \/ Done(r)
    BY <1>1, <2>1, EndMoves DEF Done, Throw
  <2>2. CASE Step(r, "unlink", runs[r].kept \ {k})
    <3>1. "unlink" \in Places \ {"none", "done"} /\ runs[r].kept \ {k} \in Kept
      BY <1>4, KeptHas DEF Places
    <3> QED
      BY <1>1, <1>4, <2>2, <3>1, StepMoves
  <2> QED
    BY <1>3, <2>1, <2>2
<1>6. /\ archives' \in [Names -> [is : Files, at : Nat]] /\ now' \in Nat
      /\ archives'[k].is = "gone" /\ \A n \in Names : archives'[n].at = archives[n].at
      /\ \A n \in Names \ {k} : archives'[n] = archives[n]
  <2> DEFINE v == [archives[k] EXCEPT !.is = "gone"]
  <2>1. v \in [is : Files, at : Nat] /\ v.is = "gone" /\ v.at = archives[k].at
    BY <1>4, HostShape DEF Files
  <2>2. archives' = [archives EXCEPT ![k] = v]
    BY <1>3, <1>4, HostShape
  <2> HIDE DEF v
  <2> QED
    BY <1>2, <1>4, <2>1, <2>2, HostShape
<1>7. Ages'
  <2>1. \A n \in Names : archives'[n].at <= now'
    BY <1>2, <1>6 DEF HostInv, Ages
  <2>2. "archives" \notin excused => \A m, n \in Names :
           m # n /\ archives'[m].is # "unused" /\ archives'[n].is # "unused"
             => archives'[m].at # archives'[n].at
    <3> HAVE "archives" \notin excused
    <3>1. Is(k) # "unused"
      BY <1>1, <1>3, ArchivesHeld
    <3> QED
      BY <1>6, <3>1 DEF HostInv, Ages, Is
  <2> QED
    BY <1>2, <2>1, <2>2 DEF Ages, Is
<1>8. ArchivesInv'
  <2>1. CASE "archives" \in excused
    BY <1>2, <2>1 DEF ArchivesInv
  <2>2. CASE "archives" \notin excused
    <3>1. runs'[r] = x /\ \A q \in Requests \ {r} : runs'[q] = runs[q]
      BY <1>5, Moved
    <3>2. \A q \in Requests : runs'[q].at = "unlink" =>
             runs[q].at = "unlink" /\ runs'[q].kept \subseteq runs[q].kept
      BY <1>1, <1>5, <3>1
    <3>3. \A q \in Requests : Dumping(q)' => Dumping(q) /\ runs'[q] = runs[q]
      BY <1>5, <3>1 DEF Dumping
    <3>4. \A q \in Requests : Dumping(q) => runs[q].kept \in Names \ {k}
      BY <1>1, <2>2, ArchivesHeld
    <3>5. (\A q \in Requests : Dumping(q) => Is(runs[q].kept) = "partial")'
      BY <1>6, <2>2, <3>3, <3>4, ArchivesHeld DEF Is
    <3>6. (\A q, p \in Requests :
              Dumping(q) /\ Dumping(p) /\ runs[q].kept = runs[p].kept => q = p)'
      BY <2>2, <3>3, ArchivesHeld
    <3>7. (\A q \in Requests : runs[q].at = "unlink" =>
              \A d \in runs[q].kept : /\ Is(d) # "unused"
                                      /\ \A p \in Requests : Dumping(p) => runs[p].kept # d)'
      <4> SUFFICES ASSUME NEW q \in Requests, runs'[q].at = "unlink", NEW d \in runs'[q].kept
                   PROVE  /\ archives'[d].is # "unused"
                          /\ \A p \in Requests : Dumping(p)' => runs'[p].kept # d
        BY DEF Is
      <4>1. d \in Names /\ archives[d].is # "unused"
            /\ \A p \in Requests : Dumping(p) => runs[p].kept # d
        BY <2>2, <3>2, ArchivesHeld DEF Is
      <4>2. archives'[d].is # "unused"
        BY <1>6, <4>1
      <4> QED
        BY <3>3, <4>1, <4>2
    <3>8. (\E g \in Names : Spared(g))'
      <4>1. PICK g \in Names : Spared(g)
        BY <2>2, ArchivesHeld
      <4>2. g # k
        <5> SUFFICES ASSUME g = k PROVE FALSE
          OBVIOUS
        <5>1. archives[g].at < archives[g].at /\ archives[g].at \in Nat
          BY <1>1, <1>3, <4>1, HostShape DEF Spared
        <5> QED
          BY <5>1
      <4>3. \A q \in Requests : runs'[q].at = "unlink" => \A d \in runs'[q].kept :
               archives'[d].is = "good" => archives'[d].at < archives'[g].at
        <5> SUFFICES ASSUME NEW q \in Requests, runs'[q].at = "unlink", NEW d \in runs'[q].kept,
                            archives'[d].is = "good"
                     PROVE  archives'[d].at < archives'[g].at
          OBVIOUS
        <5>1. d \in Names /\ d # k /\ runs[q].at = "unlink" /\ d \in runs[q].kept
          BY <1>6, <2>2, <3>2, ArchivesHeld
        <5> QED
          BY <1>6, <4>1, <4>2, <5>1 DEF Spared, Is
      <4> QED
        BY <1>6, <4>1, <4>2, <4>3 DEF Spared, Is
    <3> QED
      BY <3>5, <3>6, <3>7, <3>8 DEF ArchivesInv
  <2> QED
    BY <2>1, <2>2
<1> QED
  BY <1>1, <1>2, <1>5, <1>6, <1>7, <1>8, ArchivesMoves

-----------------------------------------------------------------------------
\* The service.
LEMMA ServiceMoves ==
    ASSUME HostInv, NEW r \in Requests, NEW x, Moves(r, x),
           UNCHANGED <<apiVars, firewall, archives, now, scheduled, prepared>>,
           layers' \in [LayerNames -> States],
           excused' \in {excused, excused \cup {"service"}},
           runs[r].at \in {"start", "act", "probe", "contain"},
           x.at \in {"act", "probe", "contain", "done"},
           ServiceInv'
    PROVE  HostInv'
<1>1. FirewallInv'
  BY FirewallAside DEF Halfway
<1>2. Ages' /\ ArchivesInv'
  BY ArchivesAside
<1>3. /\ firewall' \in Firewalls /\ archives' \in [Names -> [is : Files, at : Nat]] /\ now' \in Nat
      /\ excused' \subseteq {"firewall", "archives", "service"}
      /\ scheduled' \in {"nothing", "reboot", "shutdown"} /\ prepared' \subseteq Items
  BY DEF HostInv, TypeOK, HostTypeOK
<1> QED
  BY <1>1, <1>2, <1>3, MoveKeeps

\* The layer that is chosen: one that is seen running, before all others.
LEMMA ChosenIs ==
    ASSUME NEW seen
    PROVE  /\ Chosen(seen) \in LayerNames \cup {None}
           /\ (\E l \in LayerNames : seen[l] = "running") =>
                 Chosen(seen) \in LayerNames /\ seen[Chosen(seen)] = "running"
<1> DEFINE in(states) == {l \in LayerNames : seen[l] \in states}
           first(ls) == IF "systemd" \in ls THEN "systemd" ELSE "docker"
<1>1. Chosen(seen) = IF in({"running"}) # {} THEN first(in({"running"}))
                     ELSE IF in({"failed"}) # {} THEN first(in({"failed"}))
                     ELSE IF in({"stopped", "unknown"}) # {} THEN first(in({"stopped", "unknown"}))
                     ELSE None
  BY DEF Chosen
<1>2. \A ls : first(ls) \in LayerNames
  BY DEF LayerNames
<1>3. in({"running"}) # {} => first(in({"running"})) \in in({"running"})
  BY DEF LayerNames
<1>4. (\E l \in LayerNames : seen[l] = "running") => in({"running"}) # {}
  OBVIOUS
<1>5. \A l \in in({"running"}) : seen[l] = "running"
  OBVIOUS
<1> HIDE DEF in, first
<1> QED
  BY <1>1, <1>2, <1>3, <1>4, <1>5

\* What is said of the service while r alone is about to act, or nobody is.
LEMMA ServiceGoesOn ==
    ASSUME HostInv, NEW r \in Requests, NEW x, Moves(r, x),
           x.at \in {"act", "probe", "contain", "done"},
           "service" \notin excused' =>
               /\ \A q \in Requests \ {r} : ~Acting(q)
               /\ \E l \in LayerNames : ~Alive(l)'
               /\ x.at # "done" =>
                     \A l \in LayerNames : Alive(l)' => x.at = "act" /\ l = x.kept
    PROVE  ServiceInv'
<1>1. runs'[r] = x /\ \A q \in Requests \ {r} : runs'[q] = runs[q]
  BY Moved
<1>2. CASE "service" \in excused'
  BY <1>2 DEF ServiceInv
<1>3. CASE "service" \notin excused'
  <2>1. \A q \in Requests : Acting(q)' => q = r /\ x.at # "done"
    BY <1>1, <1>3 DEF Acting
  <2>2. \A q \in Requests : Acting(q)' => \A l \in Others(q)' : ~Alive(l)'
    BY <1>1, <1>3, <2>1 DEF Others
  <2> QED
    BY <1>3, <2>1, <2>2 DEF ServiceInv
<1> QED
  BY <1>2, <1>3

LEMMA ReportKeeps ==
    ASSUME HostInv, NEW r \in Requests, Report(r), UNCHANGED apiVars PROVE HostInv'
<1>1. /\ Active(r) /\ runs[r].op \in ServiceOps /\ runs[r].at = "start"
      /\ runs[r].at \in {"start", "act", "probe", "contain"}
  BY DEF Report, At, Active
<1>2. UNCHANGED <<firewall, archives, now, layers, scheduled, prepared>>
      /\ excused' \in {excused, excused \cup {"service"}}
  BY DEF Report, Excuse
<1>3. PICK seen \in Probes :
          /\ IF Chosen(seen) # None THEN Step(r, "act", Chosen(seen))
             ELSE IF runs[r].op = "service_start" THEN Step(r, "probe", None) ELSE Throw(r)
          /\ Excuse("service", \/ Beside(r) # {}
                               \/ \E l \in LayerNames : Alive(l) /\ seen[l] # "running")
  BY DEF Report
<1>4. PICK x \in Run : /\ Moves(r, x) /\ x.at \in {"act", "probe", "done"}
                       /\ x.at = "act" => x.kept = Chosen(seen)
                       /\ x.at = "probe" => Chosen(seen) = None
  <2>1. CASE Chosen(seen) # None
    <3>1. /\ "act" \in Places \ {"none", "done"} /\ Chosen(seen) \in LayerNames
          /\ Chosen(seen) \in Kept /\ Step(r, "act", Chosen(seen))
      BY <1>3, <2>1, ChosenIs, KeptHas DEF Places
    <3> QED
      BY <1>1, <3>1, StepMoves
  <2>2. CASE Chosen(seen) = None /\ Step(r, "probe", None)
    <3>1. "probe" \in Places \ {"none", "done"} /\ None \in Kept
      BY KeptHas DEF Places
    <3> QED
      BY <1>1, <2>2, <3>1, StepMoves
  <2>3. CASE Chosen(seen) = None /\ Throw(r)
    BY <1>1, <2>3, EndMoves DEF Throw
  <2> QED
    BY <1>3, <2>1, <2>2, <2>3
<1>5. ServiceInv'
  <2>1. ASSUME "service" \notin excused'
        PROVE  /\ \A q \in Requests \ {r} : ~Acting(q)
               /\ \E l \in LayerNames : ~Alive(l)
               /\ x.at # "done" =>
                     \A l \in LayerNames : Alive(l) => x.at = "act" /\ l = x.kept
    <3>1. /\ Beside(r) = {} /\ "service" \notin excused
          /\ \A l \in LayerNames : Alive(l) => seen[l] = "running"
      BY <1>3, <2>1 DEF Excuse
    <3>2. ASSUME NEW q \in Requests \ {r}, Acting(q) PROVE FALSE
      <4>1. runs[q].op \in ServiceOps /\ Active(q)
        BY <3>2, HostShape DEF Holds, Acting, Active
      <4>2. q \in Beside(r)
        BY <1>1, <4>1, SubjectOf DEF Beside
      <4> QED
        BY <3>1, <4>2
    <3>3. PICK m \in LayerNames : ~Alive(m)
      BY <3>1 DEF HostInv, ServiceInv
    <3>4. ASSUME NEW l \in LayerNames, seen[l] = "running" PROVE Alive(l)
      BY <3>4 DEF Probes, Reported, Alive
    <3>5. ASSUME x.at # "done", NEW l \in LayerNames, Alive(l) PROVE x.at = "act" /\ l = x.kept
      <4>1. Chosen(seen) \in LayerNames /\ Alive(Chosen(seen))
        BY <3>1, <3>4, <3>5, ChosenIs
      <4>2. x.at = "act" /\ x.kept = Chosen(seen)
        BY <1>4, <3>5, <4>1, NoneAssumption
      <4>3. Chosen(seen) = l
        BY <3>3, <3>5, <4>1 DEF LayerNames
      <4> QED
        BY <4>2, <4>3
    <3> QED
      BY <3>2, <3>3, <3>5
  <2>2. \A l \in LayerNames : Alive(l)' <=> Alive(l)
    BY <1>2 DEF Alive
  <2> QED
    BY <1>4, <2>1, <2>2, ServiceGoesOn
<1>6. layers' \in [LayerNames -> States]
  BY <1>2, HostShape
<1> QED
  BY <1>1, <1>2, <1>4, <1>5, <1>6, ServiceMoves

\* The one request that is about to act.
LEMMA OneActs ==
    ASSUME HostInv, NEW r \in Requests, Acting(r), "service" \notin excused
    PROVE  /\ \A q \in Requests \ {r} : ~Acting(q)
           /\ \A l \in Others(r) : ~Alive(l)
  BY DEF HostInv, ServiceInv

\* It acts on k, beside which none is alive.
LEMMA ActsOn ==
    ASSUME HostInv, NEW r \in Requests, Acting(r), NEW x, Moves(r, x), x.at = "done",
           UNCHANGED excused, NEW k \in LayerNames, runs[r].at = "act" => runs[r].kept = k,
           NEW s \in States, SetLayer(k, s)
    PROVE  ServiceInv' /\ layers' \in [LayerNames -> States]
<1>1. /\ layers' \in [LayerNames -> States]
      /\ \A l \in LayerNames \ {k} : layers'[l] = layers[l]
  BY HostShape DEF SetLayer
<1>2. ASSUME "service" \notin excused
      PROVE  (\A q \in Requests \ {r} : ~Acting(q)) /\ \E l \in LayerNames : ~Alive(l)'
  <2>1. PICK l \in LayerNames : l # k
    BY DEF LayerNames
  <2>2. l \in Others(r)
    BY <2>1 DEF Others
  <2>3. ~Alive(l)'
    BY <1>1, <1>2, <2>1, <2>2, OneActs DEF Alive
  <2> QED
    BY <1>2, <2>3, OneActs
<1>3. ServiceInv'
  BY <1>2, ServiceGoesOn
<1> QED
  BY <1>1, <1>3

LEMMA WantedIs ==
    ASSUME HostInv, NEW op, NEW l \in LayerNames
    PROVE  Wanted(op, l) \in States /\ layers[l] \in States /\ "failed" \in States
<1>1. layers[l] \in States
  BY HostShape
<1>2. "stopped" \in States /\ "running" \in States /\ "failed" \in States
  BY DEF States
<1> QED
  BY <1>1, <1>2 DEF Wanted

LEMMA ActKeeps ==
    ASSUME HostInv, NEW r \in Requests, Act(r), UNCHANGED apiVars PROVE HostInv'
<1>1. /\ Active(r) /\ Acting(r) /\ runs[r].at = "act"
      /\ runs[r].at \in {"start", "act", "probe", "contain"} /\ runs[r].kept \in LayerNames
  BY HostShape DEF Act, At, Active, Holds, Acting
<1>2. UNCHANGED <<firewall, archives, now, scheduled, prepared, excused>>
  BY DEF Act
<1>3. PICK x \in Run : Moves(r, x) /\ x.at = "done"
  BY <1>1, EndMoves DEF Act, Done, Throw
<1>4. PICK k \in LayerNames : k = runs[r].kept
  BY <1>1
<1>5. PICK s \in States : SetLayer(k, s)
  BY <1>4, WantedIs DEF Act
<1>6. ServiceInv' /\ layers' \in [LayerNames -> States]
  BY <1>1, <1>2, <1>3, <1>4, <1>5, ActsOn
<1> QED
  BY <1>1, <1>2, <1>3, <1>6, ServiceMoves

LEMMA StartKeeps ==
    ASSUME HostInv, NEW r \in Requests, StartUnit(r) \/ StartContainer(r), UNCHANGED apiVars
    PROVE  HostInv'
<1>1. /\ Active(r) /\ Acting(r) /\ runs[r].at \in {"probe", "contain"} /\ runs[r].op \in ServiceOps
      /\ runs[r].at \in {"start", "act", "probe", "contain"}
  BY HostShape DEF StartUnit, StartContainer, At, Active, Holds, Acting
<1>2. UNCHANGED <<firewall, archives, now, scheduled, prepared, excused>>
  BY DEF StartUnit, StartContainer
<1>3. CASE UNCHANGED layers
  <2>1. PICK x \in Run : Moves(r, x) /\ x.at \in {"contain", "done"}
    <3>1. CASE Step(r, "contain", None)
      <4>1. "contain" \in Places \ {"none", "done"} /\ None \in Kept
        BY KeptHas DEF Places
      <4> QED
        BY <1>1, <3>1, <4>1, StepMoves
    <3>2. CASE Throw(r) \/ Done(r)
      BY <1>1, <3>2, EndMoves DEF Throw, Done
    <3> QED
      BY <3>1, <3>2 DEF StartUnit, StartContainer
  <2>2. \A l \in LayerNames : Alive(l)' <=> Alive(l)
    BY <1>3 DEF Alive
  <2>3. ASSUME "service" \notin excused
        PROVE  (\A q \in Requests \ {r} : ~Acting(q)) /\ \A l \in LayerNames : ~Alive(l)
    BY <1>1, <2>3, OneActs DEF Others
  <2>4. ServiceInv'
    BY <1>2, <2>1, <2>2, <2>3, ServiceGoesOn DEF LayerNames
  <2>5. layers' \in [LayerNames -> States]
    BY <1>3, HostShape
  <2> QED
    BY <1>1, <1>2, <2>1, <2>4, <2>5, ServiceMoves
<1>4. CASE layers' # layers
  <2>1. PICK k \in LayerNames, s \in States : SetLayer(k, s) /\ (Throw(r) \/ Done(r))
    <3>1. "systemd" \in LayerNames /\ "docker" \in LayerNames
      BY DEF LayerNames
    <3>2. CASE StartUnit(r)
      BY <1>4, <3>1, <3>2, WantedIs DEF StartUnit
    <3>3. CASE StartContainer(r)
      BY <1>4, <3>1, <3>3, WantedIs DEF StartContainer
    <3> QED
      BY <3>2, <3>3
  <2>2. PICK x \in Run : Moves(r, x) /\ x.at = "done"
    BY <1>1, <2>1, EndMoves DEF Done, Throw
  <2>3. ServiceInv' /\ layers' \in [LayerNames -> States]
    BY <1>1, <1>2, <2>1, <2>2, ActsOn
  <2> QED
    BY <1>1, <1>2, <2>2, <2>3, ServiceMoves
<1> QED
  BY <1>3, <1>4

-----------------------------------------------------------------------------
\* What happens around the executions.
LEMMA AroundKeeps ==
    ASSUME HostInv, UNCHANGED <<runs, firewall, archives, now, scheduled, apiVars>>,
           layers' \in [LayerNames -> States], prepared' \subseteq Items,
           excused' \in {excused, excused \cup {"service"}}, ServiceInv'
    PROVE  HostInv'
<1>1. /\ TypeOK /\ runs \in [Requests -> Run] /\ \A r \in Requests : Holds(runs[r])
      /\ steps \in Marks /\ FirewallInv /\ Ages /\ ArchivesInv /\ ApiInv
  BY DEF HostInv
<1>2. UNCHANGED <<calls, records, steps, unwritten, cut>>
  BY DEF apiVars
<1>3. TypeOK'
  BY <1>1, <1>2 DEF TypeOK, HostTypeOK
<1>4. FirewallInv'
  BY <1>1 DEF FirewallInv, Halfway
<1>5. Ages' /\ ArchivesInv'
  BY <1>1 DEF Ages, ArchivesInv, Spared, Dumping, Is
<1>6. ApiInv'
  BY <1>1, <1>2 DEF ApiInv, CallOf, EndedWell, WasReady
<1>7. steps' \in Marks
  BY <1>1, <1>2 DEF Marks
<1> QED
  BY <1>1, <1>3, <1>4, <1>5, <1>6, <1>7 DEF HostInv

LEMMA LayerChangesKeeps ==
    ASSUME HostInv, NEW l \in LayerNames, LayerChanges(l), UNCHANGED apiVars PROVE HostInv'
<1>1. /\ UNCHANGED <<runs, firewall, archives, now, scheduled, prepared>>
      /\ excused' \in {excused, excused \cup {"service"}}
  BY DEF LayerChanges, Excuse
<1>2. PICK s \in {"failed", "unhealthy", "running"} :
         layers' = [layers EXCEPT ![l] = s] /\ (Alive(l) \/ layers[l] = "failed")
  <2>1. CASE layers[l] = "running"
    BY <2>1 DEF LayerChanges, Alive, SetLayer
  <2>2. CASE layers[l] = "unhealthy"
    BY <2>2 DEF LayerChanges, Alive, SetLayer
  <2>3. CASE layers[l] = "failed"
    BY <2>3 DEF LayerChanges, SetLayer
  <2>4. CASE layers[l] \notin {"running", "unhealthy", "failed"}
    BY <2>4 DEF LayerChanges
  <2> QED
    BY <2>1, <2>2, <2>3, <2>4
<1>3. /\ layers' \in [LayerNames -> States]
      /\ \A m \in LayerNames \ {l} : layers'[m] = layers[m]
  <2>1. s \in States
    BY DEF States
  <2> QED
    BY <1>2, <2>1, HostShape
<1>4. ServiceInv'
  <2>1. CASE "service" \in excused'
    BY <2>1 DEF ServiceInv
  <2>2. CASE "service" \notin excused'
    <3>1. /\ "service" \notin excused
          /\ \A r \in Requests : ~(runs[r].op \in ServiceOps /\ Active(r))
          /\ layers[l] = "failed" => \A m \in LayerNames : ~Alive(m)
      BY <2>2 DEF LayerChanges, Excuse
    <3>2. \A r \in Requests : ~Acting(r)
      BY <3>1, HostShape DEF Acting, Active, Holds
    <3>3. PICK m \in LayerNames : ~Alive(m)
      BY <3>1 DEF HostInv, ServiceInv
    <3>4. \E n \in LayerNames : ~Alive(n)'
      <4>1. CASE m # l
        BY <1>3, <3>3, <4>1 DEF Alive
      <4>2. CASE m = l
        <5>1. \A n \in LayerNames : ~Alive(n)
          BY <1>2, <3>1, <3>3, <4>2
        <5>2. PICK n \in LayerNames : n # l
          BY DEF LayerNames
        <5> QED
          BY <1>3, <5>1, <5>2 DEF Alive
      <4> QED
        BY <4>1, <4>2
    <3>5. \A r \in Requests : ~Acting(r)'
      BY <1>1, <3>2 DEF Acting
    <3> QED
      BY <3>4, <3>5 DEF ServiceInv
  <2> QED
    BY <2>1, <2>2
<1>5. prepared' \subseteq Items
  BY <1>1 DEF HostInv, TypeOK, HostTypeOK
<1> QED
  BY <1>1, <1>3, <1>4, <1>5, AroundKeeps

LEMMA UndoKeeps ==
    ASSUME HostInv, NEW i \in Items, Undo(i), UNCHANGED apiVars PROVE HostInv'
<1>1. /\ UNCHANGED <<runs, firewall, archives, now, layers, scheduled, excused>>
      /\ prepared' = prepared \ {i}
  BY DEF Undo
<1>2. ServiceInv'
  BY <1>1 DEF HostInv, ServiceInv, Acting, Alive, Others
<1>3. layers' \in [LayerNames -> States] /\ prepared' \subseteq Items
  BY <1>1 DEF HostInv, TypeOK, HostTypeOK
<1> QED
  BY <1>1, <1>2, <1>3, AroundKeeps

\* The agent stops: what was under way is lost, what was answered stays.
LEMMA LosesRuns ==
    ASSUME HostInv, LoseRuns
    PROVE  /\ runs' \in [Requests -> Run] /\ \A q \in Requests : Holds(runs'[q])
           /\ \A q \in Requests : \/ runs'[q] = runs[q] /\ runs[q].at \in {"none", "done", "lost"}
                                  \/ /\ runs'[q].at = "lost" /\ runs'[q].op = runs[q].op
                                     /\ Active(q)
<1>1. \A q \in Requests : runs'[q] = IF Active(q) THEN [NoRun EXCEPT !.op = runs[q].op, !.at = "lost"]
                                     ELSE runs[q]
  BY DEF LoseRuns
<1>2. \A q \in Requests : \/ runs'[q] = runs[q] /\ runs[q].at \in {"none", "done", "lost"}
                          \/ /\ runs'[q].at = "lost" /\ runs'[q].op = runs[q].op
                             /\ Active(q)
  BY <1>1 DEF Active, NoRun
<1>3. \A op \in Operations \cup {None} : [NoRun EXCEPT !.op = op, !.at = "lost"] \in Run
  <2>1. None \in Kept /\ "lost" \in Places
    BY KeptHas DEF Places
  <2> QED
    BY <2>1 DEF NoRun, Run
<1>4. \A q \in Requests : runs[q] \in Run /\ runs[q].op \in Operations \cup {None}
  BY HostShape DEF Run
<1>5. \A q \in Requests : runs'[q] \in Run
  BY <1>1, <1>3, <1>4
<1>6. runs' \in [Requests -> Run]
  BY <1>5 DEF LoseRuns
<1>7. \A q \in Requests : Holds(runs'[q])
  <2> TAKE q \in Requests
  <2>1. CASE runs'[q] = runs[q]
    BY <2>1, HostShape
  <2>2. CASE runs'[q].at = "lost"
    BY <2>2 DEF Holds
  <2> QED
    BY <1>2, <2>1, <2>2
<1> QED
  BY <1>2, <1>6, <1>7

LEMMA StopKeeps ==
    ASSUME HostInv, AgentStops \/ Reboot, UNCHANGED apiVars PROVE HostInv'
<1>1. /\ UNCHANGED <<archives, now, layers, prepared>> /\ LoseRuns
      /\ excused' \in {excused, excused \cup {"firewall"}}
  BY DEF AgentStops, Reboot, Excuse
<1>2. /\ runs' \in [Requests -> Run] /\ \A q \in Requests : Holds(runs'[q])
      /\ \A q \in Requests : \/ runs'[q] = runs[q] /\ runs[q].at \in {"none", "done", "lost"}
                             \/ /\ runs'[q].at = "lost" /\ runs'[q].op = runs[q].op
                                /\ Active(q)
  BY <1>1, LosesRuns
<1>3. UNCHANGED <<calls, records, steps, unwritten, cut>>
  BY DEF apiVars
<1>4. FirewallInv' /\ firewall' \in Firewalls
  <2>1. firewall' = [firewall EXCEPT !.loaded = firewall.rules] \/ firewall' = firewall
    BY DEF AgentStops, Reboot
  <2>2. PICK a \in Rules, b \in Rules \cup {Unset}, c \in Rules \cup {Unset} :
            firewall = [state |-> a, rules |-> b, loaded |-> c]
    BY HostShape DEF Firewalls
  <2>3. firewall' = [state |-> a, rules |-> b, loaded |-> b] \/ firewall' = firewall
    BY <2>1, <2>2
  <2>4. firewall' \in Firewalls
    BY <2>2, <2>3 DEF Firewalls
  <2>5. CASE "firewall" \in excused'
    BY <2>4, <2>5 DEF FirewallInv
  <2>6. CASE "firewall" \notin excused'
    <3>1. "firewall" \notin excused /\ Changing = {}
      BY <2>6 DEF AgentStops, Reboot, Excuse
    <3>2. \A q \in Requests : ~Halfway(q)
      BY <3>1, ChangingIs
    <3>3. firewall.loaded = firewall.state /\ firewall.rules = firewall.state
      BY <3>1, <3>2 DEF HostInv, FirewallInv
    <3>4. firewall'.loaded = firewall'.state /\ firewall'.rules = firewall'.state
      BY <2>2, <2>3, <3>3
    <3>5. \A q \in Requests : runs'[q].at \notin {"rules", "load", "save"}
      BY <1>2
    <3> QED
      BY <2>4, <3>4, <3>5 DEF FirewallInv, Halfway
  <2> QED
    BY <2>4, <2>5, <2>6
<1>5. Ages' /\ ArchivesInv'
  <2>1. \A q \in Requests : runs'[q].at \notin {"dump", "unlink"}
    BY <1>2
  <2>2. "archives" \in excused \/ \E g \in Names : Is(g) = "good"
    BY DEF HostInv, ArchivesInv, Spared
  <2>3. Ages'
    BY <1>1 DEF HostInv, Ages, Is
  <2> QED
    BY <1>1, <2>1, <2>2, <2>3 DEF ArchivesInv, Spared, Dumping, Is
<1>6. ServiceInv'
  <2>1. \A q \in Requests : ~Acting(q)'
    BY <1>2 DEF Acting
  <2> QED
    BY <1>1, <2>1 DEF HostInv, ServiceInv, Alive
<1>7. ApiInv'
  <2>1. \A q \in Requests : /\ runs'[q].at = "none" <=> runs[q].at = "none"
                            /\ runs'[q].op = runs[q].op
                            /\ runs[q].at = "done" => runs'[q] = runs[q]
    BY <1>2 DEF Active
  <2>2. \A q \in Requests : EndedWell(q) => EndedWell(q)' /\ runs'[q] = runs[q]
                                             /\ (WasReady(q) => WasReady(q)')
    BY <2>1 DEF EndedWell, WasReady
  <2>3. \A q \in Requests : CallOf(q)'
    BY <1>3, <2>1, <2>2 DEF HostInv, ApiInv, CallOf
  <2> QED
    BY <1>3, <2>2, <2>3 DEF HostInv, ApiInv, WasReady
<1>8. TypeOK'
  <2>1. scheduled' \in {"nothing", "reboot", "shutdown"}
    BY DEF AgentStops, Reboot, HostInv, TypeOK, HostTypeOK
  <2>2. HostTypeOK'
    BY <1>1, <1>2, <1>4, <2>1 DEF HostInv, TypeOK, HostTypeOK, Run
  <2> QED
    BY <1>3, <2>2 DEF HostInv, TypeOK
<1>9. steps' \in Marks
  BY <1>3 DEF HostInv, Marks
<1> QED
  BY <1>2, <1>4, <1>5, <1>6, <1>7, <1>8, <1>9 DEF HostInv

-----------------------------------------------------------------------------
\* The API's part.
LEMMA ApiShape ==
    ASSUME HostInv
    PROVE  /\ calls \in [Requests -> Call] /\ records \in [Requests -> Records]
           /\ steps \in Marks
           /\ unwritten \subseteq Requests /\ cut \subseteq Requests
           /\ \A r \in Requests : CallOf(r)
           /\ \A s \in SetupSteps : steps[s].status = "completed" =>
                 steps[s].by \in Requests /\ WasReady(steps[s].by)
  BY DEF HostInv, TypeOK, ApiInv, Records

\* An execution that begins, or whose answer is read: the host's part holds.
LEMMA RunsAside ==
    ASSUME HostInv, UNCHANGED hostVars, NEW r \in Requests, NEW x \in Run, Holds(x),
           runs' = [runs EXCEPT ![r] = x], runs[r].at \notin Special, x.at \notin Special
    PROVE  /\ runs' \in [Requests -> Run] /\ runs'[r] = x /\ \A q \in Requests : Holds(runs'[q])
           /\ \A q \in Requests \ {r} : runs'[q] = runs[q]
           /\ HostTypeOK' /\ FirewallInv' /\ Ages' /\ ArchivesInv' /\ ServiceInv'
<1>1. /\ runs' \in [Requests -> Run] /\ runs'[r] = x
      /\ \A q \in Requests \ {r} : runs'[q] = runs[q]
  BY HostShape
<1>2. \A q \in Requests : Holds(runs'[q])
  BY <1>1, HostShape
<1>3. /\ UNCHANGED <<firewall, archives, now, layers, scheduled, prepared, excused>>
  BY DEF hostVars
<1>4. HostTypeOK'
  BY <1>1, <1>3 DEF HostInv, TypeOK, HostTypeOK, Run
<1>5. \A q \in Requests : /\ runs[q].at \in Special => runs'[q] = runs[q]
                          /\ runs'[q].at \in Special => runs'[q] = runs[q]
  BY <1>1
<1>6. FirewallInv'
  <2>1. \A q \in Requests : /\ Halfway(q)' <=> Halfway(q)
                            /\ Halfway(q) => runs'[q] = runs[q]
                            /\ runs'[q].at \in {"rules", "load", "save"} => runs'[q] = runs[q]
    BY <1>5 DEF Halfway, Special
  <2> QED
    BY <1>3, <2>1 DEF HostInv, FirewallInv, Halfway
<1>7. Ages' /\ ArchivesInv'
  <2>0. \A q \in Requests : /\ Dumping(q)' <=> Dumping(q)
                            /\ runs'[q].at = "unlink" <=> runs[q].at = "unlink"
                            /\ runs'[q].at \in {"dump", "unlink"} => runs'[q] = runs[q]
    BY <1>5 DEF Dumping, Special
  <2>1. \A d \in Names : Spared(d) => Spared(d)'
    BY <1>3, <2>0 DEF Spared, Is
  <2>2. Ages'
    BY <1>3 DEF HostInv, Ages, Is
  <2>3. CASE "archives" \in excused
    BY <1>3, <2>2, <2>3 DEF ArchivesInv
  <2>4. CASE "archives" \notin excused
    <3>1. (\A q \in Requests : Dumping(q) => Is(runs[q].kept) = "partial")'
      BY <1>3, <2>0, <2>4 DEF HostInv, ArchivesInv, Is, Dumping
    <3>2. (\A q, p \in Requests :
              Dumping(q) /\ Dumping(p) /\ runs[q].kept = runs[p].kept => q = p)'
      BY <2>0, <2>4 DEF HostInv, ArchivesInv, Dumping
    <3>3. (\A q \in Requests : runs[q].at = "unlink" =>
              \A d \in runs[q].kept : /\ Is(d) # "unused"
                                      /\ \A p \in Requests : Dumping(p) => runs[p].kept # d)'
      BY <1>3, <2>0, <2>4 DEF HostInv, ArchivesInv, Dumping, Is
    <3>4. (\E d \in Names : Spared(d))'
      BY <2>1, <2>4 DEF HostInv, ArchivesInv
    <3> QED
      BY <2>2, <3>1, <3>2, <3>3, <3>4 DEF ArchivesInv
  <2> QED
    BY <2>3, <2>4
<1>8. ServiceInv'
  <2>1. \A q \in Requests : Acting(q)' => Acting(q) /\ runs'[q] = runs[q]
    BY <1>5 DEF Acting, Special
  <2>2. \A l \in LayerNames : Alive(l)' <=> Alive(l)
    BY <1>3 DEF Alive
  <2>3. \A q \in Requests : Acting(q)' => Others(q)' = Others(q)
    BY <2>1 DEF Others
  <2>4. \A q \in Requests : Acting(q)' => \A l \in Others(q)' : Alive(l)' => Alive(l)
    BY <2>2, <2>3 DEF Others
  <2> QED
    BY <1>3, <2>1, <2>2, <2>3, <2>4 DEF HostInv, ServiceInv
<1> QED
  BY <1>1, <1>2, <1>4, <1>6, <1>7, <1>8

\* What is written of a call: nothing, or a record; it says "succeeded" of what did.
Recorded(r) ==
    /\ records' \in {records} \cup {[records EXCEPT ![r] = v] : v \in Records}
    /\ records'[r].status = "succeeded" =>
          r \in cut' \/ (EndedWell(r) /\ runs[r].code = records'[r].code)
\* The steps say "completed" of what was ready.
Marked ==
    /\ steps' \in Marks
    /\ \A s \in SetupSteps : steps'[s].status = "completed" =>
          steps'[s].by \in Requests /\ WasReady(steps'[s].by)

\* A step of the API that leaves the host and the executions alone.
LEMMA ApiMoves ==
    ASSUME HostInv, UNCHANGED <<runs, hostVars>>, calls' \in [Requests -> Call],
           records' \in [Requests -> Records], Marked,
           unwritten' \subseteq Requests, cut' \subseteq Requests,
           \A q \in Requests : CallOf(q)'
    PROVE  HostInv'
<1>1. /\ UNCHANGED <<firewall, archives, now, layers, scheduled, prepared, excused>>
  BY DEF hostVars
<1>2. TypeOK'
  <2>1. \A s \in SetupSteps : steps'[s].status \in Statuses
    BY DEF Marked, Marks
  <2> QED
    BY <1>1, <2>1 DEF HostInv, TypeOK, HostTypeOK, Records, Statuses
<1>3. FirewallInv'
  BY <1>1 DEF HostInv, FirewallInv, Halfway
<1>4. Ages' /\ ArchivesInv'
  BY <1>1 DEF HostInv, Ages, ArchivesInv, Spared, Dumping, Is
<1>5. ServiceInv'
  BY <1>1 DEF HostInv, ServiceInv, Acting, Alive, Others
<1>6. ApiInv'
  BY DEF ApiInv, EndedWell, WasReady, Marked
<1> QED
  BY <1>2, <1>3, <1>4, <1>5, <1>6 DEF HostInv, Marked

\* Of one call, which becomes c.
LEMMA CallMoves ==
    ASSUME HostInv, UNCHANGED <<runs, hostVars>>, NEW r \in Requests, NEW c \in Call, Put(r, c),
           Recorded(r), Marked,
           unwritten' \in {unwritten, unwritten \cup {r}}, cut' \in {cut, cut \cup {r}},
           c.at \in {"idle", "guard", "begin", "send"} => runs[r].at = "none",
           runs[r].at # "none" => runs[r].op = c.op,
           c.at = "step" => c.kind = "setup",
           r \in cut' => c.kind # "setup" /\ c.at # "idle",
           c.outcome = "succeeded" =>
               r \in cut' \/ (EndedWell(r) /\ runs[r].code = c.code /\ runs[r].ready = c.ready)
    PROVE  HostInv'
<1>1. /\ calls' \in [Requests -> Call] /\ calls'[r] = c
      /\ \A q \in Requests \ {r} : calls'[q] = calls[q]
  BY ApiShape DEF Put
<1>2. /\ records' \in [Requests -> Records]
      /\ \A q \in Requests \ {r} : records'[q] = records[q]
  <2>1. CASE records' = records
    BY <2>1, ApiShape
  <2>2. CASE \E v \in Records : records' = [records EXCEPT ![r] = v]
    BY <2>2, ApiShape
  <2> QED
    BY <2>1, <2>2 DEF Recorded
<1>3. unwritten' \subseteq Requests /\ cut' \subseteq Requests
  BY ApiShape
<1>4. \A q \in Requests \ {r} : q \in cut' <=> q \in cut
  OBVIOUS
<1>5. CallOf(r)'
  BY <1>1 DEF CallOf, EndedWell, Recorded
<1>6. \A q \in Requests \ {r} : CallOf(q)'
  BY <1>1, <1>2, <1>4, ApiShape DEF CallOf, EndedWell
<1> QED
  BY <1>1, <1>2, <1>3, <1>5, <1>6, ApiMoves

\* Nothing is written: what held of the record and of the steps still does.
LEMMA Unwritten ==
    ASSUME HostInv, NEW r \in Requests, UNCHANGED records, cut \subseteq cut' PROVE Recorded(r)
  BY ApiShape DEF CallOf, Recorded

LEMMA Unmarked == ASSUME HostInv, UNCHANGED steps PROVE Marked
  BY ApiShape DEF Marked

\* A step is marked, or its outcome written.
LEMMA StepPut ==
    ASSUME HostInv, NEW r \in Requests, NEW step, NEW status \in Statuses,
           status = "completed" => WasReady(r),
           \/ steps' = [steps EXCEPT ![step] = [status |-> status, by |-> r]]
           \/ UNCHANGED steps
    PROVE  Marked
<1> DEFINE v == [status |-> status, by |-> r]
<1>1. /\ v.status = status /\ v.by = r
      /\ v \in [status : Statuses, by : Requests \cup {None}]
  OBVIOUS
<1>2. \/ steps' = [steps EXCEPT ![step] = v]
      \/ UNCHANGED steps
  OBVIOUS
<1> HIDE DEF v
<1>3. steps' \in Marks
  BY <1>1, <1>2, ApiShape DEF Marks
<1>4. \A s \in SetupSteps : steps'[s] = v \/ steps'[s] = steps[s]
  BY <1>2, ApiShape DEF Marks
<1>5. \A s \in SetupSteps : steps'[s].status = "completed" =>
                 steps'[s].by \in Requests /\ WasReady(steps'[s].by)
  BY <1>1, <1>4, ApiShape
<1> QED
  BY <1>3, <1>5 DEF Marked

LEMMA OpsAre ==
    /\ Readings \subseteq Operations /\ Audited \subseteq Operations
    /\ SetupOps \subseteq Operations /\ ShellOps \subseteq Operations
    /\ AgentOps \subseteq Operations
<1>1. RouteOps \subseteq Operations
  BY DEF RouteOps
<1>2. Readings \subseteq Operations /\ Audited \subseteq Operations
  BY <1>1 DEF Readings, Audited
<1>3. SetupOps \subseteq Operations
  BY DEF SetupOps, Operations, FirewallOps
<1>4. ShellOps \subseteq Operations
  BY DEF ShellOps, Operations
<1>5. AgentOps \subseteq Operations
  BY DEF AgentOps
<1> QED
  BY <1>2, <1>3, <1>4, <1>5

\* A call that is made, and nothing is known of it yet.
LEMMA ArrivedIs ==
    ASSUME HostInv, NEW r \in Requests, NEW op \in Operations, NEW kind \in Kinds,
           NEW at \in {"guard", "begin", "send", "done"}, Arrives(r, op, kind, at)
    PROVE  /\ calls[r].at = "idle" /\ r \notin cut /\ runs[r].at = "none"
           /\ \E c \in Call : /\ Put(r, c) /\ c.at = at /\ c.outcome = "none"
                              /\ c.op = op /\ c.kind = kind
<1>1. PICK b \in BOOLEAN : Put(r, [NoCall EXCEPT !.kind = kind, !.op = op, !.confirm = b, !.at = at])
  BY DEF Arrives, Phrases
<1> DEFINE c == [NoCall EXCEPT !.kind = kind, !.op = op, !.confirm = b, !.at = at]
<1>2. c \in Call /\ c.at = at /\ c.outcome = "none" /\ c.op = op /\ c.kind = kind
  BY DEF NoCall, Call, Kinds, Outcomes, Codes
<1>3. Put(r, c)
  BY <1>1
<1> HIDE DEF c
<1>4. calls[r].at = "idle"
  BY DEF Arrives
<1>5. r \notin cut /\ runs[r].at = "none"
  BY <1>4, ApiShape DEF CallOf
<1> QED
  BY <1>2, <1>3, <1>4, <1>5

LEMMA ArrivesKeeps ==
    ASSUME HostInv, UNCHANGED <<runs, hostVars, records, cut>>, NEW r \in Requests,
           NEW op \in Operations, NEW kind \in Kinds, NEW at \in {"guard", "begin", "send"},
           Arrives(r, op, kind, at), unwritten' \in {unwritten, unwritten \cup {r}},
           NEW step, \/ steps' = [steps EXCEPT ![step] = [status |-> "running", by |-> r]]
                     \/ UNCHANGED steps
    PROVE  HostInv'
<1>1. /\ r \notin cut /\ runs[r].at = "none"
      /\ \E c \in Call : Put(r, c) /\ c.at = at /\ c.outcome = "none"
  BY ArrivedIs
<1>2. PICK c \in Call : Put(r, c) /\ c.at = at /\ c.outcome = "none"
  BY <1>1
<1>3. Marked
  BY StepPut DEF Statuses
<1>4. Recorded(r) /\ cut' \in {cut, cut \cup {r}}
  BY Unwritten
<1> QED
  BY <1>1, <1>2, <1>3, <1>4, CallMoves

LEMMA AskKeeps ==
    ASSUME HostInv, NEW r \in Requests, NEW op,
           AskRead(r, op) \/ AskRoute(r, op) \/ AskSetup(r, op) \/ AskShell(r, op)
    PROVE  HostInv'
<1>1. CASE AskRead(r, op)
  <2>1. op \in Operations /\ "route" \in Kinds
    BY <1>1, OpsAre DEF AskRead, Kinds
  <2> QED
    BY <1>1, <2>1, ArrivesKeeps DEF AskRead
<1>2. CASE AskRoute(r, op)
  <2>1. op \in Operations /\ "route" \in Kinds
    BY <1>2, OpsAre DEF AskRoute, Kinds
  <2> QED
    BY <1>2, <2>1, ArrivesKeeps DEF AskRoute
<1>3. CASE AskSetup(r, op)
  <2>1. op \in Operations /\ "setup" \in Kinds
    BY <1>3, OpsAre DEF AskSetup, Kinds
  <2> QED
    BY <1>3, <2>1, ArrivesKeeps DEF AskSetup
<1>4. CASE AskShell(r, op)
  <2>1. op \in Operations /\ "shell" \in Kinds
    BY <1>4, OpsAre DEF AskShell, Parses, Kinds
  <2> QED
    BY <1>4, <2>1, ArrivesKeeps DEF AskShell
<1> QED
  BY <1>1, <1>2, <1>3, <1>4

\* A call goes on and knows what it knew, or is over and knows nothing.
LEMMA Gone ==
    ASSUME HostInv, NEW r \in Requests, NEW to \in {"begin", "send", "wait", "finish", "step"}
    PROVE  /\ [calls[r] EXCEPT !.at = to] \in Call
           /\ [calls[r] EXCEPT !.at = to].at = to
           /\ [calls[r] EXCEPT !.at = to].op = calls[r].op
           /\ [calls[r] EXCEPT !.at = to].kind = calls[r].kind
           /\ [calls[r] EXCEPT !.at = to].outcome = calls[r].outcome
           /\ [calls[r] EXCEPT !.at = to].code = calls[r].code
           /\ [calls[r] EXCEPT !.at = to].ready = calls[r].ready
<1>1. calls[r] \in Call
  BY ApiShape
<1> QED
  BY <1>1 DEF Call

LEMMA OverIs ==
    ASSUME HostInv, NEW r \in Requests
    PROVE  /\ Over(r) \in Call /\ Over(r).at = "done" /\ Over(r).op = calls[r].op
           /\ Over(r).kind = "route" /\ Over(r).outcome = "none"
<1>1. calls[r].op \in Operations \cup {None}
  BY ApiShape DEF Call
<1> QED
  BY <1>1 DEF Over, NoCall, Call, Kinds, Outcomes, Codes

LEMMA GoesOn ==
    ASSUME HostInv, NEW r \in Requests, UNCHANGED <<runs, hostVars, steps, cut>>,
           NEW to \in {"begin", "send", "wait", "finish", "step"}, Go(r, to),
           calls[r].at # "idle",
           to \in {"begin", "send"} => runs[r].at = "none",
           to = "step" => calls[r].kind = "setup",
           Recorded(r),
           unwritten' \in {unwritten, unwritten \cup {r}}
    PROVE  HostInv'
<1> DEFINE c == [calls[r] EXCEPT !.at = to]
<1>1. /\ c \in Call /\ c.at = to /\ c.op = calls[r].op /\ c.kind = calls[r].kind
      /\ c.outcome = calls[r].outcome /\ c.code = calls[r].code /\ c.ready = calls[r].ready
  BY Gone
<1>2. Put(r, c)
  BY DEF Go
<1> HIDE DEF c
<1>3. CallOf(r)
  BY ApiShape
<1>4. /\ runs[r].at # "none" => runs[r].op = c.op
      /\ r \in cut => c.kind # "setup"
      /\ c.outcome = "succeeded" =>
            r \in cut \/ (EndedWell(r) /\ runs[r].code = c.code /\ runs[r].ready = c.ready)
  BY <1>1, <1>3 DEF CallOf
<1>5. Marked
  BY Unmarked
<1> QED
  BY <1>1, <1>2, <1>4, <1>5, CallMoves

LEMMA EndsCall ==
    ASSUME HostInv, NEW r \in Requests, UNCHANGED <<runs, hostVars, unwritten, cut>>,
           Put(r, Over(r)), Recorded(r), Marked
    PROVE  HostInv'
<1>1. /\ runs[r].at # "none" => runs[r].op = calls[r].op
  BY ApiShape DEF CallOf
<1>2. PICK c \in Call : c = Over(r)
  BY OverIs
<1> QED
  BY <1>1, <1>2, OverIs, CallMoves

LEMMA FinishKeeps ==
    ASSUME HostInv, NEW r \in Requests, Finish(r) PROVE HostInv'
<1>1. CallOf(r) /\ calls[r] \in Call
  BY ApiShape
<1>2. Recorded(r)
  <2>1. CASE UNCHANGED records
    BY <2>1, Unwritten DEF Finish
  <2>2. CASE records' = [records EXCEPT ![r] = [status |-> calls[r].outcome, code |-> calls[r].code]]
    <3>1. PICK o \in Outcomes, k \in Codes : o = calls[r].outcome /\ k = calls[r].code
      BY <1>1 DEF Call
    <3>2. PICK v \in Records : v = [status |-> o, code |-> k]
      BY DEF Records
    <3>3. v.status = calls[r].outcome /\ v.code = calls[r].code
      BY <3>1, <3>2
    <3>4. records' = [records EXCEPT ![r] = v] /\ records'[r] = v
      BY <2>2, <3>1, <3>2, ApiShape
    <3> QED
      BY <1>1, <3>3, <3>4 DEF CallOf, Recorded, Finish
  <2> QED
    BY <2>1, <2>2 DEF Finish
<1>3. CASE calls[r].kind = "setup" /\ calls[r].at = "finish"
  BY <1>2, <1>3, GoesOn DEF Finish
<1>4. CASE ~(calls[r].kind = "setup" /\ calls[r].at = "finish")
  BY <1>2, <1>4, Unmarked, EndsCall DEF Finish
<1> QED
  BY <1>3, <1>4

\* The outcome of a step is the host's word.
LEMMA StepWriteKeeps ==
    ASSUME HostInv, NEW r \in Requests, StepWrite(r) PROVE HostInv'
<1>1. CallOf(r)
  BY ApiShape
<1>2. PICK status \in Statuses : status = Status(r)
  BY DEF Status, Statuses
<1>3. ASSUME Status(r) = "completed" PROVE WasReady(r)
  <2>1. calls[r].outcome = "succeeded" /\ ~(calls[r].op \in CheckOps /\ ~calls[r].ready)
    BY <1>3 DEF Status
  <2>2. r \notin cut
    BY <1>1 DEF StepWrite, CallOf
  <2>3. EndedWell(r) /\ runs[r].ready = calls[r].ready /\ runs[r].op = calls[r].op
    BY <1>1, <2>1, <2>2 DEF CallOf, EndedWell
  <2>4. runs[r].ready \in BOOLEAN
    BY HostShape DEF Run
  <2>5. runs[r].op \in CheckOps => runs[r].ready
    BY <2>1, <2>3
  <2> QED
    BY <2>3, <2>5 DEF WasReady
<1>4. Marked
  BY <1>2, <1>3, StepPut DEF StepWrite
<1> QED
  BY <1>4, Unwritten, EndsCall DEF StepWrite

\* What is concluded without an answer: a failure, or of a stream a success.
LEMMA ConcludesKeeps ==
    ASSUME HostInv, NEW r \in Requests,
           Refused(r) \/ Unreachable(r) \/ NoAnswer(r) \/ StreamCut(r)
    PROVE  HostInv'
<1>0. calls[r] \in Call /\ CallOf(r)
  BY ApiShape
<1>1. \E v \in Outcomes, k \in Codes, at \in {"finish", "throw"} :
         /\ Put(r, [calls[r] EXCEPT !.at = at, !.outcome = v, !.code = k])
         /\ calls[r].at # "idle"
         /\ \/ v # "succeeded" /\ UNCHANGED cut
            \/ calls[r].kind = "shell" /\ cut' = cut \cup {r}
  <2>0. /\ {"none", "succeeded", "failed", "denied"} \subseteq Outcomes
        /\ 0 \in Codes /\ 1 \in Codes /\ calls[r].code \in Codes
    BY <1>0 DEF Outcomes, Codes, Call
  <2>1. \A v, at : [calls[r] EXCEPT !.at = at, !.outcome = v]
                     = [calls[r] EXCEPT !.at = at, !.outcome = v, !.code = calls[r].code]
    BY <1>0 DEF Call
  <2>2. CASE Refused(r)
    BY <2>0, <2>1, <2>2 DEF Refused
  <2>3. CASE Unreachable(r)
    BY <2>0, <2>1, <2>3 DEF Unreachable
  <2>4. CASE NoAnswer(r)
    BY <2>0, <2>1, <2>4 DEF NoAnswer
  <2>5. CASE StreamCut(r)
    BY <2>0, <2>1, <2>5 DEF StreamCut
  <2> QED
    BY <2>2, <2>3, <2>4, <2>5
<1>2. PICK v \in Outcomes, k \in Codes, at \in {"finish", "throw"} :
         /\ Put(r, [calls[r] EXCEPT !.at = at, !.outcome = v, !.code = k])
         /\ calls[r].at # "idle"
         /\ \/ v # "succeeded" /\ UNCHANGED cut
            \/ calls[r].kind = "shell" /\ cut' = cut \cup {r}
  BY <1>1
<1>3. UNCHANGED <<runs, hostVars, records, steps, unwritten>>
  BY DEF Refused, Unreachable, NoAnswer, StreamCut
<1> DEFINE c == [calls[r] EXCEPT !.at = at, !.outcome = v, !.code = k]
<1>4. /\ c \in Call /\ c.at = at /\ c.op = calls[r].op /\ c.kind = calls[r].kind
      /\ c.outcome = v /\ Put(r, c)
  BY <1>0, <1>2 DEF Call
<1> HIDE DEF c
<1>5. /\ runs[r].at # "none" => runs[r].op = c.op
      /\ r \in cut' => c.kind # "setup"
      /\ c.outcome = "succeeded" => r \in cut'
      /\ cut' \in {cut, cut \cup {r}} /\ cut \subseteq cut'
  BY <1>0, <1>2, <1>4 DEF CallOf
<1>6. Recorded(r) /\ Marked
  BY <1>3, <1>5, Unwritten, Unmarked
<1> QED
  BY <1>3, <1>4, <1>5, <1>6, CallMoves

LEMMA CallKeeps ==
    ASSUME HostInv, NEW r \in Requests, Guard(r) \/ GuardRefuses(r) \/ Begin(r) \/ Unfollow(r)
    PROVE  HostInv'
<1>0. CallOf(r)
  BY ApiShape
<1>1. CASE Guard(r)
  BY <1>0, <1>1, Unwritten, GoesOn DEF Guard, CallOf
<1>2. CASE GuardRefuses(r)
  BY <1>2, Unwritten, Unmarked, EndsCall DEF GuardRefuses
<1>3. CASE Begin(r)
  <2>1. Recorded(r)
    <3>1. CASE UNCHANGED records
      BY <1>3, <3>1, Unwritten DEF Begin
    <3>2. CASE records' = [records EXCEPT ![r] = [status |-> "running", code |-> None]]
      <4>1. PICK v \in Records : v = [status |-> "running", code |-> None]
        BY DEF Records, Codes
      <4>2. v.status = "running"
        BY <4>1
      <4>3. records' = [records EXCEPT ![r] = v] /\ records'[r] = v
        BY <3>2, <4>1, ApiShape
      <4> QED
        BY <4>2, <4>3 DEF Recorded
    <3> QED
      BY <1>3, <3>1, <3>2 DEF Begin
  <2>2. unwritten' \in {unwritten, unwritten \cup {r}} /\ calls[r].at = "begin"
        /\ UNCHANGED <<runs, hostVars, steps, cut>> /\ Go(r, "send")
    BY <1>3 DEF Begin
  <2>3. runs[r].at = "none"
    BY <1>0, <2>2 DEF CallOf
  <2> QED
    BY <2>1, <2>2, <2>3, GoesOn
<1>4. CASE Unfollow(r)
  BY <1>4, Unwritten, GoesOn DEF Unfollow
<1> QED
  BY <1>1, <1>2, <1>3, <1>4

LEMMA ApiStopKeeps == ASSUME HostInv, ApiStops PROVE HostInv'
<1>1. UNCHANGED <<runs, hostVars, records, steps, unwritten, cut>>
  BY DEF ApiStops
<1>2. \A r \in Requests : \/ calls'[r] = calls[r]
                          \/ calls'[r] = Over(r) /\ calls[r].at # "idle"
  BY DEF ApiStops
<1>3. \A r \in Requests : calls'[r] \in Call /\ CallOf(r)'
  <2> TAKE r \in Requests
  <2>1. CASE calls'[r] = calls[r]
    BY <1>1, <2>1, ApiShape DEF CallOf, EndedWell
  <2>2. CASE calls'[r] = Over(r)
    <3>1. CallOf(r)
      BY ApiShape
    <3> QED
      BY <1>1, <2>2, <3>1, OverIs DEF CallOf, EndedWell
  <2> QED
    BY <1>2, <2>1, <2>2
<1>4. calls' \in [Requests -> Call]
  BY <1>3 DEF ApiStops
<1>5. /\ records' \in [Requests -> Records]
      /\ unwritten' \subseteq Requests /\ cut' \subseteq Requests
  BY <1>1, ApiShape
<1>6. Marked
  BY <1>1, Unmarked
<1> QED
  BY <1>1, <1>3, <1>4, <1>5, <1>6, ApiMoves

\* An execution that begins, with its call.
LEMMA BothMove ==
    ASSUME HostInv, UNCHANGED <<hostVars, records, steps, unwritten, cut>>, NEW r \in Requests,
           Accept(r, calls'[r].op), NEW c \in Call, Put(r, c),
           c.at \in {"wait", "done"}, c.outcome = "succeeded" => r \in cut,
           r \in cut => c.kind # "setup"
    PROVE  HostInv'
<1>1. runs[r] \in Run /\ runs[r].at = "none" /\ CallOf(r)
  BY ApiShape, HostShape DEF Accept
<1>2. calls'[r] = c /\ calls' \in [Requests -> Call]
      /\ \A q \in Requests \ {r} : calls'[q] = calls[q]
  BY ApiShape DEF Put
<1> DEFINE x == [runs[r] EXCEPT !.op = c.op, !.at = "start"]
<1>3. x \in Run /\ x.op = c.op /\ x.at = "start"
  <2>1. "start" \in Places
    BY DEF Places
  <2>2. c.op \in Operations \cup {None}
    BY DEF Call
  <2> QED
    BY <1>1, <2>1, <2>2 DEF Run
<1>4. runs' = [runs EXCEPT ![r] = x]
  BY <1>2, HostShape DEF Accept
<1> HIDE DEF x
<1>5. Holds(x) /\ runs[r].at \notin Special /\ x.at \notin Special /\ ~EndedWell(r)
  BY <1>1, <1>3 DEF Holds, Special, EndedWell
<1>6. /\ runs' \in [Requests -> Run] /\ runs'[r] = x /\ \A q \in Requests : Holds(runs'[q])
      /\ \A q \in Requests \ {r} : runs'[q] = runs[q]
      /\ HostTypeOK' /\ FirewallInv' /\ Ages' /\ ArchivesInv' /\ ServiceInv'
  BY <1>3, <1>4, <1>5, RunsAside
<1>7. CallOf(r)'
  BY <1>1, <1>2, <1>3, <1>5, <1>6 DEF CallOf
<1>8. \A q \in Requests : /\ EndedWell(q) => EndedWell(q)'
                          /\ WasReady(q) => WasReady(q)'
  BY <1>5, <1>6 DEF EndedWell, WasReady
<1>9. \A q \in Requests \ {r} : CallOf(q)'
  BY <1>2, <1>6, ApiShape DEF CallOf, EndedWell
<1>10. ApiInv'
  BY <1>7, <1>8, <1>9, ApiShape DEF ApiInv
<1>11. TypeOK' /\ steps' \in Marks
  BY <1>2, <1>6 DEF HostInv, TypeOK
<1> QED
  BY <1>6, <1>10, <1>11 DEF HostInv

LEMMA SendKeeps == ASSUME HostInv, NEW r \in Requests, Send(r) PROVE HostInv'
<1>1. CallOf(r) /\ calls[r] \in Call /\ runs[r].at = "none"
  BY ApiShape DEF Send, Accept
<1>2. PICK c \in Call : /\ c = [calls[r] EXCEPT !.at = "wait"] /\ c.at = "wait"
                        /\ c.op = calls[r].op /\ c.kind = calls[r].kind
                        /\ c.outcome = calls[r].outcome
  BY Gone
<1>3. Put(r, c) /\ calls'[r] = c
  BY <1>2, ApiShape DEF Send, Go, Put
<1>4. /\ c.outcome = "succeeded" => r \in cut
      /\ r \in cut => c.kind # "setup"
  BY <1>1, <1>2 DEF CallOf, EndedWell
<1> QED
  BY <1>2, <1>3, <1>4, BothMove DEF Send

LEMMA AskAgentKeeps ==
    ASSUME HostInv, NEW r \in Requests, NEW op, AskAgent(r, op) PROVE HostInv'
<1>1. op \in Operations /\ "route" \in Kinds
  BY OpsAre DEF AskAgent, Kinds
<1>2. r \notin cut /\ \E c \in Call : Put(r, c) /\ c.at = "done" /\ c.outcome = "none" /\ c.op = op
  BY <1>1, ArrivedIs DEF AskAgent
<1>3. PICK c \in Call : Put(r, c) /\ c.at = "done" /\ c.outcome = "none" /\ c.op = op
  BY <1>2
<1>4. calls'[r] = c
  BY <1>3, ApiShape DEF Put
<1> QED
  BY <1>1, <1>2, <1>3, <1>4, BothMove DEF AskAgent

LEMMA AnsweredKeeps == ASSUME HostInv, NEW r \in Requests, Answered(r) PROVE HostInv'
<1>1. CallOf(r) /\ calls[r] \in Call /\ runs[r] \in Run /\ runs[r].at = "done"
  BY ApiShape, HostShape DEF Answered
<1>2. Judged(r) \in Outcomes /\ CodeOf(r) \in Codes /\ runs[r].ready \in BOOLEAN
  BY <1>1 DEF Judged, CodeOf, Codes, Outcomes, Run
<1>3. PICK v \in Outcomes, k \in Codes, b \in BOOLEAN :
         v = Judged(r) /\ k = CodeOf(r) /\ b = runs[r].ready
  BY <1>2
<1> DEFINE c == [calls[r] EXCEPT !.at = "finish", !.outcome = v, !.code = k, !.ready = b]
<1>4. /\ c \in Call /\ c.at = "finish" /\ c.op = calls[r].op /\ c.kind = calls[r].kind
      /\ c.outcome = v /\ c.code = k /\ c.ready = b
  BY <1>1 DEF Call
<1>5. Put(r, c)
  BY <1>3 DEF Answered
<1> HIDE DEF c
<1>6. v = "succeeded" => EndedWell(r) /\ runs[r].code = k
  BY <1>1, <1>3 DEF Judged, CodeOf, EndedWell
<1>7. Recorded(r) /\ Marked
  BY Unwritten, Unmarked DEF Answered
<1>8. UNCHANGED <<runs, hostVars>> /\ unwritten' = unwritten /\ cut' = cut /\ calls[r].at = "wait"
  BY DEF Answered
<1>9. /\ runs[r].at # "none" => runs[r].op = c.op
      /\ r \in cut => c.kind # "setup" /\ c.at # "idle"
  BY <1>1, <1>4 DEF CallOf
<1> QED
  BY <1>3, <1>4, <1>5, <1>6, <1>7, <1>8, <1>9, CallMoves

-----------------------------------------------------------------------------
LEMMA HostInvInit == OpsInit => HostInv
<1> SUFFICES ASSUME OpsInit PROVE HostInv
  OBVIOUS
<1>1. /\ runs = [r \in Requests |-> NoRun] /\ calls = [r \in Requests |-> NoCall]
      /\ records = [r \in Requests |-> NoRecord]
      /\ steps = [s \in SetupSteps |-> [status |-> "none", by |-> None]]
      /\ unwritten = {} /\ cut = {} /\ now = 1 /\ prepared = {} /\ scheduled = "nothing"
      /\ excused = {x \in {"firewall"} : ~Agree(firewall)} /\ firewall \in Firewalls
  BY DEF OpsInit, HostInit, Init
<1>2. NoRun \in Run /\ NoRun.at = "none" /\ Holds(NoRun)
  <2>1. None \in Kept /\ "none" \in Places
    BY KeptHas DEF Places
  <2>2. NoRun \in Run /\ NoRun.at = "none"
    BY <2>1 DEF NoRun, Run
  <2> QED
    BY <2>2 DEF Holds
<1>3. NoCall \in Call /\ NoCall.at = "idle" /\ NoCall.outcome = "none" /\ NoCall.kind = "route"
  BY DEF NoCall, Call, Kinds, Outcomes, Codes
<1>4. NoRecord \in Records /\ NoRecord.status = "none"
  BY DEF NoRecord, Records, Outcomes, Codes
<1>5. PICK first \in Names :
         archives = [n \in Names |-> [is |-> IF n = first THEN "good" ELSE "unused", at |-> 1]]
  BY DEF OpsInit, HostInit, Init
<1>6. /\ archives \in [Names -> [is : Files, at : Nat]] /\ 1 \in Nat
      /\ \A n \in Names : archives[n].at = 1 /\ (n # first => Is(n) = "unused")
      /\ Is(first) = "good"
  BY <1>5 DEF Files, Is
<1>7. layers \in [LayerNames -> States] /\ \E l \in LayerNames : ~Alive(l)
  <2>1. PICK on \in LayerNames, s \in {"not_installed", "stopped", "failed"} :
            layers = [l \in LayerNames |-> IF l = on THEN "running" ELSE s]
    BY DEF OpsInit, HostInit, Init
  <2> QED
    BY <2>1 DEF LayerNames, States, Alive
<1>8. HostTypeOK
  <2>1. excused \subseteq {"firewall", "archives", "service"}
    BY <1>1
  <2>2. \A r \in Requests : runs[r] \in Run
    BY <1>1, <1>2
  <2> QED
    BY <1>1, <1>6, <1>7, <2>1, <2>2 DEF HostTypeOK, Run
<1>9. TypeOK
  BY <1>1, <1>3, <1>4, <1>8 DEF TypeOK, Records
<1>10. runs \in [Requests -> Run] /\ \A r \in Requests : Holds(runs[r])
  BY <1>1, <1>2
<1>11. steps \in Marks
  BY <1>1 DEF Marks, Statuses
<1>12. FirewallInv
  BY <1>1, <1>2 DEF FirewallInv, Halfway, Agree
<1>13. Ages
  BY <1>1, <1>6 DEF Ages
<1>14. ArchivesInv
  <2>1. \A r \in Requests : runs[r].at = "none"
    BY <1>1, <1>2
  <2>2. Spared(first)
    BY <1>6, <2>1 DEF Spared
  <2> QED
    BY <2>1, <2>2 DEF ArchivesInv, Dumping
<1>15. ServiceInv
  BY <1>1, <1>2, <1>7 DEF ServiceInv, Acting
<1>16. ApiInv
  BY <1>1, <1>2, <1>3, <1>4 DEF ApiInv, CallOf, EndedWell
<1> QED
  BY <1>9, <1>10, <1>11, <1>12, <1>13, <1>14, <1>15, <1>16 DEF HostInv

LEMMA HostInvUnchanged == ASSUME HostInv, UNCHANGED vars PROVE HostInv'
<1>1. UNCHANGED <<runs, hostVars, calls, records, steps, unwritten, cut>>
  BY DEF vars, apiVars
<1>2. \A r \in Requests : CallOf(r)'
  BY <1>1, ApiShape DEF CallOf, EndedWell
<1> QED
  BY <1>1, <1>2, ApiShape, Unmarked, ApiMoves

LEMMA HostInvNext == HostInv /\ [Next]_vars => HostInv'
<1> SUFFICES ASSUME HostInv, [Next]_vars PROVE HostInv'
  OBVIOUS
<1>1. CASE UNCHANGED vars
  BY <1>1, HostInvUnchanged
<1>2. ASSUME NEW r \in Requests, CallStep(r) PROVE HostInv'
  <2>1. CASE \E op \in Ops : \/ AskRead(r, op) \/ AskRoute(r, op) \/ AskSetup(r, op)
                             \/ AskShell(r, op)
    BY <2>1, AskKeeps
  <2>2. CASE \E op \in Ops : AskAgent(r, op)
    BY <2>2, AskAgentKeeps
  <2>3. CASE Guard(r) \/ GuardRefuses(r) \/ Begin(r) \/ Unfollow(r)
    BY <2>3, CallKeeps
  <2>4. CASE Send(r)
    BY <2>4, SendKeeps
  <2>5. CASE Refused(r) \/ Unreachable(r) \/ NoAnswer(r) \/ StreamCut(r)
    BY <2>5, ConcludesKeeps
  <2>6. CASE Answered(r)
    BY <2>6, AnsweredKeeps
  <2>7. CASE Finish(r)
    BY <2>7, FinishKeeps
  <2>8. CASE StepWrite(r)
    BY <2>8, StepWriteKeeps
  <2> QED
    BY <1>2, <2>1, <2>2, <2>3, <2>4, <2>5, <2>6, <2>7, <2>8 DEF CallStep
<1>3. ASSUME NEW r \in Requests, RunStep(r), UNCHANGED apiVars PROVE HostInv'
  <2>1. CASE \/ Read(r) \/ Follow(r) \/ FollowEnds(r) \/ TestConfig(r) \/ Reload(r)
             \/ Verify(r) \/ VerifyFirst(r) \/ Restore(r) \/ Schedule(r) \/ Check(r) \/ Apply(r)
             \/ ApplyStorage(r) \/ MakeDirectory(r) \/ MakeFails(r) \/ Chmod(r)
    BY <1>3, <2>1, AsideSteps
  <2>2. CASE ReadState(r)
    BY <1>3, <2>2, ReadStateKeeps
  <2>3. CASE \/ WriteRules(r) \/ WriteFails(r) \/ LoadRules(r) \/ LoadFails(r)
             \/ SaveState(r) \/ SaveFails(r)
    BY <1>3, <2>3, FirewallKeeps
  <2>4. CASE StartDump(r)
    BY <1>3, <2>4, StartDumpKeeps
  <2>5. CASE DumpEnds(r) \/ DumpFails(r)
    BY <1>3, <2>5, DumpKeeps
  <2>6. CASE ListOld(r)
    BY <1>3, <2>6, ListOldKeeps
  <2>7. CASE Unlink(r)
    BY <1>3, <2>7, UnlinkKeeps
  <2>8. CASE Report(r)
    BY <1>3, <2>8, ReportKeeps
  <2>9. CASE Act(r)
    BY <1>3, <2>9, ActKeeps
  <2>10. CASE StartUnit(r) \/ StartContainer(r)
    BY <1>3, <2>10, StartKeeps
  <2> QED
    BY <1>3, <2>1, <2>2, <2>3, <2>4, <2>5, <2>6, <2>7, <2>8, <2>9, <2>10 DEF RunStep
<1>4. CASE Around /\ UNCHANGED apiVars
  <2>1. CASE \E l \in LayerNames : LayerChanges(l)
    BY <1>4, <2>1, LayerChangesKeeps
  <2>2. CASE \E i \in Items : Undo(i)
    BY <1>4, <2>2, UndoKeeps
  <2>3. CASE Reboot
    BY <1>4, <2>3, StopKeeps
  <2> QED
    BY <1>4, <2>1, <2>2, <2>3 DEF Around
<1>5. CASE AgentStops /\ UNCHANGED apiVars
  BY <1>5, StopKeeps
<1>6. CASE ApiStops
  BY <1>6, ApiStopKeeps
<1> QED
  BY <1>1, <1>2, <1>3, <1>4, <1>5, <1>6 DEF Next

THEOREM HostInvariant == Spec => []HostInv
  BY HostInvInit, HostInvNext, PTL DEF Spec

-----------------------------------------------------------------------------
(* Executions, the host, calls and records keep their shape, whatever ops/  *)
(* does at once, whoever stops.                                             *)
THEOREM TypeCorrect == Spec => []TypeOK
<1>1. HostInv => TypeOK
  BY DEF HostInv
<1> QED
  BY <1>1, HostInvariant, PTL

(* "Kept as data, so the ruleset is regenerated from intent"                *)
(* (firewall.ts:26): whenever no change is under way the kernel, the rules  *)
(* file and the state file say the same, whatever they said at first, for   *)
(* any number of requests and through reboots.  An overlap, or a write or a *)
(* load that failed, suspends this until a change has had them to itself.   *)
THEOREM FirewallFollowsIntent == Spec => []FirewallAsIntended
<1>1. HostInv => FirewallAsIntended
  <2> SUFFICES ASSUME HostInv, "firewall" \notin excused, Changing = {} PROVE Agree(firewall)
    BY DEF FirewallAsIntended
  <2>1. \A r \in Requests : ~Halfway(r)
    BY ChangingIs
  <2> QED
    BY <2>1 DEF HostInv, FirewallInv, Agree
<1> QED
  BY <1>1, HostInvariant, PTL

(* "Never delete the last archive, whatever the retention window says"      *)
(* (backup.ts:326), for any number of archives, dumps and prunes: one good  *)
(* archive is always newer than every good one a prune is about to remove.  *)
(* Prunes that took a bad file for the newest, and dumps of one second, are *)
(* excepted.                                                                *)
THEOREM GoodArchiveStays == Spec => []GoodArchiveKept
<1>1. HostInv => GoodArchiveKept
  BY DEF HostInv, ArchivesInv, Spared, GoodArchiveKept
<1> QED
  BY <1>1, HostInvariant, PTL

(* "Two PostgreSQL instances on one data directory will corrupt it"         *)
(* (services.ts:157): a request acts on a layer, or tries one after the     *)
(* other, only while no other is alive; excepted are requests that overlap, *)
(* a service that changes meanwhile, and a probe that misses a live layer.  *)
THEOREM OneLayerAtATime == Spec => []OneLayerRuns
<1>1. HostInv => OneLayerRuns
  BY DEF HostInv, ServiceInv, OneLayerRuns
<1> QED
  BY <1>1, HostInvariant, PTL

(* A record of the API that says "succeeded" is of an operation that        *)
(* returned on the host, and tells the exit code it returned, 0 or not,     *)
(* whoever timed out or stopped, but for streams that were cut.             *)
THEOREM RecordsTellTruth == Spec => []SucceededIsTrue
<1>1. HostInv => SucceededIsTrue
  BY DEF HostInv, ApiInv, CallOf, EndedWell, SucceededIsTrue
<1> QED
  BY <1>1, HostInvariant, PTL

(* "A check that runs successfully but reports not ready is not a completed *)
(* step" (admin-server.routes.ts:461-463): whichever of two calls wrote the *)
(* step last, the one that completed it returned, and if it was a check did *)
(* not find the host unready.                                               *)
THEOREM StepsWereReady == Spec => []CompletedStepWasReady
<1>1. HostInv => CompletedStepWasReady
  BY DEF HostInv, ApiInv, EndedWell, WasReady, CompletedStepWasReady
<1> QED
  BY <1>1, HostInvariant, PTL
=============================================================================
