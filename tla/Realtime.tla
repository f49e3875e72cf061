------------------------------ MODULE Realtime ------------------------------
(***************************************************************************)
(* The change feed of one project (realtime.ts) and the authorization of   *)
(* every event against its row-level security (realtime-authz.ts): sockets *)
(* come and go, the LISTEN connection is opened and closed with them, and  *)
(* events are judged concurrently while rows and policies change.          *)
(*                                                                         *)
(* There is one table with one row, whose versions are the events.  Redis  *)
(* is external: what is published reaches the bridge once, in any order.   *)
(*                                                                         *)
(* met, dropped, ghosts, moved, stale and shared are history.              *)
(***************************************************************************)
EXTENDS Naturals, FiniteSets

CONSTANTS
    Sockets,        \* sockets of this project
    Claims,         \* what tokens may claim, or their absence: RLS judges these
    Service,        \* a service_role key, which RLS does not bind
    ClaimsOf,       \* of each socket
    Keys, KeyOf,    \* identityKey of claims: their sub, and one key without
    Clients,        \* LISTEN connections ever opened; a bound
    Tasks,          \* deliveries at a time
    MaxVersion,     \* bound on the changes of the row
    Absent

ASSUME RealtimeAssumption ==
    /\ ClaimsOf \in [Sockets -> Claims \cup {Service}] /\ KeyOf \in [Claims -> Keys]
    /\ Service \notin Claims \cup Keys
    /\ MaxVersion \in Nat /\ IsFiniteSet(Clients) /\ Absent \notin Clients

VARIABLES
    listener,       \* listeners.get(project)
    clients,        \* LISTEN connections
    sockets,        \* how far each socket is, and whether its peer is there
    topics,         \* sockets subscribed to the table
    subscriptions,  \* the set of that name
    row,            \* the row: version, who may see it; the table's RLS
    events,         \* what each version was: who could see it, a DELETE or not
    wire,           \* messages published and not yet received, by version
    metaCache,      \* cached RLS of the table
    tasks,          \* runs of deliver()
    got,            \* frames each socket got of each version
    met, dropped, ghosts, moved, stale, shared  \* history

feed == <<listener, clients, sockets, topics, subscriptions, met, dropped, ghosts>>
data == <<row, events>>
history == <<moved, stale, shared>>
feedVars == <<feed, data, wire, metaCache, tasks, got, history>>

-----------------------------------------------------------------------------
Versions == 1..MaxVersion
Identities == Claims \cup {Service}
IdentityKey(c) == IF c = Service THEN Service ELSE KeyOf[c]

\* RLS off, on, or on without FORCE for the pooled role that owns the table.
Rls == {"off", "on", "unforced"}

Task == [at : {"idle", "authorize", "probe", "send"}, v : 0..MaxVersion,
         interested : SUBSET Sockets, left : SUBSET Claims, allowed : SUBSET Identities]
NoTask == [at |-> "idle", v |-> 0, interested |-> {}, left |-> {}, allowed |-> {}]

FeedInit ==
    /\ listener = Absent
    /\ clients = [c \in Clients |-> "new"]
    /\ sockets = [s \in Sockets |-> [at |-> "out", client |-> Absent, open |-> FALSE]]
    /\ topics = {} /\ subscriptions = {}
    /\ row = [v |-> 0, there |-> FALSE, sees |-> {}, rls |-> "off"]
    /\ events = [v \in Versions |-> [deleted |-> FALSE, sees |-> {}]]
    /\ wire = [v \in Versions |-> 0]
    /\ metaCache = Absent
    /\ tasks = [t \in Tasks |-> NoTask]
    /\ got = [s \in Sockets |-> [v \in Versions |-> 0]]
    /\ met = FALSE /\ dropped = FALSE /\ ghosts = {} /\ moved = {} /\ stale = {}
    /\ shared = {}

-----------------------------------------------------------------------------
Socket(s, at) == sockets' = [sockets EXCEPT ![s].at = at]
Attached == {c \in Clients : clients[c] \in {"connecting", "listening", "mute"}}

\* Mutant of HasListener: what others have opened is not looked at.
HasListenerOfOwn == FALSE

HasListener == listener # Absent

\* Key and token were good: the subscription counts from here; then
\* ensureListener, to its first await.
Connect(s) ==
    /\ sockets[s].at = "out"
    /\ subscriptions' = subscriptions \cup {s}
    /\ sockets' = [sockets EXCEPT ![s].at = IF HasListener THEN "up" ELSE "credentials",
                                  ![s].open = TRUE]
    /\ met' = (met \/ (~HasListener /\ \E o \in Sockets : sockets[o].at = "credentials"))
    /\ UNCHANGED <<listener, clients, topics, dropped, ghosts, data, wire, metaCache, tasks, got,
                   history>>

\* The credentials are there: the client is stored, whoever stored one before,
\* and connects.
OpenListener(s) ==
    /\ sockets[s].at = "credentials"
    /\ \E c \in Clients :
          /\ clients[c] = "new"
          /\ clients' = [clients EXCEPT ![c] = "connecting"]
          /\ listener' = c
          /\ sockets' = [sockets EXCEPT ![s].at = "connect", ![s].client = c]
    /\ UNCHANGED <<topics, subscriptions, met, dropped, ghosts, data, wire, metaCache, tasks, got,
                   history>>

\* LISTEN was answered; only now the socket gets its handlers, so a peer that
\* has left by now is never noticed.
Listening(s) ==
    /\ sockets[s].at = "connect" /\ clients[sockets[s].client] = "connecting"
    /\ clients' = [clients EXCEPT ![sockets[s].client] = "listening"]
    /\ sockets' = [sockets EXCEPT ![s].at = "up", ![s].client = Absent]
    /\ UNCHANGED <<listener, topics, subscriptions, met, dropped, ghosts, data, wire, metaCache,
                   tasks, got, history>>

\* No credentials, no connection, or the client was ended under it; or LISTEN
\* fails, which leaves it connected.  The socket is refused, and a client that
\* was stored stays in the map.
AttachFails(s) ==
    /\ sockets[s].at \in {"credentials", "connect"}
    /\ LET c == sockets[s].client IN
       IF c = Absent \/ clients[c] # "connecting" THEN clients' = clients
       ELSE \E at \in {"ended", "mute"} : clients' = [clients EXCEPT ![c] = at]
    /\ subscriptions' = subscriptions \ {s}
    /\ sockets' = [sockets EXCEPT ![s] = [at |-> "closed", client |-> Absent, open |-> FALSE]]
    /\ dropped' = (dropped \/ sockets[s].client # Absent)
    /\ ghosts' = ghosts \ {s}
    /\ UNCHANGED <<listener, topics, met, data, wire, metaCache, tasks, got, history>>

\* The 'error' event: the entry of the project goes, whosever it is.
ListenerDrops(c) ==
    /\ clients[c] \in {"listening", "mute"}
    /\ clients' = [clients EXCEPT ![c] = "ended"]
    /\ listener' = Absent
    /\ dropped' = TRUE
    /\ UNCHANGED <<sockets, topics, subscriptions, met, ghosts, data, wire, metaCache, tasks, got,
                   history>>

\* Mutant of StopListenerIfIdle: the first to leave ends it for all.
StopListener(subs) ==
    IF listener = Absent THEN UNCHANGED <<listener, clients>>
    ELSE listener' = Absent /\ clients' = [clients EXCEPT ![listener] = "ended"]

StopListenerIfIdle(subs) ==
    IF subs # {} \/ listener = Absent THEN UNCHANGED <<listener, clients>>
    ELSE listener' = Absent /\ clients' = [clients EXCEPT ![listener] = "ended"]

\* The 'close' event of a socket that has its handlers.
Leave(s) ==
    /\ sockets[s].at = "up" /\ sockets[s].open
    /\ subscriptions' = subscriptions \ {s}
    /\ StopListenerIfIdle(subscriptions \ {s})
    /\ sockets' = [sockets EXCEPT ![s] = [at |-> "closed", client |-> Absent, open |-> FALSE]]
    /\ UNCHANGED <<topics, met, dropped, ghosts, data, wire, metaCache, tasks, got, history>>

\* It leaves during the handshake, and nobody is told.
LeaveEarly(s) ==
    /\ sockets[s].at \in {"credentials", "connect"} /\ sockets[s].open
    /\ sockets' = [sockets EXCEPT ![s].open = FALSE]
    /\ ghosts' = ghosts \cup {s}
    /\ UNCHANGED <<listener, clients, topics, subscriptions, met, dropped, data, wire, metaCache,
                   tasks, got, history>>

\* Frames "subscribe" and "unsubscribe".
Subscribe(s) ==
    /\ sockets[s].at = "up" /\ sockets[s].open
    /\ topics' = IF s \in topics THEN topics \ {s} ELSE topics \cup {s}
    /\ UNCHANGED <<listener, clients, sockets, subscriptions, met, dropped, ghosts, data, wire,
                   metaCache, tasks, got, history>>

-----------------------------------------------------------------------------
\* Versions whose probe is still to come: what happens now may change it.
Unjudged ==
    {v \in Versions : wire[v] > 0} \cup
    {tasks[t].v : t \in {t \in Tasks : tasks[t].at \in {"authorize", "probe"}}}

\* INSERT, UPDATE or DELETE of the row, and the trigger's NOTIFY to every
\* client that listens; each publishes it.
Change ==
    /\ row.v < MaxVersion
    /\ \E deleted \in BOOLEAN, sees \in SUBSET Claims :
          /\ deleted => row.there /\ sees = {}
          /\ row' = [row EXCEPT !.v = @ + 1, !.there = ~deleted, !.sees = sees]
          /\ events' = [events EXCEPT ![row.v + 1] =
                           [deleted |-> deleted,
                            sees |-> IF row.rls = "off" THEN Claims
                                     ELSE IF deleted THEN row.sees ELSE sees]]
    /\ wire' = [wire EXCEPT ![row.v + 1] = Cardinality({c \in Clients : clients[c] = "listening"})]
    /\ moved' = moved \cup Unjudged
    /\ UNCHANGED <<feed, metaCache, tasks, got, stale, shared>>

\* ALTER TABLE ... ROW LEVEL SECURITY.
AlterTable ==
    /\ \E rls \in Rls \ {row.rls} : row' = [row EXCEPT !.rls = rls]
    /\ moved' = moved \cup Unjudged
    /\ UNCHANGED <<feed, events, wire, metaCache, tasks, got, stale, shared>>

\* An entry is dropped 30 s after it was read.
MetaExpires ==
    /\ metaCache # Absent
    /\ metaCache' = Absent
    /\ UNCHANGED <<feed, data, wire, tasks, got, history>>

-----------------------------------------------------------------------------
PutTask(t, x) == tasks' = [tasks EXCEPT ![t] = x]

\* The map of identities: one socket's claims stand for all of its key.
StandIns(interested) ==
    LET bound == {ClaimsOf[s] : s \in interested} \ {Service} IN
    {cs \in SUBSET bound :
        /\ \A c \in bound : \E d \in cs : KeyOf[d] = KeyOf[c]
        /\ \A c, d \in cs : KeyOf[c] = KeyOf[d] => c = d}

\* The bridge got a message: deliver(), to its first await.
Receive(t) ==
    LET interested == subscriptions \cap topics IN
    /\ tasks[t].at = "idle"
    /\ \E v \in Versions, judged \in StandIns(interested) :
          LET task == [NoTask EXCEPT
                          !.v = v, !.interested = interested, !.left = judged,
                          !.allowed = {ClaimsOf[s] : s \in interested} \cap {Service},
                          !.at = IF judged = {} THEN "send" ELSE "authorize"]
          IN  /\ wire[v] > 0
              /\ wire' = [wire EXCEPT ![v] = @ - 1]
              /\ PutTask(t, IF interested = {} THEN NoTask ELSE task)
              /\ shared' = shared \cup {<<s, v>> : s \in
                               {s \in interested : ClaimsOf[s] \notin judged \cup {Service}}}
    /\ UNCHANGED <<feed, data, metaCache, got, moved, stale>>

\* tableMeta, from the cache or the catalog; then what it says of the table.
Judged(t, rls) ==
    LET x == tasks[t] IN
    CASE rls = "off" -> [x EXCEPT !.at = "send", !.allowed = @ \cup x.left, !.left = {}]
      [] rls = "unforced" -> [x EXCEPT !.at = "send", !.left = {}]
      [] OTHER -> [x EXCEPT !.at = "probe"]

AuthorizeEvent(t) ==
    /\ tasks[t].at = "authorize"
    /\ LET rls == IF metaCache # Absent THEN metaCache ELSE row.rls
       IN  /\ PutTask(t, Judged(t, rls))
           /\ metaCache' = rls
           /\ stale' = IF rls # row.rls THEN stale \cup {tasks[t].v} ELSE stale
    /\ UNCHANGED <<feed, data, wire, got, moved, shared>>

\* No pool, no connection, no such table, or no row in a truncated payload.
AuthorizeFails(t) ==
    /\ tasks[t].at = "authorize"
    /\ PutTask(t, [tasks[t] EXCEPT !.at = "send", !.left = {}])
    /\ UNCHANGED <<feed, data, wire, metaCache, got, history>>

Probed(t, u, visible) ==
    [tasks[t] EXCEPT !.left = @ \ {u},
                     !.at = IF tasks[t].left = {u} THEN "send" ELSE "probe",
                     !.allowed = IF visible THEN @ \cup {u} ELSE @]

\* SELECT EXISTS, as that identity, of the row as it is now.
Probe(t) ==
    /\ tasks[t].at = "probe"
    /\ \E u \in tasks[t].left :
          PutTask(t, Probed(t, u, row.there /\ (row.rls = "on" => u \in row.sees)))
    /\ UNCHANGED <<feed, data, wire, metaCache, got, history>>

\* Mutant of ProbeFails: what cannot be confirmed is delivered.
ProbeFailsOpen(t) ==
    /\ tasks[t].at = "probe"
    /\ \E u \in tasks[t].left : PutTask(t, Probed(t, u, TRUE))
    /\ UNCHANGED <<feed, data, wire, metaCache, got, history>>

\* The transaction fails, and the identity is not allowed.
ProbeFails(t) ==
    /\ tasks[t].at = "probe"
    /\ \E u \in tasks[t].left : PutTask(t, Probed(t, u, FALSE))
    /\ UNCHANGED <<feed, data, wire, metaCache, got, history>>

\* A frame to every socket that was interested and whose key is allowed, if its
\* peer is there still.
Send(t) ==
    LET keys == {IdentityKey(c) : c \in tasks[t].allowed} IN
    /\ tasks[t].at = "send"
    /\ got' = [s \in Sockets |->
                 IF /\ s \in tasks[t].interested /\ sockets[s].open
                    /\ IdentityKey(ClaimsOf[s]) \in keys
                 THEN [got[s] EXCEPT ![tasks[t].v] = @ + 1] ELSE got[s]]
    /\ PutTask(t, NoTask)
    /\ UNCHANGED <<feed, data, wire, metaCache, history>>

-----------------------------------------------------------------------------
FeedNext ==
    \/ \E s \in Sockets :
          \/ Connect(s) \/ OpenListener(s) \/ Listening(s) \/ AttachFails(s)
          \/ Leave(s) \/ LeaveEarly(s) \/ Subscribe(s)
    \/ \E c \in Clients : ListenerDrops(c)
    \/ Change \/ AlterTable \/ MetaExpires
    \/ \E t \in Tasks :
          \/ Receive(t) \/ AuthorizeEvent(t) \/ AuthorizeFails(t)
          \/ Probe(t) \/ ProbeFails(t) \/ Send(t)

FeedSpec == FeedInit /\ [][FeedNext]_feedVars

-----------------------------------------------------------------------------
\* Connections, sockets, messages and deliveries keep their shape.
FeedTypeOK ==
    /\ listener \in Clients \cup {Absent}
    /\ clients \in [Clients -> {"new", "connecting", "listening", "mute", "ended"}]
    /\ sockets \in [Sockets -> [at : {"out", "credentials", "connect", "up", "closed"},
                                client : Clients \cup {Absent}, open : BOOLEAN]]
    /\ topics \subseteq Sockets /\ subscriptions \subseteq Sockets
    /\ row.v \in 0..MaxVersion /\ row.rls \in Rls
    /\ metaCache \in Rls \cup {Absent} /\ tasks \in [Tasks -> Task]

(* A socket is told of a change once (realtime.ts:26, "one dedicated LISTEN *)
(* connection per project"), whoever connects, leaves or drops in between,  *)
(* unless two first subscribers met in ensureListener (lines 37-41) or a    *)
(* connection was lost.                                                     *)
OncePerChange ==
    met \/ dropped \/ \A s \in Sockets, v \in Versions : got[s][v] <= 1

(* Who is told of a version of a row could read it, or his key stands for   *)
(* claims that could (realtime-authz.ts:26-30, "fails closed"), whatever    *)
(* fails on the way, and the claims are his own unless another socket's     *)
(* stood for them: identityKey (lines 120-124) groups by sub alone, or by   *)
(* none, and lines 91-95 of realtime.ts keep one.  Exempt are versions      *)
(* whose row or table changed before the probe, and those judged by cached  *)
(* metadata that was out of date, which lines 72-73 say is "never a leak".  *)
ToldWhatHeMaySee ==
    \A s \in Sockets, v \in Versions \ (moved \cup stale) :
        LET readers == events[v].sees \cup {Service} IN
        got[s][v] > 0 =>
            /\ \E c \in readers : IdentityKey(c) = IdentityKey(ClaimsOf[s])
            /\ <<s, v>> \in shared \/ ClaimsOf[s] \in readers

(* The LISTEN connection follows the subscribers (stopListenerIfIdle): who  *)
(* is connected has one, or one is being opened; and when every peer has    *)
(* left none is left behind - unless one was lost, two met in               *)
(* ensureListener, or a peer left before it had a close handler             *)
(* (realtime.ts:213).                                                       *)
ListenerFollowsSubscribers ==
    \/ met \/ dropped
    \/ /\ \A s \in Sockets : sockets[s].at = "up" => Attached # {}
       /\ (\A s \in Sockets : ~sockets[s].open) /\ ghosts = {} => Attached = {}
=============================================================================
