---------------------------- MODULE PoolManager ----------------------------
(***************************************************************************)
(* The per-project connection pools of services/api/src/db/pool-manager.ts.*)
(*                                                                         *)
(* One API process holds a map from project to pool.  A request asks for   *)
(* the pool of its project with get(): a hit is synchronous, a miss awaits *)
(* two reads of the platform database and then, in one synchronous block,  *)
(* computes the slice, reaps, checks the budget and stores the new pool.   *)
(* Other requests, the reaper's timer and evict() run between the awaits.  *)
(*                                                                         *)
(* A pg.Pool is a member of PoolIds, so that a pool the map has forgotten  *)
(* and nobody closed is visible.  Time is the age of an entry in ticks,    *)
(* counted up to one past the longer idle window.                          *)
(***************************************************************************)
EXTENDS Integers, FiniteSets

CONSTANTS
    Projects,         \* the projects of this server
    Requests,         \* requests (and background jobs) in flight at once
    PoolIds,          \* identities of pg.Pool objects: a bound on open ones
    QuotaLimits,      \* values a project_quotas.max_connections may have
    PROJECT_BUDGET,   \* connections all project pools may hold together
    MIN_PER_PROJECT,
    MAX_PER_PROJECT,
    AggressiveIdle,   \* reap(true)'s window, in ticks
    IdleWindow,       \* idleMs, the timer's window, in ticks
    None

ASSUME ProjectsAssumption == IsFiniteSet(Projects)

ASSUME SizesAssumption ==
    /\ PROJECT_BUDGET \in Nat /\ MIN_PER_PROJECT \in Nat /\ MAX_PER_PROJECT \in Nat
    /\ QuotaLimits \subseteq Nat

ASSUME WindowsAssumption ==
    /\ AggressiveIdle \in Nat /\ IdleWindow \in Nat
    /\ AggressiveIdle <= IdleWindow

VARIABLES
    pools,      \* the Map: project -> cached entry, or None
    handles,    \* the pg.Pool objects behind the entries, and the forgotten ones
    req,        \* where each request stands in get(), and what it has read
    phase       \* the process serves, is inside closeAll(), or has left it

vars == <<pools, handles, req, phase>>

-----------------------------------------------------------------------------
Smaller(a, b) == IF a <= b THEN a ELSE b
Larger(a, b) == IF a >= b THEN a ELSE b

MaxSlice == Larger(MIN_PER_PROJECT, MAX_PER_PROJECT)
\* Ages are told apart up to one past the window they are compared with.
OldestAge == IdleWindow + 1
LongHeld == AggressiveIdle + 1

Entry == [pool : PoolIds, age : 0..OldestAge, max : MIN_PER_PROJECT..MaxSlice]

ASSUME NoneAssumption == None \notin Projects /\ None \notin PoolIds /\ None \notin Entry

\* A pg.Pool that end() has not been called on, or an identity without one.
Handle == [open : BOOLEAN, project : Projects \cup {None}, max : 0..MaxSlice]

Request == [at : {"idle", "loading", "open", "using", "refused"},
            project : Projects \cup {None},
            quotaMax : QuotaLimits \cup {None},
            pool : PoolIds \cup {None},
            heldFor : 0..LongHeld]

NoRequest == [at |-> "idle", project |-> None, quotaMax |-> None,
              pool |-> None, heldFor |-> 0]
Using(h) == [at |-> "using", project |-> None, quotaMax |-> None,
             pool |-> h, heldFor |-> 0]
Closed == [open |-> FALSE, project |-> None, max |-> 0]

Cached == {p \in Projects : pools[p] # None}

(* sliceFor: a project's share of the budget, capped by its quota and by   *)
(* MAX_PER_PROJECT, but never below MIN_PER_PROJECT.                        *)
SliceFor(activePools, quotaMax) ==
    LET fairShare == PROJECT_BUDGET \div Larger(1, activePools)
        ceiling == IF quotaMax = None THEN MAX_PER_PROJECT
                   ELSE Smaller(MAX_PER_PROJECT, quotaMax)
    IN  Larger(MIN_PER_PROJECT, Smaller(ceiling, fairShare))

(* allocated(): the sum of the entries' maxima.  An entry of max n owns the *)
(* slots <<p, 1>> .. <<p, n>>, and the sum is the number of slots owned.    *)
Slots(map) == {s \in Projects \X (1..MaxSlice) :
                  map[s[1]] # None /\ s[2] <= map[s[1]].max}
Allocated(map) == Cardinality(Slots(map))

\* Mutant of Fits: the slice about to be handed out is not counted.
FitsWithoutSlice(map, max) == Allocated(map) <= PROJECT_BUDGET

\* The budget check of get(): there is room for one more slice.
Fits(map, max) == Allocated(map) + max <= PROJECT_BUDGET

\* The projects whose pool reap() closes for a given idle window.
Idle(window) == {p \in Cached : pools[p].age > window}

\* Mutant of Forget: the pool is ended but its entry stays in the map.
ForgetNothing(S) == pools

\* Map and handles once the pools of the projects in S are deleted and ended.
Forget(S) == [p \in Projects |-> IF p \in S THEN None ELSE pools[p]]
EndPools(S) ==
    [h \in PoolIds |-> IF \E p \in S : pools[p] # None /\ pools[p].pool = h
                       THEN Closed ELSE handles[h]]

\* Pools a connection can still be drawn from: cached, or held by a request.
\* pg closes the idle connections of any other pool after 30 s, and the
\* object is garbage: its identity is free for a new pg.Pool.
Reachable == {h \in PoolIds : \/ \E p \in Cached : pools[p].pool = h
                              \/ \E r \in Requests : req[r].pool = h}
Fresh == PoolIds \ Reachable

-----------------------------------------------------------------------------
Init ==
    /\ pools = [p \in Projects |-> None]
    /\ handles = [h \in PoolIds |-> Closed]
    /\ req = [r \in Requests |-> NoRequest]
    /\ phase = "running"

\* Mutant of GetCached: the hit does not refresh lastUsed.
GetCachedUntouched(r, p) ==
    /\ phase = "running" /\ req[r].at = "idle"
    /\ pools[p] # None
    /\ req' = [req EXCEPT ![r] = Using(pools[p].pool)]
    /\ UNCHANGED <<pools, handles, phase>>

\* get(), the hit: lastUsed is refreshed and the pool is handed out.
GetCached(r, p) ==
    /\ phase = "running" /\ req[r].at = "idle"
    /\ pools[p] # None
    /\ pools' = [pools EXCEPT ![p].age = 0]
    /\ req' = [req EXCEPT ![r] = Using(pools[p].pool)]
    /\ UNCHANGED <<handles, phase>>

\* get(), the miss: the request awaits credentials() and then the quota row.
GetMiss(r, p) ==
    /\ phase = "running" /\ req[r].at = "idle"
    /\ pools[p] = None
    /\ req' = [req EXCEPT ![r].at = "loading", ![r].project = p]
    /\ UNCHANGED <<pools, handles, phase>>

\* No connection row, a password that does not decrypt, or no platform database.
CredentialsFailed(r) ==
    /\ req[r].at = "loading"
    /\ req' = [req EXCEPT ![r] = NoRequest]
    /\ UNCHANGED <<pools, handles, phase>>

\* Both rows are read.  The quota is whatever an operator last set, or null,
\* which is also what a failed read of the quota row leaves.
QuotaLoaded(r) ==
    /\ req[r].at = "loading"
    /\ \E q \in QuotaLimits \cup {None} :
          req' = [req EXCEPT ![r].at = "open", ![r].quotaMax = q]
    /\ UNCHANGED <<pools, handles, phase>>

(* The synchronous rest of get(): the slice is computed from the map as it *)
(* is now, idle pools are reaped if the slice does not fit, and the pool is *)
(* opened and stored or refused.  Nothing looks whether another request     *)
(* stored an entry for the project in the meantime.                         *)
OpenPool(r) ==
    /\ req[r].at = "open"
    /\ LET p == req[r].project
           max == SliceFor(Cardinality(Cached) + 1, req[r].quotaMax)
           reaped == IF Fits(pools, max) THEN {} ELSE Idle(AggressiveIdle)
           left == Forget(reaped)
           ended == EndPools(reaped)
       IN  \/ /\ ~Fits(left, max)
              /\ pools' = left
              /\ handles' = ended
              /\ req' = [req EXCEPT ![r] = [NoRequest EXCEPT !.at = "refused"]]
           \/ /\ Fits(left, max)
              /\ Fresh # {}
              /\ LET h == CHOOSE h \in Fresh : TRUE
                 IN  /\ pools' = [left EXCEPT ![p] =
                                     [pool |-> h, age |-> 0, max |-> max]]
                     /\ handles' = [ended EXCEPT ![h] =
                                     [open |-> TRUE, project |-> p, max |-> max]]
                     /\ req' = [req EXCEPT ![r] = Using(h)]
    /\ UNCHANGED phase

\* The request ends: it drops its reference to the pool, or its error is sent.
Release(r) ==
    /\ req[r].at \in {"using", "refused"}
    /\ req' = [req EXCEPT ![r] = NoRequest]
    /\ UNCHANGED <<pools, handles, phase>>

\* evict(): project deletion and suspension drop the entry, then end the pool.
Evict(p) ==
    /\ pools[p] # None
    /\ pools' = Forget({p})
    /\ handles' = EndPools({p})
    /\ UNCHANGED <<req, phase>>

\* Mutant of ReapTimer: idle pools are closed only while the map is crowded.
ReapTimerUnderPressure ==
    /\ phase = "running"
    /\ Allocated(pools) = PROJECT_BUDGET
    /\ pools' = Forget(Idle(IdleWindow))
    /\ handles' = EndPools(Idle(IdleWindow))
    /\ UNCHANGED <<req, phase>>

\* The interval's reap(): what has been idle for the long window is closed.
ReapTimer ==
    /\ phase = "running"
    /\ pools' = Forget(Idle(IdleWindow))
    /\ handles' = EndPools(Idle(IdleWindow))
    /\ UNCHANGED <<req, phase>>

\* SIGTERM: app.close() stops accepting requests and drains them, or fails and
\* is logged; then closeAll() clears the interval and calls end() on every
\* cached pool.  The map still lists them while closeAll awaits the ends.
CloseAll ==
    /\ phase = "running"
    /\ handles' = EndPools(Projects)
    /\ phase' = "closing"
    /\ UNCHANGED <<pools, req>>

\* ... and clears the map, pools opened in the meantime included.
ClearMap ==
    /\ phase = "closing"
    /\ pools' = Forget(Projects)
    /\ phase' = "closed"
    /\ UNCHANGED <<handles, req>>

\* The process exits, or dies, and starts again: its sockets close with it.
Restart ==
    /\ pools' = [p \in Projects |-> None]
    /\ handles' = [h \in PoolIds |-> Closed]
    /\ req' = [r \in Requests |-> NoRequest]
    /\ phase' = "running"

Tick ==
    /\ pools' = [p \in Projects |->
                    IF pools[p] = None THEN None
                    ELSE [pools[p] EXCEPT !.age = Smaller(@ + 1, OldestAge)]]
    /\ req' = [r \in Requests |->
                  IF req[r].at = "using"
                  THEN [req[r] EXCEPT !.heldFor = Smaller(@ + 1, LongHeld)]
                  ELSE req[r]]
    /\ UNCHANGED <<handles, phase>>

Next ==
    \/ \E r \in Requests, p \in Projects : GetCached(r, p) \/ GetMiss(r, p)
    \/ \E r \in Requests : \/ CredentialsFailed(r) \/ QuotaLoaded(r)
                           \/ OpenPool(r) \/ Release(r)
    \/ \E p \in Projects : Evict(p)
    \/ ReapTimer \/ CloseAll \/ ClearMap \/ Restart \/ Tick

(* Time passes, setInterval keeps firing, closeAll finishes and shutdown    *)
(* then calls process.exit; nothing obliges a client to send a request, an  *)
(* operator to evict, or the process to stop.                               *)
Fairness == /\ WF_vars(Tick) /\ WF_vars(ReapTimer)
            /\ WF_vars(ClearMap) /\ WF_vars(phase = "closed" /\ Restart)

Spec == Init /\ [][Next]_vars /\ Fairness

-----------------------------------------------------------------------------
\* Every entry's slice lies between the configured minimum and maximum.
TypeOK ==
    /\ pools \in [Projects -> Entry \cup {None}]
    /\ handles \in [PoolIds -> Handle]
    /\ req \in [Requests -> Request]
    /\ phase \in {"running", "closing", "closed"}

(* The budget of lines 9-23: whatever requests interleave between the two   *)
(* awaits of get(), the slices in the map never add up to more than         *)
(* PROJECT_BUDGET.                                                          *)
BudgetRespected == Allocated(pools) <= PROJECT_BUDGET

(* What get() returns from the map is usable: until the process shuts down, *)
(* a cached entry's pool has not been ended by a reap or an evict, and      *)
(* belongs to that project.                                                 *)
CachedPoolIsOpen ==
    phase = "running" =>
        \A p \in Cached : LET h == handles[pools[p].pool]
                          IN  h.open /\ h.project = p

(* The reaper takes no pool away from a request that got it recently: a     *)
(* pool the timer or a reap under pressure closes has been held, by every   *)
(* request that holds it, for longer than the aggressive window.            *)
ReapSparesRecentRequests ==
    [][(ReapTimer \/ \E r \in Requests : OpenPool(r)) =>
          \A r \in Requests :
             /\ req[r].at = "using"
             /\ handles[req[r].pool].open /\ ~handles'[req[r].pool].open
             => req[r].heldFor > AggressiveIdle]_vars

(* A pool nobody asks for again is closed eventually: an entry that has     *)
(* started to age leaves the map unless a request renews it.                *)
IdlePoolIsReaped ==
    \A p \in Projects :
        (pools[p] # None /\ pools[p].age > 0)
            ~> (pools[p] = None \/ pools[p].age = 0)

(* What the budget is for, per the comment at lines 12-16: the pools that    *)
(* can still serve a connection, in the map or not, have slices that stay    *)
(* within the budget.  The code does not keep this: two requests that miss   *)
(* on the same project both open a pool, and the sum forgets the first one   *)
(* while requests still run on it.                                           *)
OpenPoolsWithinBudget ==
    Cardinality({s \in Reachable \X (1..MaxSlice) :
                    handles[s[1]].open /\ s[2] <= handles[s[1]].max})
        <= PROJECT_BUDGET
=============================================================================
