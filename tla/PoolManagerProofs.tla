------------------------- MODULE PoolManagerProofs -------------------------
(***************************************************************************)
(* Proofs about PoolManager, for every number of projects and requests and *)
(* every budget, slice bound, quota and idle window.                       *)
(***************************************************************************)
EXTENDS PoolManager, FiniteSetTheorems, TLAPS

-----------------------------------------------------------------------------
(* A slice is a number between the configured minimum and maximum, however *)
(* many pools are open and whatever the quota (sliceFor, lines 73-77).      *)
LEMMA SliceBounds ==
    ASSUME NEW n \in Nat, NEW q \in QuotaLimits \cup {None}
    PROVE  SliceFor(n, q) \in MIN_PER_PROJECT..MaxSlice
<1> DEFINE fairShare == PROJECT_BUDGET \div Larger(1, n)
           ceiling == IF q = None THEN MAX_PER_PROJECT
                      ELSE Smaller(MAX_PER_PROJECT, q)
<1>1. fairShare \in Int
  BY SizesAssumption DEF Larger
<1>2. ceiling \in Int /\ ceiling <= MAX_PER_PROJECT
  BY SizesAssumption DEF Smaller
<1>3. SliceFor(n, q) = Larger(MIN_PER_PROJECT, Smaller(ceiling, fairShare))
  BY DEF SliceFor
<1> HIDE DEF fairShare, ceiling
<1>4. QED
  BY <1>1, <1>2, <1>3, SizesAssumption DEF Larger, Smaller, MaxSlice

LEMMA MaxSliceType == MaxSlice \in Nat
BY SizesAssumption DEF MaxSlice, Larger

\* The slots of a map are finitely many, so their number is a number.
LEMMA SlotsFinite ==
    ASSUME NEW map PROVE IsFiniteSet(Slots(map)) /\ Allocated(map) \in Nat
<1>1. IsFiniteSet(1..MaxSlice)
  BY MaxSliceType, FS_Interval
<1>2. IsFiniteSet(Projects \X (1..MaxSlice))
  BY <1>1, ProjectsAssumption, FS_Product
<1>3. Slots(map) \in SUBSET (Projects \X (1..MaxSlice))
  BY DEF Slots
<1>4. IsFiniteSet(Slots(map))
  BY <1>2, <1>3, FS_Subset
<1>5. QED
  BY <1>4, FS_CardinalityType DEF Allocated

\* Closing pools frees slots: a map with fewer slots allocates no more.
LEMMA FewerSlots ==
    ASSUME NEW map, NEW less, Slots(less) \subseteq Slots(map)
    PROVE  Allocated(less) <= Allocated(map)
BY SlotsFinite, FS_Subset DEF Allocated

\* Storing an entry of slice max adds at most max to what is allocated.
LEMMA OneMoreSlice ==
    ASSUME NEW map, NEW new, NEW p \in Projects, NEW max \in 0..MaxSlice,
           Slots(new) \subseteq Slots(map) \cup ({p} \X (1..max))
    PROVE  Allocated(new) <= Allocated(map) + max
<1> DEFINE slice == {p} \X (1..max)
<1>1a. max \in Nat
  BY MaxSliceType
<1>1b. IsFiniteSet(1..max) /\ Cardinality(1..max) = max
  BY <1>1a, FS_Interval
<1>1. IsFiniteSet({p}) /\ Cardinality({p}) = 1
  BY FS_Singleton
<1>1c. IsFiniteSet(slice) /\ Cardinality(slice) = Cardinality({p}) * Cardinality(1..max)
  BY <1>1, <1>1b, FS_Product
<1> HIDE DEF slice
<1>2. IsFiniteSet(slice) /\ Cardinality(slice) = max
  BY <1>1, <1>1a, <1>1b, <1>1c
<1> USE DEF slice
<1>3. /\ IsFiniteSet(Slots(map) \cup slice)
      /\ Cardinality(Slots(map) \cup slice)
            = Allocated(map) + max - Cardinality(Slots(map) \cap slice)
  BY <1>2, SlotsFinite, FS_Union DEF Allocated
<1>4. Cardinality(Slots(map) \cap slice) \in Nat
  BY <1>2, SlotsFinite, FS_Intersection, FS_CardinalityType
<1>5. Cardinality(Slots(new)) <= Cardinality(Slots(map) \cup slice)
  BY <1>3, FS_Subset
<1>6. QED
  BY <1>3, <1>4, <1>5, SlotsFinite, MaxSliceType DEF Allocated

-----------------------------------------------------------------------------
(***************************************************************************)
(* The inductive invariant.  RequestShape says what a request has read by  *)
(* the time it stands at each point; EntriesAge, that an entry is no older *)
(* than the time since any request holding its pool got it, because a hit  *)
(* resets the age: it is what keeps the reaper off recent requests.        *)
(***************************************************************************)
RequestShape ==
    \A r \in Requests :
        /\ req[r].at \in {"loading", "open"} => req[r].project \in Projects
        /\ req[r].at = "using" => req[r].pool \in PoolIds
        /\ req[r].at # "using" => req[r].pool = None

EntriesAge ==
    \A r \in Requests, p \in Cached :
        req[r].pool = pools[p].pool
            => Smaller(pools[p].age, LongHeld) <= req[r].heldFor

\* No two entries share a pool; unlike CachedPoolIsOpen this outlives closeAll.
PoolsDistinct ==
    \A p, q \in Cached : pools[p].pool = pools[q].pool => p = q

IInv == /\ TypeOK /\ BudgetRespected /\ CachedPoolIsOpen /\ PoolsDistinct
        /\ RequestShape /\ EntriesAge

-----------------------------------------------------------------------------
LEMMA AgesType == OldestAge \in Nat /\ LongHeld \in Nat /\ LongHeld <= OldestAge
BY WindowsAssumption DEF OldestAge, LongHeld

LEMMA UsingType ==
    ASSUME NEW h \in PoolIds
    PROVE  /\ Using(h) \in Request
           /\ Using(h).at = "using" /\ Using(h).pool = h /\ Using(h).heldFor = 0
BY AgesType DEF Using, Request

\* Closing the pools of any set of projects keeps what the invariant says of
\* the map and the handles.
LEMMA ForgetStep ==
    ASSUME TypeOK, PoolsDistinct, NEW S \in SUBSET Projects
    PROVE  /\ Forget(S) \in [Projects -> Entry \cup {None}]
           /\ EndPools(S) \in [PoolIds -> Handle]
           /\ Allocated(Forget(S)) <= Allocated(pools)
           /\ \A p \in Projects : Forget(S)[p] # None =>
                 /\ Forget(S)[p] = pools[p]
                 /\ EndPools(S)[pools[p].pool] = handles[pools[p].pool]
<1>1. Forget(S) \in [Projects -> Entry \cup {None}]
  BY DEF Forget, TypeOK
<1>2. EndPools(S) \in [PoolIds -> Handle]
  <2>1. Closed \in Handle
    BY MaxSliceType DEF Closed, Handle
  <2>2. QED
    BY <2>1 DEF EndPools, TypeOK
<1>3. \A p \in Projects : Forget(S)[p] # None => p \notin S /\ Forget(S)[p] = pools[p]
  BY DEF Forget
<1>4. Slots(Forget(S)) \subseteq Slots(pools)
  BY <1>3 DEF Slots
<1>5. Allocated(Forget(S)) <= Allocated(pools)
  BY <1>4, FewerSlots
<1>6. ASSUME NEW p \in Projects, Forget(S)[p] # None
      PROVE  EndPools(S)[pools[p].pool] = handles[pools[p].pool]
  <2>1. p \notin S /\ pools[p] # None /\ pools[p].pool \in PoolIds
    BY <1>3, <1>6 DEF TypeOK, Entry
  <2>2. \A q \in S : ~(pools[q] # None /\ pools[q].pool = pools[p].pool)
    BY <2>1 DEF PoolsDistinct, Cached
  <2>3. QED
    BY <2>1, <2>2 DEF EndPools
<1>7. QED
  BY <1>1, <1>2, <1>3, <1>5, <1>6

LEMMA InitInv == Init => IInv
<1> SUFFICES ASSUME Init PROVE IInv
  OBVIOUS
<1>1. TypeOK
  BY MaxSliceType, AgesType DEF Init, TypeOK, Entry, Handle, Closed, Request, NoRequest
<1>2. BudgetRespected
  <2>1. Slots(pools) = {}
    BY DEF Init, Slots
  <2>2. QED
    BY <2>1, FS_EmptySet, SizesAssumption DEF BudgetRespected, Allocated
<1>3. CachedPoolIsOpen /\ PoolsDistinct /\ RequestShape /\ EntriesAge
  BY DEF Init, CachedPoolIsOpen, PoolsDistinct, RequestShape, EntriesAge, Cached, NoRequest
<1>4. QED
  BY <1>1, <1>2, <1>3 DEF IInv

\* A hit: the entry's age restarts at the moment the request gets the pool.
LEMMA GetCachedStep ==
    ASSUME IInv, NEW r \in Requests, NEW p \in Projects, GetCached(r, p)
    PROVE  IInv'
<1> USE DEF IInv
<1>1. /\ p \in Cached /\ pools[p] \in Entry /\ pools[p].pool \in PoolIds
      /\ handles' = handles /\ phase' = phase
  BY DEF GetCached, TypeOK, Entry, Cached
<1>2. /\ pools' = [pools EXCEPT ![p].age = 0]
      /\ req' = [req EXCEPT ![r] = Using(pools[p].pool)]
  BY DEF GetCached
<1>a. [pools[p] EXCEPT !.age = 0] \in Entry
  BY <1>1, AgesType DEF Entry
<1>b. /\ Using(pools[p].pool) \in Request
      /\ Using(pools[p].pool).at = "using"
      /\ Using(pools[p].pool).pool = pools[p].pool
  BY <1>1, UsingType
<1>3. TypeOK'
  BY <1>1, <1>2, <1>a, <1>b DEF TypeOK
<1>4. Cached' = Cached
  BY <1>1, <1>2, <1>a, NoneAssumption DEF Cached, TypeOK
<1>5. \A q \in Cached : /\ pools'[q].pool = pools[q].pool
                         /\ pools'[q].max = pools[q].max
                         /\ pools'[q].age = IF q = p THEN 0 ELSE pools[q].age
  BY <1>1, <1>2 DEF Cached, TypeOK, Entry
<1>6. BudgetRespected'
  <2>1. Slots(pools') \subseteq Slots(pools)
    BY <1>4, <1>5 DEF Slots, Cached
  <2>2. QED
    BY <2>1, FewerSlots, SlotsFinite, SizesAssumption DEF BudgetRespected, Allocated
<1>7. CachedPoolIsOpen' /\ PoolsDistinct'
  BY <1>1, <1>4, <1>5 DEF CachedPoolIsOpen, PoolsDistinct
<1>8. RequestShape'
  BY <1>1, <1>2, <1>b DEF RequestShape, TypeOK
<1>9. EntriesAge'
  <2> SUFFICES ASSUME NEW s \in Requests, NEW q \in Cached,
                      req'[s].pool = pools'[q].pool
               PROVE  Smaller(pools'[q].age, LongHeld) <= req'[s].heldFor
    BY <1>4 DEF EntriesAge
  <2>1. pools[q].age \in Nat /\ req'[s].heldFor \in Nat
    BY <1>3, AgesType DEF TypeOK, Entry, Request, Cached
  <2>2. CASE q = p
    BY <1>5, <2>1, <2>2, AgesType DEF Smaller
  <2>3. CASE q # p
    <3>1. pools[q].pool # pools[p].pool
      BY <1>1, <2>3 DEF PoolsDistinct
    <3>2. s # r
      BY <1>2, <1>5, <1>b, <2>3, <3>1 DEF TypeOK
    <3>3. QED
      BY <1>2, <1>5, <2>3, <3>2 DEF EntriesAge, TypeOK
  <2>4. QED
    BY <2>2, <2>3
<1>10. QED
  BY <1>3, <1>6, <1>7, <1>8, <1>9

\* Steps of a request that leave the map and the handles alone and let it hold
\* no pool afterwards.
LEMMA RequestStep ==
    ASSUME IInv, NEW r \in Requests, UNCHANGED <<pools, handles, phase>>,
           NEW now \in Request, req' = [req EXCEPT ![r] = now],
           now.pool = None, now.at # "using",
           now.at \in {"loading", "open"} => now.project \in Projects
    PROVE  IInv'
<1> USE DEF IInv
<1>1. TypeOK'
  BY DEF TypeOK
<1>2. BudgetRespected' /\ CachedPoolIsOpen' /\ PoolsDistinct'
  BY DEF BudgetRespected, CachedPoolIsOpen, PoolsDistinct, Cached, Allocated, Slots
<1>3. RequestShape'
  BY DEF RequestShape, TypeOK
<1>4. EntriesAge'
  <2>1. \A q \in Cached : pools[q].pool # None
    BY NoneAssumption DEF Cached, TypeOK, Entry
  <2>2. QED
    BY <2>1 DEF EntriesAge, Cached, TypeOK
<1>5. QED
  BY <1>1, <1>2, <1>3, <1>4

LEMMA WaitingSteps ==
    ASSUME IInv, NEW r \in Requests,
           \/ \E p \in Projects : GetMiss(r, p)
           \/ CredentialsFailed(r) \/ QuotaLoaded(r) \/ Release(r)
    PROVE  IInv'
<1>1. TypeOK /\ RequestShape
  BY DEF IInv
<1>2. NoRequest \in Request
  BY AgesType DEF NoRequest, Request
<1>3. CASE \E p \in Projects : GetMiss(r, p)
  <2>1. PICK p \in Projects : GetMiss(r, p)
    BY <1>3
  <2> DEFINE now == [req[r] EXCEPT !.at = "loading", !.project = p]
  <2>2. now \in Request /\ now.pool = None /\ now.at = "loading" /\ now.project = p
    BY <1>1, <2>1 DEF TypeOK, RequestShape, Request, GetMiss
  <2>3. req' = [req EXCEPT ![r] = now] /\ UNCHANGED <<pools, handles, phase>>
    BY <1>1, <2>1 DEF GetMiss, TypeOK, Request
  <2> HIDE DEF now
  <2>4. QED
    BY <2>2, <2>3, RequestStep
<1>4. CASE CredentialsFailed(r) \/ Release(r)
  BY <1>2, <1>4, RequestStep DEF CredentialsFailed, Release, NoRequest
<1>5. CASE QuotaLoaded(r)
  <2>1. PICK q \in QuotaLimits \cup {None} :
          req' = [req EXCEPT ![r].at = "open", ![r].quotaMax = q]
    BY <1>5 DEF QuotaLoaded
  <2> DEFINE now == [req[r] EXCEPT !.at = "open", !.quotaMax = q]
  <2>2. /\ now \in Request /\ now.pool = None /\ now.at = "open"
        /\ now.project \in Projects
    BY <1>1, <1>5 DEF TypeOK, RequestShape, Request, QuotaLoaded
  <2>3. req' = [req EXCEPT ![r] = now] /\ UNCHANGED <<pools, handles, phase>>
    BY <1>1, <1>5, <2>1 DEF QuotaLoaded, TypeOK, Request
  <2> HIDE DEF now
  <2>4. QED
    BY <2>2, <2>3, RequestStep
<1>6. QED
  BY <1>3, <1>4, <1>5

\* Evictions, the reaper and closeAll: pools leave the map, requests keep theirs.
LEMMA ForgetPreserves ==
    ASSUME IInv, NEW S \in SUBSET Projects,
           pools' = Forget(S), handles' = EndPools(S), req' = req,
           phase' = phase
    PROVE  IInv'
<1> USE DEF IInv
<1>1. /\ pools' \in [Projects -> Entry \cup {None}]
      /\ handles' \in [PoolIds -> Handle]
      /\ Allocated(pools') <= Allocated(pools)
      /\ \A p \in Projects : pools'[p] # None =>
            /\ pools'[p] = pools[p]
            /\ handles'[pools[p].pool] = handles[pools[p].pool]
  BY ForgetStep
<1>2. TypeOK'
  BY <1>1 DEF TypeOK
<1>3. BudgetRespected'
  BY <1>1, SlotsFinite, SizesAssumption DEF BudgetRespected
<1>4. CachedPoolIsOpen' /\ PoolsDistinct'
  BY <1>1 DEF CachedPoolIsOpen, PoolsDistinct, Cached
<1>5. RequestShape'
  BY DEF RequestShape
<1>6. EntriesAge'
  BY <1>1 DEF EntriesAge, Cached
<1>7. QED
  BY <1>2, <1>3, <1>4, <1>5, <1>6

\* closeAll ends every pool, then empties the map.
LEMMA ShutdownSteps == ASSUME IInv, CloseAll \/ ClearMap PROVE IInv'
<1> USE DEF IInv
<1>1. CASE CloseAll
  <2>1. EndPools(Projects) \in [PoolIds -> Handle]
    BY ForgetStep
  <2>2. /\ pools' = pools /\ req' = req /\ phase' = "closing"
        /\ handles' = EndPools(Projects)
    BY <1>1 DEF CloseAll
  <2>3. TypeOK'
    BY <2>1, <2>2 DEF TypeOK
  <2>4. BudgetRespected' /\ CachedPoolIsOpen' /\ PoolsDistinct'
    BY <2>2 DEF BudgetRespected, CachedPoolIsOpen, PoolsDistinct, Cached, Allocated, Slots
  <2>5. RequestShape' /\ EntriesAge'
    BY <2>2 DEF RequestShape, EntriesAge, Cached
  <2>6. QED
    BY <2>3, <2>4, <2>5
<1>2. CASE ClearMap
  <2>1. /\ \A p \in Projects : pools'[p] = None
        /\ pools' \in [Projects -> Entry \cup {None}]
        /\ req' = req /\ handles' = handles /\ phase' = "closed"
    BY <1>2 DEF ClearMap, Forget
  <2>2. TypeOK'
    BY <2>1 DEF TypeOK
  <2>3. BudgetRespected'
    <3>1. Slots(pools') = {}
      BY <2>1 DEF Slots
    <3>2. QED
      BY <3>1, FS_EmptySet, SizesAssumption DEF BudgetRespected, Allocated
  <2>4. CachedPoolIsOpen' /\ PoolsDistinct' /\ RequestShape' /\ EntriesAge'
    BY <2>1 DEF CachedPoolIsOpen, PoolsDistinct, RequestShape, EntriesAge, Cached
  <2>5. QED
    BY <2>2, <2>3, <2>4
<1>3. QED
  BY <1>1, <1>2

LEMMA RestartStep == ASSUME Restart PROVE IInv'
<1>1. TypeOK'
  BY MaxSliceType, AgesType DEF Restart, TypeOK, Entry, Handle, Closed, Request, NoRequest
<1>2. BudgetRespected'
  <2>1. Slots(pools') = {}
    BY DEF Restart, Slots
  <2>2. QED
    BY <2>1, FS_EmptySet, SizesAssumption DEF BudgetRespected, Allocated
<1>3. CachedPoolIsOpen' /\ PoolsDistinct' /\ RequestShape' /\ EntriesAge'
  BY DEF Restart, CachedPoolIsOpen, PoolsDistinct, RequestShape, EntriesAge, Cached, NoRequest
<1>4. QED
  BY <1>1, <1>2, <1>3 DEF IInv

\* A tick ages entries and holds together, so no entry overtakes a request.
LEMMA TickStep == ASSUME IInv, Tick PROVE IInv'
<1> USE DEF IInv
<1> DEFINE older(p) == [pools[p] EXCEPT !.age = Smaller(@ + 1, OldestAge)]
           longer(r) == [req[r] EXCEPT !.heldFor = Smaller(@ + 1, LongHeld)]
<1>1. ASSUME NEW p \in Projects, pools[p] # None
      PROVE  /\ pools'[p] = older(p) /\ older(p) \in Entry
             /\ older(p).pool = pools[p].pool /\ older(p).max = pools[p].max
             /\ older(p).age = Smaller(pools[p].age + 1, OldestAge)
  BY <1>1, AgesType DEF Tick, TypeOK, Entry, Smaller
<1>2. ASSUME NEW r \in Requests, req[r].at = "using"
      PROVE  /\ req'[r] = longer(r) /\ longer(r) \in Request
             /\ longer(r).at = req[r].at /\ longer(r).pool = req[r].pool
             /\ longer(r).project = req[r].project
             /\ longer(r).heldFor = Smaller(req[r].heldFor + 1, LongHeld)
  BY <1>2, AgesType DEF Tick, TypeOK, Request, Smaller
<1>3. /\ \A p \in Projects : pools[p] = None => pools'[p] = None
      /\ \A r \in Requests : req[r].at # "using" => req'[r] = req[r]
      /\ handles' = handles /\ phase' = phase
      /\ pools' = [p \in Projects |-> pools'[p]]
      /\ req' = [r \in Requests |-> req'[r]]
  BY DEF Tick
<1> HIDE DEF older, longer
<1>4. Cached' = Cached
  BY <1>1, <1>3, NoneAssumption DEF Cached
<1>5. TypeOK'
  <2>1. \A p \in Projects : pools'[p] \in Entry \cup {None}
    BY <1>1, <1>3
  <2>2. \A r \in Requests : req'[r] \in Request
    BY <1>2, <1>3 DEF TypeOK
  <2>3. QED
    BY <2>1, <2>2, <1>3 DEF TypeOK
<1>6. BudgetRespected'
  <2>1. Slots(pools') \subseteq Slots(pools)
    BY <1>1, <1>4 DEF Slots, Cached
  <2>2. QED
    BY <2>1, FewerSlots, SlotsFinite, SizesAssumption DEF BudgetRespected
<1>7. CachedPoolIsOpen' /\ PoolsDistinct'
  BY <1>1, <1>3, <1>4 DEF CachedPoolIsOpen, PoolsDistinct, Cached
<1>8. RequestShape'
  BY <1>2, <1>3 DEF RequestShape
<1>9. EntriesAge'
  <2> SUFFICES ASSUME NEW r \in Requests, NEW p \in Cached,
                      req'[r].pool = pools'[p].pool
               PROVE  Smaller(pools'[p].age, LongHeld) <= req'[r].heldFor
    BY <1>4 DEF EntriesAge
  <2>1. /\ pools[p] \in Entry /\ pools[p].pool \in PoolIds /\ pools[p].age \in Nat
        /\ pools'[p].pool = pools[p].pool
        /\ pools'[p].age = Smaller(pools[p].age + 1, OldestAge)
    BY <1>1 DEF Cached, TypeOK, Entry
  <2>2. req[r].at = "using"
    BY <1>3, <2>1, NoneAssumption DEF RequestShape
  <2>3. /\ req[r].heldFor \in Nat /\ req'[r].pool = req[r].pool
        /\ req'[r].heldFor = Smaller(req[r].heldFor + 1, LongHeld)
    BY <1>2, <2>2 DEF TypeOK, Request
  <2>4. Smaller(pools[p].age, LongHeld) <= req[r].heldFor
    BY <2>1, <2>3 DEF EntriesAge
  <2>5. QED
    BY <2>1, <2>3, <2>4, AgesType DEF Smaller
<1>10. QED
  BY <1>5, <1>6, <1>7, <1>8, <1>9

(***************************************************************************)
(* The synchronous block of get().  The map after the reap is no larger    *)
(* than before; the new entry takes a pool nobody knows, and is stored     *)
(* only if its slice fits on top of everything the map then allocates.     *)
(***************************************************************************)
LEMMA OpenPoolStep ==
    ASSUME IInv, NEW r \in Requests, OpenPool(r)
    PROVE  IInv'
<1> USE DEF IInv
<1> DEFINE p == req[r].project
           max == SliceFor(Cardinality(Cached) + 1, req[r].quotaMax)
           reaped == IF Fits(pools, max) THEN {} ELSE Idle(AggressiveIdle)
           left == Forget(reaped)
           ended == EndPools(reaped)
           h == CHOOSE h \in Fresh : TRUE
<1>1. /\ p \in Projects /\ phase' = phase
      /\ req[r] \in Request /\ req[r].quotaMax \in QuotaLimits \cup {None}
  BY DEF OpenPool, RequestShape, TypeOK, Request
<1>2. max \in MIN_PER_PROJECT..MaxSlice
  <2>1. Cardinality(Cached) \in Nat
    <3>1. Cached \in SUBSET Projects
      BY DEF Cached
    <3>2. QED
      BY <3>1, ProjectsAssumption, FS_Subset, FS_CardinalityType
  <2>2. Cardinality(Cached) + 1 \in Nat
    BY <2>1
  <2>3. QED
    BY <1>1, <2>2, SliceBounds
<1>3. reaped \in SUBSET Projects
  BY DEF Idle, Cached
<1>4. /\ left \in [Projects -> Entry \cup {None}]
      /\ ended \in [PoolIds -> Handle]
      /\ Allocated(left) <= Allocated(pools)
      /\ \A q \in Projects : left[q] # None =>
            /\ left[q] = pools[q]
            /\ ended[pools[q].pool] = handles[pools[q].pool]
  BY <1>3, ForgetStep
<1>5. \/ /\ pools' = left /\ handles' = ended
         /\ req' = [req EXCEPT ![r] = [NoRequest EXCEPT !.at = "refused"]]
      \/ /\ Fits(left, max) /\ Fresh # {}
         /\ pools' = [left EXCEPT ![p] = [pool |-> h, age |-> 0, max |-> max]]
         /\ handles' = [ended EXCEPT ![h] = [open |-> TRUE, project |-> p, max |-> max]]
         /\ req' = [req EXCEPT ![r] = Using(h)]
  BY DEF OpenPool
<1>6. \A q \in Projects : pools[q] # None => pools[q] \in Entry /\ pools[q].pool \in PoolIds
  BY DEF TypeOK, Entry
<1> HIDE DEF p, max, reaped, left, ended, h
<1>7. CASE /\ pools' = left /\ handles' = ended
           /\ req' = [req EXCEPT ![r] = [NoRequest EXCEPT !.at = "refused"]]
  <2> DEFINE refused == [NoRequest EXCEPT !.at = "refused"]
  <2>1. refused \in Request /\ refused.pool = None /\ refused.at = "refused"
    BY AgesType DEF NoRequest, Request
  <2> HIDE DEF refused
  <2>2. req' = [req EXCEPT ![r] = refused]
    BY <1>7 DEF refused
  <2>3. TypeOK'
    BY <1>1, <1>4, <1>7, <2>1, <2>2 DEF TypeOK
  <2>4. BudgetRespected'
    BY <1>4, <1>7, SlotsFinite, SizesAssumption DEF BudgetRespected
  <2>5. CachedPoolIsOpen' /\ PoolsDistinct'
    BY <1>1, <1>4, <1>7 DEF CachedPoolIsOpen, PoolsDistinct, Cached
  <2>6. RequestShape'
    BY <2>1, <2>2 DEF RequestShape, TypeOK
  <2>7. EntriesAge'
    BY <1>4, <1>6, <1>7, <2>1, <2>2, NoneAssumption DEF EntriesAge, Cached, TypeOK
  <2>8. QED
    BY <2>3, <2>4, <2>5, <2>6, <2>7
<1>8. CASE /\ Fits(left, max) /\ Fresh # {}
           /\ pools' = [left EXCEPT ![p] = [pool |-> h, age |-> 0, max |-> max]]
           /\ handles' = [ended EXCEPT ![h] = [open |-> TRUE, project |-> p, max |-> max]]
           /\ req' = [req EXCEPT ![r] = Using(h)]
  <2>1. /\ h \in PoolIds
        /\ \A q \in Cached : pools[q].pool # h
        /\ \A s \in Requests : req[s].pool # h
    BY <1>8 DEF h, Fresh, Reachable
  <2> DEFINE entry == [pool |-> h, age |-> 0, max |-> max]
             handle == [open |-> TRUE, project |-> p, max |-> max]
  <2>2. /\ entry \in Entry /\ entry # None
        /\ entry.pool = h /\ entry.age = 0 /\ entry.max = max
    BY <1>2, <2>1, AgesType, NoneAssumption DEF Entry
  <2>3. handle \in Handle /\ handle.open /\ handle.project = p
    BY <1>1, <1>2, MaxSliceType, SizesAssumption DEF Handle
  <2>4. /\ pools' = [left EXCEPT ![p] = entry]
        /\ handles' = [ended EXCEPT ![h] = handle]
        /\ req' = [req EXCEPT ![r] = Using(h)]
    BY <1>8
  <2> HIDE DEF entry, handle
  <2>5. TypeOK'
    BY <1>1, <1>4, <2>1, <2>2, <2>3, <2>4, UsingType DEF TypeOK
  <2>6. /\ pools'[p] = entry
        /\ \A q \in Projects : q # p => pools'[q] = left[q]
    BY <1>1, <1>4, <2>4
  <2>7. BudgetRespected'
    <3>1. max \in 0..MaxSlice
      BY <1>2, SizesAssumption, MaxSliceType
    <3>2. Slots(pools') \subseteq Slots(left) \cup ({p} \X (1..max))
      BY <1>1, <2>2, <2>6, <3>1, MaxSliceType DEF Slots
    <3>3. Allocated(pools') <= Allocated(left) + max
      BY <1>1, <3>1, <3>2, OneMoreSlice
    <3>4. Allocated(left) + max <= PROJECT_BUDGET
      BY <1>8 DEF Fits
    <3>5. QED
      BY <3>1, <3>3, <3>4, SlotsFinite, SizesAssumption, MaxSliceType DEF BudgetRespected
  <2>8. CachedPoolIsOpen'
    <3>1. handles'[h] = handle /\ \A g \in PoolIds : g # h => handles'[g] = ended[g]
      BY <1>4, <2>1, <2>4
    <3>2. ASSUME NEW q \in Projects, q # p, pools'[q] # None, phase = "running"
          PROVE  handles'[pools'[q].pool].open /\ handles'[pools'[q].pool].project = q
      <4>1. pools'[q] = pools[q] /\ ended[pools[q].pool] = handles[pools[q].pool] /\ q \in Cached
        BY <1>4, <2>6, <3>2 DEF Cached
      <4>2. pools[q].pool # h /\ pools[q].pool \in PoolIds
        BY <1>6, <2>1, <4>1 DEF Cached
      <4>3. QED
        BY <3>1, <3>2, <4>1, <4>2 DEF CachedPoolIsOpen
    <3>3. QED
      BY <1>1, <2>2, <2>3, <2>6, <3>1, <3>2 DEF CachedPoolIsOpen, Cached
  <2>12. PoolsDistinct'
    <3>1. \A q \in Projects : q # p /\ pools'[q] # None =>
             pools'[q] = pools[q] /\ q \in Cached /\ pools[q].pool # h
      BY <1>4, <2>1, <2>6 DEF Cached
    <3>2. QED
      BY <2>2, <2>6, <3>1 DEF PoolsDistinct, Cached
  <2>9. RequestShape'
    BY <2>1, <2>4, UsingType DEF RequestShape, TypeOK
  <2>10. EntriesAge'
    <3> SUFFICES ASSUME NEW s \in Requests, NEW q \in Projects, pools'[q] # None,
                        req'[s].pool = pools'[q].pool
                 PROVE  Smaller(pools'[q].age, LongHeld) <= req'[s].heldFor
      BY DEF EntriesAge, Cached
    <3>1. CASE q = p
      <4>1. req'[s].heldFor \in Nat
        BY <2>5 DEF TypeOK, Request
      <4>2. QED
        BY <2>2, <2>6, <3>1, <4>1, AgesType DEF Smaller
    <3>2. CASE q # p
      <4>1. pools'[q] = pools[q] /\ q \in Cached
        BY <1>4, <2>6, <3>2 DEF Cached
      <4>2. s # r
        BY <2>1, <2>4, <4>1, UsingType DEF TypeOK
      <4>3. QED
        BY <2>4, <4>1, <4>2 DEF EntriesAge, TypeOK
    <3>3. QED
      BY <3>1, <3>2
  <2>11. QED
    BY <2>5, <2>7, <2>8, <2>9, <2>10, <2>12
<1>9. QED
  BY <1>5, <1>7, <1>8

-----------------------------------------------------------------------------
LEMMA NextInv == ASSUME IInv, [Next]_vars PROVE IInv'
<1>1. CASE \E r \in Requests, p \in Projects : GetCached(r, p)
  BY <1>1, GetCachedStep
<1>2. CASE \E r \in Requests : \/ \E p \in Projects : GetMiss(r, p)
                               \/ CredentialsFailed(r) \/ QuotaLoaded(r) \/ Release(r)
  BY <1>2, WaitingSteps
<1>3. CASE \E r \in Requests : OpenPool(r)
  BY <1>3, OpenPoolStep
<1>4. CASE \E p \in Projects : Evict(p)
  BY <1>4, ForgetPreserves DEF Evict, IInv, TypeOK
<1>5. CASE ReapTimer
  <2>1. Idle(IdleWindow) \in SUBSET Projects
    BY DEF Idle, Cached
  <2>2. QED
    BY <1>5, <2>1, ForgetPreserves DEF ReapTimer, IInv, TypeOK
<1>6. CASE CloseAll \/ ClearMap
  BY <1>6, ShutdownSteps
<1>7. CASE Restart
  BY <1>7, RestartStep
<1>8. CASE Tick
  BY <1>8, TickStep
<1>9. CASE UNCHANGED vars
  BY <1>9 DEF vars, IInv, TypeOK, BudgetRespected, CachedPoolIsOpen, PoolsDistinct, RequestShape,
              EntriesAge, Cached, Allocated, Slots
<1>10. QED
  BY <1>1, <1>2, <1>3, <1>4, <1>5, <1>6, <1>7, <1>8, <1>9 DEF Next

LEMMA Invariance == Spec => []IInv
BY InitInv, NextInv, PTL DEF Spec

(***************************************************************************)
(* Entries, pools and requests keep their types in every execution; in     *)
(* particular every slice handed out lies between MIN_PER_PROJECT and the  *)
(* larger of the two configured bounds (sliceFor, lines 73-77).            *)
(***************************************************************************)
THEOREM TypeCorrect == Spec => []TypeOK
BY Invariance, PTL DEF IInv

(***************************************************************************)
(* However requests, evictions, reaps and restarts interleave around the   *)
(* awaits of get(), the slices in the map never exceed the connection      *)
(* budget of lines 9-26.                                                   *)
(***************************************************************************)
THEOREM BudgetNeverExceeded == Spec => []BudgetRespected
BY Invariance, PTL DEF IInv

(***************************************************************************)
(* get() never returns a cached pool that has been ended, nor the pool of  *)
(* another project (get, evict and reap, lines 124-199).                   *)
(***************************************************************************)
THEOREM CachedPoolsUsable == Spec => []CachedPoolIsOpen
BY Invariance, PTL DEF IInv

(***************************************************************************)
(* Neither the reaper's timer nor a reap under budget pressure ends a pool *)
(* that a request got within the aggressive window (reap, lines 191-199).  *)
(***************************************************************************)
THEOREM RecentRequestsSpared == Spec => ReapSparesRecentRequests
<1>1. ASSUME IInv, ReapTimer \/ \E r \in Requests : OpenPool(r),
             NEW s \in Requests, req[s].at = "using",
             handles[req[s].pool].open, ~handles'[req[s].pool].open
      PROVE  req[s].heldFor > AggressiveIdle
  <2> DEFINE g == req[s].pool
  <2>1. g \in PoolIds
    BY <1>1 DEF IInv, RequestShape
  <2>2. PICK p \in Projects : /\ p \in Idle(AggressiveIdle) \cup Idle(IdleWindow)
                              /\ pools[p] # None /\ pools[p].pool = g
    <3>1. CASE ReapTimer
      BY <1>1, <2>1, <3>1 DEF ReapTimer, EndPools, Idle, Cached
    <3>2. CASE \E r \in Requests : OpenPool(r)
      <4>1. PICK r \in Requests : OpenPool(r)
        BY <3>2
      <4> DEFINE max == SliceFor(Cardinality(Cached) + 1, req[r].quotaMax)
                 reaped == IF Fits(pools, max) THEN {} ELSE Idle(AggressiveIdle)
                 h == CHOOSE h \in Fresh : TRUE
      <4>2. \/ handles' = EndPools(reaped)
            \/ /\ Fresh # {}
               /\ handles' = [EndPools(reaped) EXCEPT ![h] =
                                [open |-> TRUE, project |-> req[r].project, max |-> max]]
        BY <4>1 DEF OpenPool
      <4>3. Fresh # {} => h # g
        BY <2>1 DEF Fresh, Reachable
      <4> HIDE DEF max, h
      <4>4. handles'[g] = EndPools(reaped)[g]
        BY <2>1, <4>2, <4>3 DEF EndPools
      <4>5. QED
        BY <1>1, <2>1, <4>4 DEF EndPools, Idle, Cached
    <3>3. QED
      BY <1>1, <3>1, <3>2
  <2>3. /\ p \in Cached /\ pools[p].age \in Nat /\ pools[p].age > AggressiveIdle
        /\ req[s].heldFor \in Nat
    BY <1>1, <2>2, AgesType, WindowsAssumption
       DEF Idle, Cached, IInv, TypeOK, Entry, Request
  <2>4. Smaller(pools[p].age, LongHeld) <= req[s].heldFor
    BY <1>1, <2>2, <2>3 DEF IInv, EntriesAge
  <2>5. QED
    BY <2>3, <2>4, WindowsAssumption DEF Smaller, LongHeld
<1>2. IInv /\ [Next]_vars =>
        [(ReapTimer \/ \E r \in Requests : OpenPool(r)) =>
            \A r \in Requests :
               /\ req[r].at = "using"
               /\ handles[req[r].pool].open /\ ~handles'[req[r].pool].open
               => req[r].heldFor > AggressiveIdle]_vars
  BY <1>1
<1>3. QED
  BY <1>2, Invariance, PTL DEF Spec, ReapSparesRecentRequests
=============================================================================
