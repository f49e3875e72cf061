------------------------------ MODULE Storage ------------------------------
(***************************************************************************)
(* Object storage of one project (storage.routes.ts, the two drivers), its *)
(* quotas (quotas.ts, quotas.routes.ts) and the sampled figure they are    *)
(* judged by (usage-sampler.ts): requests interleaved await by await.      *)
(*                                                                         *)
(* There is one bucket name; a bucket that is deleted and created again    *)
(* has a new id and the keys of the old one.  The files are keyed by name, *)
(* the rows by id.  A file and its row are what they weigh.                *)
(*                                                                         *)
(* adrift, raced, partial and stuck are history, and so is written, the    *)
(* bytes stored since the walk began that measured the figure in           *)
(* project_usage; partial says that this walk could not read everything.   *)
(***************************************************************************)
EXTENDS Naturals, FiniteSets

CONSTANTS
    Requests,       \* requests at a time, samplings included
    Paths,          \* object paths of the bucket
    QuotaRows,      \* what project_quotas may say: [bytes, file]
    BucketLimit,    \* file_size_limit of the bucket, or MAX_UPLOAD_BYTES
    MaxFile,        \* the largest file sent; a bound
    Points,         \* uploads in a window of the rate limit
    MaxBuckets,     \* bound on the ids of buckets
    None

ASSUME StorageAssumption ==
    /\ QuotaRows \subseteq [bytes : Nat, file : Nat \ {0}] /\ QuotaRows # {}
    /\ BucketLimit \in Nat \ {0} /\ MaxFile \in Nat /\ MaxBuckets \in Nat /\ Points \in Nat
    /\ IsFiniteSet(Paths)

VARIABLES
    bucket,         \* id of the bucket, 0 when there is none
    lastId,         \* ids given so far
    rows,           \* storage_objects of the bucket: size, 0 for no row
    files,          \* the store: size, 0 for no file
    quota,          \* row of project_quotas
    cache,          \* quota:<project> in Redis
    usage,          \* project_usage.storage_bytes
    counter,        \* rl:upload:<project>: count, and whether it expires
    requests,
    written, adrift, raced, partial, stuck      \* history

vars == <<bucket, lastId, rows, files, quota, cache, usage, counter, requests,
          written, adrift, raced, partial, stuck>>
store == <<bucket, lastId, rows, files, adrift>>
limits == <<quota, cache, raced>>
figures == <<usage, written, partial>>
rate == <<counter, stuck>>

-----------------------------------------------------------------------------
Smaller(a, b) == IF a < b THEN a ELSE b

\* id is the bucket read, limit what the file may weigh, quotas what getQuotas
\* is about to return, second which of its two calls this is; left are paths to
\* be unlinked, or to be listed by a sampling; listed it has yet to weigh, figure
\* and since are its measurement, and part that something could not be read.
Idle == [at |-> "idle", id |-> 0, path |-> None, size |-> 0, cut |-> FALSE, limit |-> 0,
         quotas |-> None, second |-> FALSE, left |-> {}, listed |-> {}, figure |-> 0,
         since |-> 0, part |-> FALSE]

Set(r, x) == requests' = [requests EXCEPT ![r] = x]
At(r, at) == requests[r].at = at
Go(r, at) == Set(r, [requests[r] EXCEPT !.at = at])

Init ==
    /\ bucket = 0 /\ lastId = 0
    /\ rows = [p \in Paths |-> 0] /\ files = [p \in Paths |-> 0]
    /\ quota \in QuotaRows /\ cache = None
    /\ usage = 0 /\ written = 0
    /\ counter = [n |-> 0, expires |-> FALSE]
    /\ requests = [r \in Requests |-> Idle]
    /\ adrift = {} /\ raced = FALSE /\ partial = FALSE /\ stuck = FALSE

\* Paths a request is changing: from its first effect on the store to its last.
Touches(r) ==
    CASE requests[r].at \in {"put", "truncated", "insert", "unlink", "delete"} -> {requests[r].path}
      [] requests[r].at \in {"unlinkAll", "drop"} -> Paths
      [] OTHER -> {}
Touched == UNION {Touches(r) : r \in Requests}

-----------------------------------------------------------------------------
\* POST upload: INCR, and EXPIRE for the first of a window (rate-limit.ts).
Consume(r) ==
    /\ At(r, "idle")
    /\ LET n == Smaller(counter.n + 1, Points + 1) IN
       /\ counter' = [counter EXCEPT !.n = n]
       /\ \E p \in Paths, s \in 1..MaxFile :
             Set(r, IF counter.n = 0
                    THEN [Idle EXCEPT !.at = "expire", !.path = p, !.size = s]
                    ELSE IF n > Points THEN Idle
                    ELSE [Idle EXCEPT !.at = "bucket", !.path = p, !.size = s])
    /\ UNCHANGED <<store, limits, figures, stuck>>

Expire(r) ==
    /\ At(r, "expire")
    /\ counter' = [counter EXCEPT !.expires = counter.n > 0]
    /\ Set(r, IF counter.n > Points THEN Idle ELSE [requests[r] EXCEPT !.at = "bucket"])
    /\ UNCHANGED <<store, limits, figures, stuck>>

\* The window ends.
WindowEnds ==
    /\ counter.expires
    /\ counter' = [n |-> 0, expires |-> FALSE]
    /\ UNCHANGED <<store, limits, figures, stuck, requests>>

FindBucket(r) ==
    /\ At(r, "bucket")
    /\ Set(r, IF bucket = 0 THEN Idle
              ELSE [requests[r] EXCEPT !.at = "quotas", !.id = bucket])
    /\ UNCHANGED <<store, limits, figures, rate>>

-----------------------------------------------------------------------------
\* getQuotas, called twice by an upload: the limit of a file comes of the first,
\* the limit of the project of the second.
WithQuotas(r, q) ==
    LET x == requests[r]
        limit == Smaller(BucketLimit, q.file)
    IN  IF x.second
        THEN [x EXCEPT !.at = "usage", !.quotas = q]
        ELSE [x EXCEPT !.at = "quotas", !.second = TRUE, !.limit = limit, !.quotas = None,
                       !.size = Smaller(x.size, limit), !.cut = x.size > limit]

CachedQuotas(r) ==
    /\ At(r, "quotas") /\ cache # None
    /\ Set(r, WithQuotas(r, cache))
    /\ UNCHANGED <<store, limits, figures, rate>>

\* Nothing is cached, or Redis does not answer.
QuotasMissed(r) ==
    /\ At(r, "quotas")
    /\ Go(r, "row")
    /\ UNCHANGED <<store, limits, figures, rate>>

QuotaRow(r) ==
    /\ At(r, "row")
    /\ Set(r, [requests[r] EXCEPT !.at = "setex", !.quotas = quota])
    /\ UNCHANGED <<store, limits, figures, rate>>

\* SETEX; a failure of it is swallowed.
CacheQuotas(r) ==
    /\ At(r, "setex")
    /\ cache' \in {cache, requests[r].quotas}
    /\ Set(r, WithQuotas(r, requests[r].quotas))
    /\ UNCHANGED <<store, quota, raced, figures, rate>>

CacheExpires ==
    /\ cache # None
    /\ cache' = None
    /\ UNCHANGED <<store, quota, raced, figures, rate, requests>>

\* PATCH quotas: the row, and then the cache.
UpdateQuotas(r) ==
    /\ At(r, "idle")
    /\ quota' \in QuotaRows
    /\ Set(r, [Idle EXCEPT !.at = "invalidate"])
    /\ UNCHANGED <<store, cache, raced, figures, rate>>

HoldsOld(q) == \E o \in Requests : At(o, "setex") /\ requests[o].quotas # q

\* Mutant of InvalidateQuotaCache: the entry is left to its TTL.
InvalidateLater(r) ==
    /\ At(r, "invalidate")
    /\ raced' = (raced \/ HoldsOld(quota))
    /\ Set(r, Idle)
    /\ UNCHANGED <<store, quota, cache, figures, rate>>

\* DEL; somebody may hold the old row, to be cached after it.
InvalidateQuotaCache(r) ==
    /\ At(r, "invalidate")
    /\ cache' = None
    /\ raced' = (raced \/ HoldsOld(quota))
    /\ Set(r, Idle)
    /\ UNCHANGED <<store, quota, figures, rate>>

\* Redis does not answer, which is swallowed, or the API goes down.
InvalidateFails(r) ==
    /\ At(r, "invalidate")
    /\ raced' = TRUE
    /\ Set(r, Idle)
    /\ UNCHANGED <<store, quota, cache, figures, rate>>

-----------------------------------------------------------------------------
\* getUsage: what the last sample wrote, which may be long ago.
UsageWith(bytes) == usage + bytes

\* enforceSampledQuota, with the limit of a file as the bytes to come.
EnforceSampledQuota(r) ==
    /\ At(r, "usage")
    /\ Set(r, IF UsageWith(requests[r].limit) > requests[r].quotas.bytes THEN Idle
              ELSE [requests[r] EXCEPT !.at = "put", !.quotas = None, !.second = FALSE])
    /\ UNCHANGED <<store, limits, figures, rate>>

\* What other requests of the same path make of it is theirs to say.
Crossing(r, ps) ==
    ps \cap UNION {Touches(o) : o \in Requests \ {r}}

\* Whoever is measuring may miss these bytes.
Missed(size) ==
    [o \in Requests |-> IF At(o, "walk") THEN [requests[o] EXCEPT !.since = @ + size]
                        ELSE requests[o]]

\* storage.put: a rename or a finished upload puts the whole file in place.
Put(r) ==
    LET x == requests[r] IN
    /\ At(r, "put")
    /\ files' = [files EXCEPT ![x.path] = x.size]
    /\ written' = written + x.size
    /\ requests' = [Missed(x.size) EXCEPT ![r].at = IF x.cut THEN "truncated" ELSE "insert"]
    /\ adrift' = adrift \cup Crossing(r, {x.path})
                        \cup (IF x.cut /\ files[x.path] # 0 THEN {x.path} ELSE {})
    /\ UNCHANGED <<bucket, lastId, rows, limits, usage, partial, rate>>

\* A PUT to a signed URL of S3, which any reader of the project may ask for, for
\* any path: no bucket, quota or limit is looked at, and no row is written.  (The
\* local driver's token for an upload is refused wherever it is shown.)
SignedPut ==
    /\ \E p \in Paths, size \in 1..MaxFile :
          /\ files' = [files EXCEPT ![p] = size]
          /\ written' = written + size
          /\ requests' = Missed(size)
          /\ adrift' = adrift \cup {p}
    /\ UNCHANGED <<bucket, lastId, rows, limits, usage, partial, rate>>

\* The driver throws, and nothing has changed.
PutFails(r) ==
    /\ At(r, "put")
    /\ Set(r, Idle)
    /\ UNCHANGED <<store, limits, figures, rate>>

\* Mutant of RemoveTruncated: the upload is refused and stays where it landed.
RemoveNothing(r) ==
    /\ At(r, "truncated")
    /\ Set(r, Idle)
    /\ UNCHANGED <<store, limits, figures, rate>>

\* A file over the limit arrived short: removed again, and refused.
RemoveTruncated(r) ==
    /\ At(r, "truncated")
    /\ files' = [files EXCEPT ![requests[r].path] = 0]
    /\ Set(r, Idle)
    /\ UNCHANGED <<bucket, lastId, rows, adrift, limits, figures, rate>>

\* INSERT ... ON CONFLICT DO UPDATE; fails if the bucket is another by now.
InsertObject(r) ==
    LET x == requests[r] IN
    /\ At(r, "insert")
    /\ IF bucket = x.id
       THEN rows' = [rows EXCEPT ![x.path] = x.size] /\ adrift' = adrift
       ELSE rows' = rows /\ adrift' = adrift \cup {x.path}
    /\ Set(r, Idle)
    /\ UNCHANGED <<bucket, lastId, files, limits, figures, rate>>

-----------------------------------------------------------------------------
\* POST buckets: check, INSERT, and UNIQUE(project_id, name).
CreateBucket ==
    /\ bucket = 0 /\ lastId < MaxBuckets
    /\ bucket' = lastId + 1 /\ lastId' = lastId + 1
    /\ UNCHANGED <<rows, files, adrift, limits, figures, rate, requests>>

\* DELETE objects: the file, and then the row of the bucket that was read.
DeleteObject(r) ==
    /\ At(r, "idle") /\ bucket # 0
    /\ \E p \in Paths :
          /\ Set(r, [Idle EXCEPT !.at = "unlink", !.id = bucket, !.path = p])
          /\ adrift' = adrift \cup Crossing(r, {p})
    /\ UNCHANGED <<bucket, lastId, rows, files, limits, figures, rate>>

Unlink(r) ==
    /\ At(r, "unlink")
    /\ files' = [files EXCEPT ![requests[r].path] = 0]
    /\ adrift' = adrift \cup Crossing(r, {requests[r].path})
    /\ Go(r, "delete")
    /\ UNCHANGED <<bucket, lastId, rows, limits, figures, rate>>

\* Whatever the store answers is swallowed.
UnlinkFails(r) ==
    /\ At(r, "unlink")
    /\ adrift' = adrift \cup {requests[r].path}
    /\ Go(r, "delete")
    /\ UNCHANGED <<bucket, lastId, rows, files, limits, figures, rate>>

DeleteRow(r) ==
    /\ At(r, "delete")
    /\ rows' = IF bucket = requests[r].id THEN [rows EXCEPT ![requests[r].path] = 0] ELSE rows
    /\ Set(r, Idle)
    /\ UNCHANGED <<bucket, lastId, files, adrift, limits, figures, rate>>

\* DELETE buckets/:bucket: its objects are listed, unlinked one by one, and the
\* row goes with theirs.
DeleteBucket(r) ==
    /\ At(r, "idle") /\ bucket # 0
    /\ Set(r, [Idle EXCEPT !.at = "unlinkAll", !.id = bucket,
                           !.left = {p \in Paths : rows[p] # 0}])
    /\ adrift' = adrift \cup Crossing(r, Paths)
    /\ UNCHANGED <<bucket, lastId, rows, files, limits, figures, rate>>

UnlinkNext(r) ==
    /\ At(r, "unlinkAll")
    /\ \E p \in requests[r].left :
          /\ Set(r, [requests[r] EXCEPT !.left = @ \ {p}])
          /\ \/ files' = [files EXCEPT ![p] = 0] /\ adrift' = adrift
             \/ files' = files /\ adrift' = adrift \cup {p}
    /\ UNCHANGED <<bucket, lastId, rows, limits, figures, rate>>

DropBucket(r) ==
    /\ At(r, "unlinkAll") /\ requests[r].left = {}
    /\ IF bucket = requests[r].id
       THEN bucket' = 0 /\ rows' = [p \in Paths |-> 0]
       ELSE UNCHANGED <<bucket, rows>>
    /\ Set(r, Idle)
    /\ UNCHANGED <<lastId, files, adrift, limits, figures, rate>>

-----------------------------------------------------------------------------
\* The bytes stored at some paths, and how many there are in all.
Bytes(ps) == {b \in ps \X (1..MaxFile) : b[2] <= files[b[1]]}
Total == Cardinality(Bytes(Paths))

\* sampleProjectUsage, by the worker's timer or POST quotas/resample.  The figure
\* of before is for a usage() that throws, and neither driver's does.
SampleBegins(r) ==
    /\ At(r, "idle")
    /\ Set(r, [Idle EXCEPT !.at = "walk", !.left = Paths])
    /\ UNCHANGED <<store, limits, figures, rate>>

\* Mutant of ListNext: the first page is all there is.
ListFirst(r) ==
    /\ At(r, "walk")
    /\ \E ps \in SUBSET requests[r].left \ {{}} :
          Set(r, [requests[r] EXCEPT !.left = {}, !.listed = @ \cup {p \in ps : files[p] # 0}])
    /\ UNCHANGED <<store, limits, figures, rate>>

\* A directory, or a page of the listing, of what is there by now.
ListNext(r) ==
    /\ At(r, "walk")
    /\ \E ps \in SUBSET requests[r].left \ {{}} :
          Set(r, [requests[r] EXCEPT !.left = @ \ ps,
                                     !.listed = @ \cup {p \in ps : files[p] # 0}])
    /\ UNCHANGED <<store, limits, figures, rate>>

\* stat of a file listed, which may be gone.
Weigh(r) ==
    /\ At(r, "walk")
    /\ \E p \in requests[r].listed :
          Set(r, [requests[r] EXCEPT !.listed = @ \ {p}, !.figure = @ + files[p]])
    /\ UNCHANGED <<store, limits, figures, rate>>

\* A directory, a page or a file cannot be read: both drivers go on with what
\* they have, which may be nothing.
CannotRead(r) ==
    /\ At(r, "walk")
    /\ \E ps \in SUBSET (requests[r].left \cup requests[r].listed) \ {{}} :
          Set(r, [requests[r] EXCEPT !.left = @ \ ps, !.listed = @ \ ps, !.part = TRUE])
    /\ UNCHANGED <<store, limits, figures, rate>>

\* The figure, with what was stored meanwhile still to be counted.
RecordUsage(r) ==
    LET x == requests[r] IN
    /\ At(r, "walk") /\ x.left = {} /\ x.listed = {}
    /\ usage' = x.figure /\ written' = x.since /\ partial' = x.part
    /\ Set(r, Idle)
    /\ UNCHANGED <<store, limits, rate>>

-----------------------------------------------------------------------------
\* A statement fails or the API goes down: what was done stays done.
HandlerDies(r) ==
    /\ requests[r].at \notin {"idle", "invalidate"}
    /\ adrift' = IF requests[r].at \in {"truncated", "insert", "delete", "unlinkAll"}
                 THEN adrift \cup Touches(r) ELSE adrift
    /\ stuck' = (stuck \/ At(r, "expire"))
    /\ Set(r, Idle)
    /\ UNCHANGED <<bucket, lastId, rows, files, limits, figures, counter>>

Upload(r) ==
    \/ Consume(r) \/ Expire(r) \/ FindBucket(r)
    \/ CachedQuotas(r) \/ QuotasMissed(r) \/ QuotaRow(r) \/ CacheQuotas(r)
    \/ EnforceSampledQuota(r) \/ Put(r) \/ PutFails(r) \/ RemoveTruncated(r) \/ InsertObject(r)

Delete(r) ==
    \/ DeleteObject(r) \/ Unlink(r) \/ UnlinkFails(r) \/ DeleteRow(r)
    \/ DeleteBucket(r) \/ UnlinkNext(r) \/ DropBucket(r)

Sample(r) ==
    SampleBegins(r) \/ ListNext(r) \/ Weigh(r) \/ CannotRead(r) \/ RecordUsage(r)

Next ==
    \/ \E r \in Requests :
          \/ Upload(r) \/ Delete(r) \/ Sample(r)
          \/ UpdateQuotas(r) \/ InvalidateQuotaCache(r) \/ InvalidateFails(r)
          \/ HandlerDies(r)
    \/ WindowEnds \/ CacheExpires \/ CreateBucket \/ SignedPut

Spec == Init /\ [][Next]_vars

-----------------------------------------------------------------------------
\* Rows, files, figures and requests keep their shape.
TypeOK ==
    /\ bucket \in 0..lastId /\ lastId \in 0..MaxBuckets
    /\ rows \in [Paths -> 0..MaxFile] /\ files \in [Paths -> 0..MaxFile]
    /\ quota \in QuotaRows /\ cache \in QuotaRows \cup {None}
    /\ usage \in Nat /\ written \in Nat /\ counter.n \in 0..(Points + 1)
    /\ \A r \in Requests : requests[r].path \in Paths \cup {None} /\ requests[r].id \in 0..lastId

(* Files and rows tell the same story: a path has a row exactly when it has *)
(* a file, of that size, unless its requests overlapped, one of them ended  *)
(* between store and table, the store failed silently, an upload that was   *)
(* cut short landed on a file (storage.routes.ts:153-176, 239-240), or a    *)
(* signed URL was uploaded to (lines 186-200), which never writes a row.    *)
RowsMatchFiles == \A p \in Paths \ (adrift \cup Touched) : rows[p] = files[p]

(* What getQuotas finds in the cache is the row, once the operator's PATCH  *)
(* has returned (quotas.routes.ts:137, "rather than wait for the 60s TTL"), *)
(* unless a reader held the old row at the DEL or the DEL failed.           *)
CacheFreshUnlessRaced ==
    raced \/ cache \in {None, quota} \/ \E r \in Requests : At(r, "invalidate")

(* The figure the quota is judged by covers all that is stored but what was *)
(* written since its walk began (quotas.ts:16-19), though files come and go *)
(* under the walk and samplings cross, unless the walk could not read       *)
(* everything: the figure is then too small, down to zero, until the next   *)
(* sampling, which usage-sampler.ts:38-40 means to prevent and does not, as *)
(* usage() of either driver never throws.                                   *)
FigureCoversUnlessPartial == partial \/ Total <= usage + written
=============================================================================
