--------------------------- MODULE ServicesProofs ---------------------------
(***************************************************************************)
(* Two services of a project: object storage, for any number of requests   *)
(* and paths, and the change feed, for any number of sockets, users,       *)
(* deliveries, changes of the row and connections ever opened.             *)
(*                                                                         *)
(* Storage.  A request holds a path from its first effect on it, or from   *)
(* when a delete is about to begin, to its last.  InOrder says that one    *)
(* request at a time holds a path that is not adrift, and what it knows of *)
(* the file and the row: this is what is left of the two stories agreeing  *)
(* while a step of several is under way.  Fresh adds the rows that are     *)
(* about to be cached to the cached one, and Covered to the figure that is *)
(* recorded the ones being measured: each covers the paths its walk has    *)
(* been to, less what was stored since the walk began.                     *)
(*                                                                         *)
(* The feed.  OneConnection says how the LISTEN connection stands while    *)
(* nobody met and nothing was lost, and OnePlace that a version is then on *)
(* the wire, with one delivery, or with its sockets.  Judging says what a  *)
(* delivery that is under way may rely on: its version has not moved, and  *)
(* whom it allows could read it.                                           *)
(***************************************************************************)
EXTENDS Storage, Realtime, TLAPS, FiniteSetTheorems

-----------------------------------------------------------------------------
\* What a request is in the middle of.
Uploading == {"expire", "bucket", "quotas", "row", "setex", "usage", "put"}
Half == {"truncated", "insert", "unlink", "delete"}
Request == [at : Uploading \cup Half \cup {"idle", "unlinkAll", "invalidate", "walk"},
            id : 0..MaxBuckets, path : Paths \cup {None}, size : 0..MaxFile, cut : BOOLEAN,
            limit : Nat, quotas : QuotaRows \cup {None}, second : BOOLEAN, left : SUBSET Paths,
            listed : SUBSET Paths, figure : Nat, since : Nat, part : BOOLEAN]

Valid(x, last) ==
    /\ x.at \in Uploading \cup Half => x.path \in Paths
    /\ x.at \in {"setex", "usage"} => x.quotas \in QuotaRows
    /\ x.id \in 0..last

Shapes ==
    /\ TypeOK /\ counter \in [n : 0..(Points + 1), expires : BOOLEAN]
    /\ requests \in [Requests -> Request] /\ \A r \in Requests : Valid(requests[r], lastId)

-----------------------------------------------------------------------------
\* From here on a request is about to change p, or has changed it ...
Holds(x, p) == x.at = "unlinkAll" \/ (x.at \in Half /\ x.path = p)
\* ... and here it has.
Changed(x, p) == Holds(x, p) /\ x.at # "unlink"

\* What a request that holds p knows of it.
Knows(x, p) ==
    /\ x.at = "insert" => files[p] = x.size
    /\ x.at = "truncated" => rows[p] = 0
    /\ x.at \in {"unlink", "delete", "unlinkAll"} => bucket = x.id /\ bucket # 0
    /\ x.at = "delete" => files[p] = 0
    /\ x.at = "unlinkAll" => p \in x.left \/ files[p] = 0

\* One request at a time holds a path, and it knows how far the two stories are
\* apart; without one they agree.
InOrder(p) ==
    /\ \A q, r \in Requests : Holds(requests[q], p) /\ Holds(requests[r], p) => q = r
    /\ \A r \in Requests : Holds(requests[r], p) => Knows(requests[r], p)
    /\ (\A r \in Requests : ~Changed(requests[r], p)) => rows[p] = files[p]
PathsInOrder == \A p \in Paths \ adrift : InOrder(p)

\* Who is about to cache a row has the present one, or its DEL is to come.
Fresh ==
    \/ raced \/ \E r \in Requests : At(r, "invalidate")
    \/ /\ cache \in {None, quota}
       /\ \A r \in Requests : At(r, "setex") => requests[r].quotas = quota

\* What some files weigh at some paths, which is what Bytes says of the store.
BytesOf(f, ps) == {b \in ps \X (1..MaxFile) : b[2] <= f[b[1]]}
Weight(f, ps) == Cardinality(BytesOf(f, ps))

\* A walk that could read everything has weighed the paths it is done with, but
\* for what was stored there since it began.
Done(x) == Paths \ (x.left \cup x.listed)
WalkCovers(x) == x.at = "walk" => x.part \/ Weight(files, Done(x)) <= x.figure + x.since

\* The figure covers the store, and those being measured what they have seen.
Covered ==
    /\ partial \/ Weight(files, Paths) <= usage + written
    /\ \A r \in Requests : WalkCovers(requests[r])

StorageInv == Shapes /\ PathsInOrder /\ Fresh /\ Covered

-----------------------------------------------------------------------------
\* The shapes, to cite.
LEMMA Shape ==
    ASSUME StorageInv
    PROVE  /\ requests \in [Requests -> Request] /\ \A r \in Requests : Valid(requests[r], lastId)
           /\ bucket \in 0..lastId /\ lastId \in 0..MaxBuckets /\ MaxBuckets \in Nat
           /\ rows \in [Paths -> 0..MaxFile] /\ files \in [Paths -> 0..MaxFile] /\ MaxFile \in Nat
           /\ quota \in QuotaRows /\ cache \in QuotaRows \cup {None}
           /\ usage \in Nat /\ written \in Nat
           /\ counter \in [n : 0..(Points + 1), expires : BOOLEAN] /\ Points \in Nat
  BY StorageAssumption DEF StorageInv, Shapes, TypeOK

LEMMA RequestShape ==
    ASSUME StorageInv, NEW r \in Requests
    PROVE  requests[r] \in Request /\ Valid(requests[r], lastId)
  BY Shape

\* A request becomes x, and the others are what they were.
LEMMA OneMoves ==
    ASSUME StorageInv, NEW r \in Requests, NEW x \in Request, Set(r, x)
    PROVE  /\ requests' \in [Requests -> Request] /\ requests'[r] = x
           /\ \A o \in Requests \ {r} : requests'[o] = requests[o]
  BY Shape DEF Set

\* What is asked of a step for the shapes.
LEMMA ShapesKept ==
    ASSUME StorageInv, requests' \in [Requests -> Request],
           \A r \in Requests : requests'[r] = requests[r] \/ Valid(requests'[r], lastId'),
           bucket' \in 0..lastId', lastId' \in 0..MaxBuckets, lastId <= lastId',
           rows' \in [Paths -> 0..MaxFile], files' \in [Paths -> 0..MaxFile],
           quota' \in QuotaRows, cache' \in QuotaRows \cup {None},
           usage' \in Nat, written' \in Nat,
           counter' \in [n : 0..(Points + 1), expires : BOOLEAN]
    PROVE  Shapes'
<1>1. lastId \in Nat /\ lastId' \in Nat
  BY Shape
<1>2. ASSUME NEW r \in Requests PROVE Valid(requests'[r], lastId')
  <2>1. CASE requests'[r] = requests[r]
    BY <1>1, <2>1, Shape DEF Valid
  <2> QED
    BY <2>1
<1>3. TypeOK'
  <2>1. \A r \in Requests : requests'[r].path \in Paths \cup {None} /\ requests'[r].id \in 0..lastId'
    BY <1>2 DEF Request, Valid
  <2> QED
    BY <2>1 DEF TypeOK
<1> QED
  BY <1>2, <1>3 DEF Shapes

-----------------------------------------------------------------------------
\* A request that does not hold a path has no part in its story.
LEMMA NoPart ==
    ASSUME NEW x, x.at \notin Half \cup {"unlinkAll"}, NEW p
    PROVE  ~Holds(x, p) /\ ~Changed(x, p)
  BY DEF Holds, Changed

\* A request comes to hold nothing, and left nothing half done where it did.
LEMMA StoreQuiet ==
    ASSUME StorageInv, NEW r \in Requests, NEW x \in Request, Set(r, x),
           x.at \notin Half \cup {"unlinkAll"}, adrift \subseteq adrift',
           UNCHANGED <<bucket, rows, files>>,
           \A p \in Paths \ adrift' : ~Changed(requests[r], p)
    PROVE  PathsInOrder'
<1>1. /\ requests'[r] = x
      /\ \A o \in Requests \ {r} : requests'[o] = requests[o]
  BY OneMoves
<1> SUFFICES ASSUME NEW p \in Paths \ adrift' PROVE InOrder(p)'
  BY DEF PathsInOrder
<1>2. InOrder(p)
  BY DEF StorageInv, PathsInOrder
<1>3. ~Holds(requests'[r], p) /\ ~Changed(requests'[r], p) /\ ~Changed(requests[r], p)
  BY <1>1, NoPart
<1>4. \A o \in Requests : Holds(requests'[o], p) => requests'[o] = requests[o]
  BY <1>1, <1>3
<1>5. \A o \in Requests : requests'[o] = requests[o] /\ Knows(requests[o], p)
                             => Knows(requests[o], p)'
  BY DEF Knows
<1> QED
  BY <1>1, <1>2, <1>3, <1>4, <1>5 DEF InOrder

\* What a request caches is the row, or its DEL is to come.
LEMMA FreshQuiet ==
    ASSUME StorageInv, NEW r \in Requests, NEW x \in Request, Set(r, x),
           ~At(r, "invalidate"), quota' = quota, raced => raced',
           \/ cache' \in {cache, None}
           \/ At(r, "setex") /\ cache' = requests[r].quotas,
           x.at = "setex" => x.quotas = quota
    PROVE  Fresh'
<1>1. /\ requests'[r] = x
      /\ \A o \in Requests \ {r} : requests'[o] = requests[o]
  BY OneMoves
<1>2. CASE raced \/ \E o \in Requests : At(o, "invalidate")
  BY <1>1, <1>2 DEF Fresh, At
<1>3. CASE ~(raced \/ \E o \in Requests : At(o, "invalidate"))
  <2>1. /\ cache \in {None, quota}
        /\ \A o \in Requests : At(o, "setex") => requests[o].quotas = quota
    BY <1>3 DEF StorageInv, Fresh
  <2>2. \A o \in Requests : requests'[o].at = "setex" => requests'[o].quotas = quota
    BY <1>1, <2>1 DEF At
  <2> QED
    BY <2>1, <2>2 DEF Fresh, At
<1> QED
  BY <1>2, <1>3

-----------------------------------------------------------------------------
\* What files weigh is a number of bytes, and that of the store is what they weigh.
LEMMA WeightType ==
    ASSUME NEW f, NEW ps \in SUBSET Paths
    PROVE  IsFiniteSet(BytesOf(f, ps)) /\ Weight(f, ps) \in Nat
<1>1. IsFiniteSet(Paths) /\ 1 \in Int /\ MaxFile \in Int
  BY StorageAssumption
<1>2. IsFiniteSet(1..MaxFile)
  BY <1>1, FS_Interval
<1>3. IsFiniteSet(Paths \X (1..MaxFile))
  BY <1>1, <1>2, FS_Product
<1>4. BytesOf(f, ps) \in SUBSET (Paths \X (1..MaxFile))
  BY DEF BytesOf
<1>5. IsFiniteSet(BytesOf(f, ps))
  BY <1>3, <1>4, FS_Subset
<1> QED
  BY <1>5, FS_CardinalityType DEF Weight

LEMMA TotalWeight == Total = Weight(files, Paths)
  BY DEF Total, Bytes, Weight, BytesOf

\* Files of which none is larger than another one was weigh no more.
LEMMA WeightFalls ==
    ASSUME NEW f \in [Paths -> 0..MaxFile], NEW g \in [Paths -> 0..MaxFile],
           NEW ps \in SUBSET Paths, NEW qs \in SUBSET Paths,
           \A q \in qs : g[q] = 0 \/ (q \in ps /\ g[q] <= f[q])
    PROVE  Weight(g, qs) <= Weight(f, ps)
<1>1. BytesOf(g, qs) \in SUBSET BytesOf(f, ps)
  <2>1. ASSUME NEW b \in qs \X (1..MaxFile), b[2] <= g[b[1]]
        PROVE  b \in ps \X (1..MaxFile) /\ b[2] <= f[b[1]]
    <3>1. /\ b[1] \in qs /\ b[1] \in Paths /\ b[2] \in Nat \ {0} /\ b[2] \in 1..MaxFile
          /\ b = <<b[1], b[2]>> /\ g[b[1]] \in Nat /\ f[b[1]] \in Nat
      BY StorageAssumption
    <3>2. b[1] \in ps /\ g[b[1]] <= f[b[1]]
      BY <2>1, <3>1
    <3> QED
      BY <2>1, <3>1, <3>2
  <2> QED
    BY <2>1 DEF BytesOf
<1>2. IsFiniteSet(BytesOf(f, ps))
  BY WeightType
<1> QED
  BY <1>1, <1>2, FS_Subset DEF Weight

\* One path more adds what it weighs.
LEMMA WeightGrows ==
    ASSUME NEW f \in [Paths -> 0..MaxFile], NEW g \in [Paths -> 0..MaxFile],
           NEW ps \in SUBSET Paths, NEW qs \in SUBSET Paths, NEW p \in Paths,
           \A q \in qs : (q \in ps /\ g[q] <= f[q]) \/ q = p
    PROVE  Weight(g, qs) <= Weight(f, ps) + g[p]
<1>1. PICK size \in 0..MaxFile : size = g[p]
  OBVIOUS
<1> DEFINE New == {p} \X (1..size)
<1>2. MaxFile \in Nat /\ size \in Nat
  BY StorageAssumption
<1>3. IsFiniteSet(New) /\ Cardinality(New) = size
  <2>1. IsFiniteSet({p}) /\ Cardinality({p}) = 1
    BY FS_Singleton
  <2>2. 1 \in Int /\ size \in Int /\ size >= 0
    BY <1>2
  <2>3. IsFiniteSet(1..size) /\ Cardinality(1..size) = size
    BY <2>2, FS_Interval
  <2>4. IsFiniteSet(New) /\ Cardinality(New) = Cardinality({p}) * Cardinality(1..size)
    BY <2>1, <2>3, FS_Product
  <2> QED
    BY <2>1, <2>2, <2>3, <2>4
<1>4. BytesOf(g, qs) \in SUBSET (BytesOf(f, ps) \cup New)
  <2>1. ASSUME NEW b \in qs \X (1..MaxFile), b[2] <= g[b[1]]
        PROVE  (b \in ps \X (1..MaxFile) /\ b[2] <= f[b[1]]) \/ b \in New
    <3>1. /\ b[1] \in qs /\ b[1] \in Paths /\ b[2] \in 1..MaxFile /\ b = <<b[1], b[2]>>
          /\ g[b[1]] \in Nat /\ f[b[1]] \in Nat
      BY <1>2
    <3>3. CASE b[1] \in ps /\ g[b[1]] <= f[b[1]]
      <4>1. b[2] <= f[b[1]]
        BY <1>2, <2>1, <3>1, <3>3
      <4>2. b \in ps \X (1..MaxFile)
        BY <3>1, <3>3
      <4> QED
        BY <4>1, <4>2
    <3>4. CASE b[1] = p
      <4>1. b[2] \in 1..size
        BY <1>2, <1>1, <2>1, <3>1, <3>4
      <4> QED
        BY <3>1, <3>4, <4>1
    <3> QED
      BY <3>1, <3>3, <3>4
  <2> QED
    BY <2>1 DEF BytesOf
<1> HIDE DEF New
<1>5. IsFiniteSet(BytesOf(f, ps)) /\ Cardinality(BytesOf(f, ps)) \in Nat
  BY WeightType DEF Weight
<1>6. /\ IsFiniteSet(BytesOf(f, ps) \cup New)
      /\ Cardinality(BytesOf(f, ps) \cup New) <= Cardinality(BytesOf(f, ps)) + size
  <2>1. /\ IsFiniteSet(BytesOf(f, ps) \cup New)
        /\ Cardinality(BytesOf(f, ps) \cup New) =
             Cardinality(BytesOf(f, ps)) + Cardinality(New) - Cardinality(BytesOf(f, ps) \cap New)
    BY <1>3, <1>5, FS_Union
  <2>2. BytesOf(f, ps) \cap New \in SUBSET New
    OBVIOUS
  <2>3. IsFiniteSet(BytesOf(f, ps) \cap New)
    BY <1>3, <2>2, FS_Subset
  <2>4. Cardinality(BytesOf(f, ps) \cap New) \in Nat
    BY <2>3, FS_CardinalityType
  <2> QED
    BY <1>2, <1>3, <1>5, <2>1, <2>4
<1>7. /\ IsFiniteSet(BytesOf(g, qs))
      /\ Cardinality(BytesOf(g, qs)) <= Cardinality(BytesOf(f, ps) \cup New)
  BY <1>4, <1>6, FS_Subset
<1>8. Cardinality(BytesOf(g, qs)) \in Nat /\ Cardinality(BytesOf(f, ps) \cup New) \in Nat
  BY <1>6, <1>7, FS_CardinalityType
<1> QED
  BY <1>2, <1>1, <1>5, <1>6, <1>7, <1>8 DEF Weight

\* Where no file grows, what was covered still is.
LEMMA CoverKept ==
    ASSUME StorageInv, files' \in [Paths -> 0..MaxFile], \A p \in Paths : files'[p] <= files[p],
           NEW ps \in SUBSET Paths, NEW n \in Nat, Weight(files, ps) <= n
    PROVE  Weight(files', ps) <= n
<1>1. files \in [Paths -> 0..MaxFile] /\ 0 \in 0..MaxFile
  BY Shape
<1>2. Weight(files', ps) <= Weight(files, ps)
  BY <1>1, WeightFalls
<1> QED
  BY <1>2, WeightType

\* A request measures what covers the paths it is done with, and no file grows.
LEMMA CoveredQuiet ==
    ASSUME StorageInv, NEW r \in Requests, NEW x \in Request, Set(r, x),
           files' \in [Paths -> 0..MaxFile], \A p \in Paths : files'[p] <= files[p],
           UNCHANGED <<usage, written, partial>>, WalkCovers(x)
    PROVE  Covered'
<1>1. /\ requests'[r] = x /\ requests' \in [Requests -> Request]
      /\ \A o \in Requests \ {r} : requests'[o] = requests[o]
  BY OneMoves
<1>2. ASSUME NEW o \in Requests PROVE WalkCovers(requests[o])'
  <2>1. PICK y \in Request : y = requests'[o]
    BY <1>1
  <2>2. WalkCovers(y)
    BY <1>1, <2>1 DEF StorageInv, Covered
  <2>3. ASSUME y.at = "walk", ~y.part
        PROVE  Weight(files', Done(y)) <= y.figure + y.since
    <3>1. y.figure + y.since \in Nat /\ Weight(files, Done(y)) <= y.figure + y.since
      BY <2>2, <2>3 DEF WalkCovers, Request
    <3>2. PICK n \in Nat, ps \in SUBSET Paths : n = y.figure + y.since /\ ps = Done(y)
      BY <3>1 DEF Done
    <3> QED
      BY <3>1, <3>2, CoverKept
  <2> QED
    BY <2>1, <2>3 DEF WalkCovers, Done
<1>3. ASSUME ~partial PROVE Weight(files', Paths) <= usage + written
  <2>1. PICK n \in Nat : n = usage + written
    BY Shape
  <2>2. Weight(files, Paths) <= n
    BY <1>3, <2>1 DEF StorageInv, Covered
  <2> QED
    BY <2>1, <2>2, CoverKept
<1> QED
  BY <1>2, <1>3 DEF Covered

\* A file is stored, and every figure is told that it may miss it.
LEMMA CoveredGrows ==
    ASSUME StorageInv, NEW p \in Paths, NEW size \in 0..MaxFile,
           files' = [files EXCEPT ![p] = size], written' = written + size,
           UNCHANGED <<usage, partial>>,
           \A o \in Requests : requests'[o].at = "walk" =>
               /\ requests[o].at = "walk" /\ requests'[o].part = requests[o].part
               /\ requests'[o].left = requests[o].left /\ requests'[o].listed = requests[o].listed
               /\ requests'[o].figure = requests[o].figure
               /\ requests'[o].since = requests[o].since + size
    PROVE  Covered'
<1>1. /\ files \in [Paths -> 0..MaxFile] /\ files' \in [Paths -> 0..MaxFile]
      /\ size \in Nat /\ usage \in Nat /\ written \in Nat
  BY Shape
<1>2. ASSUME NEW ps \in SUBSET Paths PROVE Weight(files', ps) <= Weight(files, ps) + size
  <2>1. files'[p] = size /\ \A q \in ps : (q \in ps /\ files'[q] <= files[q]) \/ q = p
    BY <1>1, Shape
  <2>2. Weight(files', ps) <= Weight(files, ps) + files'[p]
    BY <1>1, <2>1, WeightGrows
  <2> QED
    BY <2>1, <2>2
<1>3. ASSUME NEW o \in Requests PROVE WalkCovers(requests[o])'
  <2> SUFFICES ASSUME requests'[o].at = "walk", ~requests'[o].part
               PROVE  Weight(files', Done(requests'[o])) <= requests'[o].figure + requests'[o].since
    BY DEF WalkCovers, Done
  <2>1. PICK y \in Request : y = requests[o]
    BY Shape
  <2>2. /\ y.at = "walk" /\ ~y.part /\ Done(requests'[o]) = Done(y)
        /\ requests'[o].figure = y.figure /\ requests'[o].since = y.since + size
    BY <2>1 DEF Done
  <2>3. Weight(files, Done(y)) <= y.figure + y.since
    BY <2>1, <2>2 DEF StorageInv, Covered, WalkCovers
  <2>4. y.figure \in Nat /\ y.since \in Nat /\ Done(y) \in SUBSET Paths
    BY DEF Request, Done
  <2>5. /\ Weight(files', Done(y)) <= Weight(files, Done(y)) + size
        /\ Weight(files', Done(y)) \in Nat /\ Weight(files, Done(y)) \in Nat
    BY <1>2, <2>4, WeightType
  <2> QED
    BY <1>1, <2>2, <2>3, <2>4, <2>5
<1>4. ASSUME ~partial PROVE Weight(files', Paths) <= usage' + written'
  <2>1. Weight(files, Paths) <= usage + written
    BY <1>4 DEF StorageInv, Covered
  <2>2. /\ Weight(files', Paths) <= Weight(files, Paths) + size
        /\ Weight(files', Paths) \in Nat /\ Weight(files, Paths) \in Nat
    BY <1>2, WeightType
  <2> QED
    BY <1>1, <2>1, <2>2
<1> QED
  BY <1>3, <1>4 DEF Covered

-----------------------------------------------------------------------------
\* A step of a request that leaves the store and what was measured alone.
LEMMA Quiet ==
    ASSUME StorageInv, NEW r \in Requests, NEW x \in Request, Set(r, x), Valid(x, lastId),
           x.at \notin Half \cup {"unlinkAll"}, requests[r].at \notin Half \cup {"unlinkAll"},
           UNCHANGED <<store, figures>>,
           counter' \in [n : 0..(Points + 1), expires : BOOLEAN],
           quota' \in QuotaRows, cache' \in QuotaRows \cup {None}, Fresh', WalkCovers(x)
    PROVE  StorageInv'
<1>1. UNCHANGED <<bucket, lastId, rows, files, adrift, usage, written, partial>>
  BY DEF store, figures
<1>2. requests' \in [Requests -> Request]
      /\ \A o \in Requests : requests'[o] = requests[o] \/ Valid(requests'[o], lastId')
  BY <1>1, OneMoves
<1>3. Shapes'
  <2>1. bucket' \in 0..lastId' /\ lastId' \in 0..MaxBuckets /\ lastId <= lastId'
    BY <1>1, Shape
  <2>2. /\ rows' \in [Paths -> 0..MaxFile] /\ files' \in [Paths -> 0..MaxFile]
        /\ usage' \in Nat /\ written' \in Nat
    BY <1>1, Shape
  <2> QED
    BY <1>2, <2>1, <2>2, ShapesKept
<1>4. PathsInOrder'
  <2>1. \A p \in Paths \ adrift' : ~Changed(requests[r], p)
    BY NoPart
  <2> QED
    BY <1>1, <2>1, StoreQuiet
<1>5. Covered'
  <2>1. files' \in [Paths -> 0..MaxFile] /\ \A p \in Paths : files'[p] <= files[p]
    BY <1>1, Shape
  <2> QED
    BY <1>1, <2>1, CoveredQuiet
<1> QED
  BY <1>3, <1>4, <1>5 DEF StorageInv

\* A request that is before its first effect, or after its last.
LEMMA UploadQuiet ==
    ASSUME StorageInv, NEW r \in Requests, NEW x \in Request, Set(r, x), Valid(x, lastId),
           x.at \in Uploading \cup {"idle"}, requests[r].at \in Uploading \cup {"idle"},
           UNCHANGED <<store, quota, raced, figures>>,
           counter' \in [n : 0..(Points + 1), expires : BOOLEAN],
           \/ cache' = cache
           \/ At(r, "setex") /\ cache' = requests[r].quotas,
           x.at = "setex" => x.quotas = quota
    PROVE  StorageInv'
<1>1. WalkCovers(x)
  BY DEF WalkCovers, Uploading
<1>2. quota' \in QuotaRows /\ cache' \in QuotaRows \cup {None}
  BY Shape DEF At, Valid
<1>3. /\ x.at \notin Half \cup {"unlinkAll"} /\ ~At(r, "invalidate")
      /\ requests[r].at \notin Half \cup {"unlinkAll"}
  BY DEF Uploading, Half, At
<1>4. Fresh'
  BY <1>3, FreshQuiet
<1> QED
  BY <1>1, <1>2, <1>3, <1>4, Quiet

\* The request a handler starts from.
LEMMA IdleShape ==
    ASSUME StorageInv
    PROVE  /\ Idle \in Request /\ Valid(Idle, lastId) /\ Idle.at = "idle" /\ Idle.id = 0
           /\ Idle.path = None /\ Idle.size = 0 /\ Idle.left = {} /\ Idle.listed = {}
           /\ Idle.figure = 0 /\ Idle.since = 0 /\ Idle.part = FALSE
<1>1. 0 \in 0..MaxBuckets /\ 0 \in 0..MaxFile /\ 0 \in 0..lastId
  BY Shape
<1> QED
  BY <1>1 DEF Idle, Request, Valid, Uploading, Half

LEMMA ConsumeKeeps ==
    ASSUME StorageInv, NEW r \in Requests, Consume(r) \/ Expire(r) PROVE StorageInv'
<1>1. CASE Consume(r)
  <2>1. PICK n \in Nat, p \in Paths, s \in 1..MaxFile :
            /\ n = Smaller(counter.n + 1, Points + 1) /\ counter' = [counter EXCEPT !.n = n]
            /\ Set(r, IF counter.n = 0
                      THEN [Idle EXCEPT !.at = "expire", !.path = p, !.size = s]
                      ELSE IF n > Points THEN Idle
                      ELSE [Idle EXCEPT !.at = "bucket", !.path = p, !.size = s])
    <3>1. Smaller(counter.n + 1, Points + 1) \in Nat
      BY Shape DEF Smaller
    <3> QED
      BY <1>1, <3>1 DEF Consume
  <2>2. n \in 0..(Points + 1) /\ counter' \in [n : 0..(Points + 1), expires : BOOLEAN]
    <3>1. n \in 0..(Points + 1)
      BY <2>1, Shape DEF Smaller
    <3> QED
      BY <2>1, <3>1, Shape
  <2>3. PICK x \in Request :
            Set(r, x) /\ Valid(x, lastId) /\ x.at \in {"expire", "bucket", "idle"}
    <3> DEFINE a == [Idle EXCEPT !.at = "expire", !.path = p, !.size = s]
               b == [Idle EXCEPT !.at = "bucket", !.path = p, !.size = s]
    <3>1. s \in 0..MaxFile
      BY Shape
    <3>2. a \in Request /\ a.at = "expire" /\ a.path = p /\ a.id = 0
      BY <3>1, IdleShape DEF Request, Uploading
    <3>3. b \in Request /\ b.at = "bucket" /\ b.path = p /\ b.id = 0
      BY <3>1, IdleShape DEF Request, Uploading
    <3>4. Set(r, IF counter.n = 0 THEN a ELSE IF n > Points THEN Idle ELSE b)
      BY <2>1
    <3>5. 0 \in 0..lastId
      BY Shape
    <3> HIDE DEF a, b
    <3>6. Valid(a, lastId) /\ Valid(b, lastId)
      BY <3>2, <3>3, <3>5 DEF Valid
    <3> QED
      BY <3>2, <3>3, <3>4, <3>6, IdleShape
  <2>4. UNCHANGED <<store, quota, raced, figures, cache>> /\ At(r, "idle")
    BY <1>1 DEF Consume, limits
  <2> QED
    BY <2>2, <2>3, <2>4, UploadQuiet DEF At, Uploading
<1>2. CASE Expire(r)
  <2>1. /\ counter' = [counter EXCEPT !.expires = counter.n > 0]
        /\ Set(r, IF counter.n > Points THEN Idle ELSE [requests[r] EXCEPT !.at = "bucket"])
        /\ requests[r].at = "expire" /\ UNCHANGED <<store, quota, raced, figures, cache>>
    BY <1>2 DEF Expire, At, limits
  <2>2. counter' \in [n : 0..(Points + 1), expires : BOOLEAN]
    <3>1. (counter.n > 0) \in BOOLEAN
      OBVIOUS
    <3> QED
      BY <2>1, <3>1, Shape
  <2>3. PICK x \in Request : Set(r, x) /\ Valid(x, lastId) /\ x.at \in {"bucket", "idle"}
    <3> DEFINE a == [requests[r] EXCEPT !.at = "bucket"]
    <3>1. a \in Request /\ a.at = "bucket" /\ a.path = requests[r].path /\ a.id = requests[r].id
      BY RequestShape DEF Request, Uploading
    <3>2. requests[r].path \in Paths /\ requests[r].id \in 0..lastId
      BY <2>1, Shape DEF Valid, Uploading
    <3>3. Set(r, IF counter.n > Points THEN Idle ELSE a)
      BY <2>1
    <3> HIDE DEF a
    <3>4. Valid(a, lastId)
      BY <3>1, <3>2 DEF Valid
    <3> QED
      BY <3>1, <3>3, <3>4, IdleShape
  <2> QED
    BY <2>1, <2>2, <2>3, UploadQuiet DEF Uploading
<1> QED
  BY <1>1, <1>2

LEMMA FindBucketKeeps ==
    ASSUME StorageInv, NEW r \in Requests, FindBucket(r) \/ PutFails(r) \/ QuotasMissed(r)
    PROVE  StorageInv'
<1> DEFINE a == [requests[r] EXCEPT !.at = "quotas", !.id = bucket]
           b == [requests[r] EXCEPT !.at = "row"]
<1>1. /\ requests[r].at \in {"bucket", "put", "quotas"}
      /\ Set(r, Idle) \/ Set(r, a) \/ Set(r, b)
      /\ UNCHANGED <<store, quota, raced, figures, cache, counter>>
  BY DEF FindBucket, PutFails, QuotasMissed, Go, At, limits, rate
<1>2. bucket \in 0..MaxBuckets /\ bucket \in 0..lastId
  BY Shape
<1>3. a \in Request /\ a.at = "quotas" /\ a.id = bucket /\ a.path = requests[r].path
  BY <1>2, RequestShape DEF Request, Uploading
<1>4. b \in Request /\ b.at = "row" /\ b.id = requests[r].id /\ b.path = requests[r].path
  BY RequestShape DEF Request, Uploading
<1>5. requests[r].path \in Paths /\ requests[r].id \in 0..lastId
  BY <1>1, Shape DEF Valid, Uploading
<1> HIDE DEF a, b
<1>6. Valid(a, lastId) /\ Valid(b, lastId)
  BY <1>2, <1>3, <1>4, <1>5 DEF Valid
<1>7. counter' \in [n : 0..(Points + 1), expires : BOOLEAN]
  BY <1>1, Shape
<1>8. PICK x \in {Idle, a, b} : Set(r, x)
  BY <1>1
<1>9. x \in Request /\ Valid(x, lastId) /\ x.at \in {"idle", "quotas", "row"}
  BY <1>3, <1>4, <1>6, <1>8, IdleShape
<1> QED
  BY <1>1, <1>7, <1>8, <1>9, UploadQuiet DEF Uploading

\* What a request does with the quotas it got.
LEMMA WithQuotasShape ==
    ASSUME StorageInv, NEW r \in Requests, requests[r].at \in {"quotas", "setex"},
           NEW q \in QuotaRows
    PROVE  /\ WithQuotas(r, q) \in Request /\ Valid(WithQuotas(r, q), lastId)
           /\ WithQuotas(r, q).at \in {"usage", "quotas"}
<1>1. /\ requests[r] \in Request /\ requests[r].path \in Paths /\ requests[r].id \in 0..lastId
      /\ requests[r].size \in Nat /\ MaxFile \in Nat /\ requests[r].size \in 0..MaxFile
  <2>1. requests[r].size \in 0..MaxFile /\ requests[r].id \in 0..lastId
    BY RequestShape DEF Request, Valid
  <2>2. requests[r].path \in Paths
    BY RequestShape DEF Valid, Uploading
  <2> QED
    BY <2>1, <2>2, RequestShape, Shape
<1>2. q.file \in Nat /\ BucketLimit \in Nat
  BY StorageAssumption
<1>3. PICK l \in Nat : l = Smaller(BucketLimit, q.file)
  BY <1>2 DEF Smaller
<1>4. PICK size \in 0..MaxFile, cut \in BOOLEAN :
          size = Smaller(requests[r].size, l) /\ cut = (requests[r].size > l)
  <2>1. Smaller(requests[r].size, l) \in 0..MaxFile
    BY <1>1 DEF Smaller
  <2>2. (requests[r].size > l) \in BOOLEAN
    OBVIOUS
  <2> QED
    BY <2>1, <2>2
<1> DEFINE a == [requests[r] EXCEPT !.at = "usage", !.quotas = q]
           b == [requests[r] EXCEPT !.at = "quotas", !.second = TRUE, !.limit = l,
                                    !.quotas = None, !.size = size, !.cut = cut]
<1>5. WithQuotas(r, q) = IF requests[r].second THEN a ELSE b
  BY <1>3, <1>4 DEF WithQuotas
<1>6. a \in Request /\ a.at = "usage" /\ a.path = requests[r].path /\ a.id = requests[r].id
      /\ a.quotas = q
  BY <1>1 DEF Request, Uploading
<1>7. b \in Request /\ b.at = "quotas" /\ b.path = requests[r].path /\ b.id = requests[r].id
  BY <1>1 DEF Request, Uploading
<1> HIDE DEF a, b
<1>8. Valid(a, lastId) /\ Valid(b, lastId)
  BY <1>1, <1>6, <1>7 DEF Valid
<1> QED
  BY <1>5, <1>6, <1>7, <1>8

LEMMA QuotasKeep ==
    ASSUME StorageInv, NEW r \in Requests, CachedQuotas(r) \/ QuotaRow(r) \/ CacheQuotas(r)
    PROVE  StorageInv'
<1>1. /\ requests[r].at \in {"quotas", "row", "setex"}
      /\ UNCHANGED <<store, quota, raced, figures, counter>>
  BY DEF CachedQuotas, QuotaRow, CacheQuotas, At, limits, rate
<1>2. counter' \in [n : 0..(Points + 1), expires : BOOLEAN]
  BY <1>1, Shape
<1>3. CASE QuotaRow(r)
  <2> DEFINE a == [requests[r] EXCEPT !.at = "setex", !.quotas = quota]
  <2>1. quota \in QuotaRows /\ requests[r].path \in Paths /\ requests[r].id \in 0..lastId
    BY <1>1, Shape DEF Valid, Uploading
  <2>2. a \in Request /\ a.at = "setex" /\ a.path = requests[r].path /\ a.id = requests[r].id
        /\ a.quotas = quota
    BY <2>1, RequestShape DEF Request, Uploading
  <2>3. Set(r, a) /\ cache' = cache
    BY <1>3 DEF QuotaRow, limits
  <2> HIDE DEF a
  <2>4. Valid(a, lastId)
    BY <2>1, <2>2 DEF Valid
  <2> QED
    BY <1>1, <1>2, <2>2, <2>3, <2>4, UploadQuiet DEF Uploading
<1>4. CASE CachedQuotas(r) \/ CacheQuotas(r)
  <2>1. PICK q \in QuotaRows :
            /\ requests[r].at \in {"quotas", "setex"} /\ Set(r, WithQuotas(r, q))
            /\ \/ cache' = cache
               \/ At(r, "setex") /\ cache' = requests[r].quotas
    <3>1. CASE CachedQuotas(r)
      <4>1. cache \in QuotaRows /\ Set(r, WithQuotas(r, cache)) /\ requests[r].at = "quotas"
            /\ cache' = cache
        BY <3>1, Shape DEF CachedQuotas, At, limits
      <4> QED
        BY <4>1
    <3>2. CASE CacheQuotas(r)
      <4>1. /\ requests[r].quotas \in QuotaRows /\ Set(r, WithQuotas(r, requests[r].quotas))
            /\ requests[r].at = "setex" /\ cache' \in {cache, requests[r].quotas}
        BY <3>2, Shape DEF CacheQuotas, At, Valid
      <4> QED
        BY <4>1 DEF At
    <3> QED
      BY <1>4, <3>1, <3>2
  <2>2. PICK x : x = WithQuotas(r, q)
    OBVIOUS
  <2>3. x \in Request /\ Valid(x, lastId) /\ x.at \in {"usage", "quotas"} /\ Set(r, x)
    BY <2>1, <2>2, WithQuotasShape
  <2> QED
    BY <1>1, <1>2, <2>1, <2>3, UploadQuiet DEF Uploading
<1> QED
  BY <1>3, <1>4

LEMMA EnforceKeeps ==
    ASSUME StorageInv, NEW r \in Requests, EnforceSampledQuota(r)
    PROVE  StorageInv'
<1> DEFINE a == [requests[r] EXCEPT !.at = "put", !.quotas = None, !.second = FALSE]
<1>1. /\ requests[r].at = "usage" /\ (Set(r, Idle) \/ Set(r, a))
      /\ UNCHANGED <<store, quota, raced, figures, cache, counter>>
  BY DEF EnforceSampledQuota, At, limits, rate
<1>2. requests[r].path \in Paths /\ requests[r].id \in 0..lastId
  BY <1>1, Shape DEF Valid, Uploading
<1>3. a \in Request /\ a.at = "put" /\ a.path = requests[r].path /\ a.id = requests[r].id
  BY RequestShape DEF Request, Uploading
<1> HIDE DEF a
<1>4. Valid(a, lastId)
  BY <1>2, <1>3 DEF Valid
<1>5. PICK x \in {Idle, a} : Set(r, x)
  BY <1>1
<1>6. x \in Request /\ Valid(x, lastId) /\ x.at \in {"idle", "put"}
  BY <1>3, <1>4, <1>5, IdleShape
<1>7. counter' \in [n : 0..(Points + 1), expires : BOOLEAN]
  BY <1>1, Shape
<1> QED
  BY <1>1, <1>5, <1>6, <1>7, UploadQuiet DEF Uploading

-----------------------------------------------------------------------------
\* A change of the row is followed by its DEL; who holds the old one is noted.
LEMMA UpdateQuotasKeeps ==
    ASSUME StorageInv, NEW r \in Requests, UpdateQuotas(r)
    PROVE  StorageInv'
<1> DEFINE x == [Idle EXCEPT !.at = "invalidate"]
<1>1. /\ requests[r].at = "idle" /\ quota' \in QuotaRows /\ Set(r, x)
      /\ UNCHANGED <<store, figures, cache, counter>>
  BY DEF UpdateQuotas, At, rate
<1>2. x \in Request /\ x.at = "invalidate" /\ x.id = 0
  BY IdleShape DEF Request
<1> HIDE DEF x
<1>3. Valid(x, lastId)
  BY <1>2, Shape DEF Valid, Uploading, Half
<1>4. Fresh'
  BY <1>1, <1>2, OneMoves DEF Fresh, At
<1>5. counter' \in [n : 0..(Points + 1), expires : BOOLEAN] /\ cache' \in QuotaRows \cup {None}
  BY <1>1, Shape
<1>6. WalkCovers(x)
  BY <1>2 DEF WalkCovers
<1> QED
  BY <1>1, <1>2, <1>3, <1>4, <1>5, <1>6, Quiet DEF Half

LEMMA InvalidateKeeps ==
    ASSUME StorageInv, NEW r \in Requests, InvalidateQuotaCache(r) \/ InvalidateFails(r)
    PROVE  StorageInv'
<1>1. /\ requests[r].at = "invalidate" /\ Set(r, Idle)
      /\ UNCHANGED <<store, quota, figures, counter>>
      /\ cache' \in {cache, None}
  BY DEF InvalidateQuotaCache, InvalidateFails, At, rate
<1>2. counter' \in [n : 0..(Points + 1), expires : BOOLEAN] /\ quota' \in QuotaRows
      /\ cache' \in QuotaRows \cup {None}
  BY <1>1, Shape
<1>3. Fresh'
  <2>1. CASE InvalidateFails(r)
    BY <2>1 DEF InvalidateFails, Fresh
  <2>2. CASE InvalidateQuotaCache(r) /\ ~raced'
    <3>1. /\ \A o \in Requests : requests[o].at = "setex" => requests[o].quotas = quota
          /\ cache' = None
      BY <2>2 DEF InvalidateQuotaCache, HoldsOld, At
    <3>2. \A o \in Requests : requests'[o].at = "setex" => requests'[o].quotas = quota
      BY <1>1, <3>1, OneMoves, IdleShape
    <3> QED
      BY <1>1, <3>1, <3>2 DEF Fresh, At
  <2> QED
    BY <2>1, <2>2 DEF Fresh
<1> QED
  BY <1>1, <1>2, <1>3, IdleShape, Quiet DEF Half, WalkCovers

\* A walk covers what it has weighed: a path listed without a file weighs nothing,
\* and what a file weighs is added when the path is done with.
LEMMA SampleKeeps ==
    ASSUME StorageInv, NEW r \in Requests,
           SampleBegins(r) \/ ListNext(r) \/ Weigh(r) \/ CannotRead(r)
    PROVE  StorageInv'
<1>1. /\ requests[r].at \in {"idle", "walk"}
      /\ UNCHANGED <<store, quota, raced, cache, counter, figures>>
  BY DEF SampleBegins, ListNext, Weigh, CannotRead, At, limits, rate
<1>2. files \in [Paths -> 0..MaxFile] /\ 0 \in 0..MaxFile /\ MaxFile \in Nat
  BY Shape
<1>3. PICK y \in Request : y = requests[r] /\ y.id \in 0..lastId /\ WalkCovers(y)
  BY Shape DEF StorageInv, Covered, Valid
<1>4. y.figure \in Nat /\ y.since \in Nat /\ y.left \in SUBSET Paths /\ y.listed \in SUBSET Paths
      /\ Weight(files, Done(y)) \in Nat
  BY WeightType DEF Request, Done
<1>5. PICK x \in Request :
          /\ Set(r, x) /\ x.at = "walk" /\ x.id \in {0, y.id} /\ WalkCovers(x)
  <2>1. CASE SampleBegins(r)
    <3> DEFINE z == [Idle EXCEPT !.at = "walk", !.left = Paths]
    <3>1. /\ z \in Request /\ z.at = "walk" /\ z.id = 0 /\ z.left = Paths
          /\ z.figure = 0 /\ z.since = 0
      BY IdleShape DEF Request
    <3>2. Set(r, z)
      BY <2>1 DEF SampleBegins
    <3> HIDE DEF z
    <3>3. BytesOf(files, Done(z)) = {}
      BY <3>1 DEF Done, BytesOf
    <3>4. Weight(files, Done(z)) = 0
      BY <3>3, FS_EmptySet DEF Weight
    <3> QED
      BY <3>1, <3>2, <3>4 DEF WalkCovers
  <2>2. CASE ListNext(r)
    <3>1. PICK ps \in SUBSET Paths :
              Set(r, [y EXCEPT !.left = @ \ ps, !.listed = @ \cup {p \in ps : files[p] # 0}])
      BY <1>3, <1>4, <2>2 DEF ListNext
    <3>2. PICK found \in SUBSET Paths : found = {p \in ps : files[p] # 0}
      OBVIOUS
    <3> DEFINE z == [y EXCEPT !.left = @ \ ps, !.listed = @ \cup found]
    <3>3. y.left \ ps \in SUBSET Paths /\ y.listed \cup found \in SUBSET Paths
      BY <1>4
    <3>4. /\ z \in Request /\ z.at = y.at /\ z.id = y.id /\ z.left = y.left \ ps
          /\ z.listed = y.listed \cup found
          /\ z.figure = y.figure /\ z.since = y.since /\ z.part = y.part
      BY <3>3 DEF Request
    <3>5. Set(r, z) /\ y.at = "walk"
      BY <1>3, <2>2, <3>1, <3>2 DEF ListNext, At
    <3> HIDE DEF z
    <3>6. \A q \in Done(z) : files[q] = 0 \/ (q \in Done(y) /\ files[q] <= files[q])
      BY <1>2, <3>2, <3>4 DEF Done
    <3>7. Weight(files, Done(z)) <= Weight(files, Done(y))
      <4>1. PICK ps1 \in SUBSET Paths, qs1 \in SUBSET Paths : ps1 = Done(y) /\ qs1 = Done(z)
        BY DEF Done
      <4> QED
        BY <1>2, <3>6, <4>1, WeightFalls
    <3>8. Weight(files, Done(z)) \in Nat
      BY WeightType DEF Done
    <3> QED
      BY <1>3, <1>4, <3>4, <3>5, <3>7, <3>8 DEF WalkCovers
  <2>3. CASE Weigh(r)
    <3>1. PICK p \in Paths : Set(r, [y EXCEPT !.listed = @ \ {p}, !.figure = @ + files[p]])
      BY <1>3, <1>4, <2>3 DEF Weigh
    <3>2. PICK size \in 0..MaxFile, n \in Nat : size = files[p] /\ n = y.figure + size
      BY <1>2, <1>4
    <3> DEFINE z == [y EXCEPT !.listed = @ \ {p}, !.figure = n]
    <3>3. y.listed \ {p} \in SUBSET Paths
      BY <1>4
    <3>4. /\ z \in Request /\ z.at = y.at /\ z.id = y.id /\ z.left = y.left
          /\ z.listed = y.listed \ {p}
          /\ z.figure = n /\ z.since = y.since /\ z.part = y.part
      BY <3>3 DEF Request
    <3>5. Set(r, z) /\ y.at = "walk"
      BY <1>3, <2>3, <3>1, <3>2 DEF Weigh, At
    <3> HIDE DEF z
    <3>6. \A q \in Done(z) : (q \in Done(y) /\ files[q] <= files[q]) \/ q = p
      BY <1>2, <3>2, <3>4 DEF Done
    <3>7. Weight(files, Done(z)) <= Weight(files, Done(y)) + size
      <4>1. PICK ps1 \in SUBSET Paths, qs1 \in SUBSET Paths : ps1 = Done(y) /\ qs1 = Done(z)
        BY DEF Done
      <4>2. \A q \in qs1 : (q \in ps1 /\ files[q] <= files[q]) \/ q = p
        BY <3>6, <4>1
      <4>3. Weight(files, qs1) <= Weight(files, ps1) + files[p]
        BY <1>2, <4>2, WeightGrows
      <4> QED
        BY <3>2, <4>1, <4>3
    <3>8. Weight(files, Done(z)) \in Nat /\ size \in Nat
      BY <1>2, WeightType DEF Done
    <3> QED
      BY <1>3, <1>4, <3>2, <3>4, <3>5, <3>7, <3>8 DEF WalkCovers
  <2>4. CASE CannotRead(r)
    <3>1. PICK ps : Set(r, [y EXCEPT !.left = @ \ ps, !.listed = @ \ ps, !.part = TRUE])
      BY <1>3, <2>4 DEF CannotRead
    <3> DEFINE z == [y EXCEPT !.left = @ \ ps, !.listed = @ \ ps, !.part = TRUE]
    <3>2. y.left \ ps \in SUBSET Paths /\ y.listed \ ps \in SUBSET Paths
      BY <1>4
    <3>3. z \in Request /\ z.at = y.at /\ z.id = y.id /\ z.part = TRUE
      BY <3>2 DEF Request
    <3>4. Set(r, z) /\ y.at = "walk"
      BY <1>3, <2>4, <3>1 DEF CannotRead, At
    <3> HIDE DEF z
    <3> QED
      BY <3>3, <3>4 DEF WalkCovers
  <2> QED
    BY <2>1, <2>2, <2>3, <2>4
<1>6. Valid(x, lastId)
  BY <1>3, <1>5, Shape DEF Valid, Uploading, Half
<1>7. counter' \in [n : 0..(Points + 1), expires : BOOLEAN] /\ quota' \in QuotaRows
      /\ cache' \in QuotaRows \cup {None}
  BY <1>1, Shape
<1>8. ~At(r, "invalidate") /\ x.at \notin Half \cup {"unlinkAll", "setex"}
      /\ requests[r].at \notin Half \cup {"unlinkAll"}
  BY <1>1, <1>5 DEF At, Half
<1>9. Fresh'
  BY <1>1, <1>5, <1>8, FreshQuiet
<1> QED
  BY <1>1, <1>5, <1>6, <1>7, <1>8, <1>9, Quiet

LEMMA RecordKeeps ==
    ASSUME StorageInv, NEW r \in Requests, RecordUsage(r)
    PROVE  StorageInv'
<1>1. /\ requests[r].at = "walk" /\ requests[r].left = {} /\ requests[r].listed = {}
      /\ Set(r, Idle) /\ usage' = requests[r].figure /\ written' = requests[r].since
      /\ partial' = requests[r].part
      /\ UNCHANGED <<bucket, lastId, rows, files, adrift, quota, raced, cache, counter>>
  BY DEF RecordUsage, At, store, limits, rate
<1>2. requests[r].figure \in Nat /\ requests[r].since \in Nat
  BY RequestShape DEF Request
<1>3. /\ requests' \in [Requests -> Request] /\ requests'[r] = Idle
      /\ \A o \in Requests \ {r} : requests'[o] = requests[o]
  BY <1>1, IdleShape, OneMoves
<1>4. \A o \in Requests : requests'[o] = requests[o] \/ Valid(requests'[o], lastId')
  BY <1>1, <1>3, IdleShape
<1>5. Shapes'
  <2>1. bucket' \in 0..lastId' /\ lastId' \in 0..MaxBuckets /\ lastId <= lastId'
    BY <1>1, Shape
  <2>2. /\ rows' \in [Paths -> 0..MaxFile] /\ files' \in [Paths -> 0..MaxFile]
        /\ quota' \in QuotaRows /\ cache' \in QuotaRows \cup {None}
        /\ counter' \in [n : 0..(Points + 1), expires : BOOLEAN]
    BY <1>1, Shape
  <2> QED
    BY <1>1, <1>2, <1>3, <1>4, <2>1, <2>2, ShapesKept
<1>6. PathsInOrder'
  <2>1. Idle.at \notin Half \cup {"unlinkAll"} /\ requests[r].at \notin Half \cup {"unlinkAll"}
    BY <1>1, IdleShape DEF Half
  <2>2. \A p \in Paths \ adrift' : ~Changed(requests[r], p)
    BY <2>1, NoPart
  <2> QED
    BY <1>1, <2>1, <2>2, IdleShape, StoreQuiet
<1>7. Fresh'
  <2>1. Idle.at # "setex" /\ ~At(r, "invalidate")
    BY <1>1, IdleShape DEF At
  <2> QED
    BY <1>1, <2>1, IdleShape, FreshQuiet
<1>8. Covered'
  <2>1. \A o \in Requests : WalkCovers(requests[o])
    BY DEF StorageInv, Covered
  <2>2. ASSUME NEW o \in Requests PROVE WalkCovers(requests[o])'
    <3>1. CASE o = r
      BY <1>3, <3>1, IdleShape DEF WalkCovers
    <3>2. CASE o # r
      BY <1>1, <1>3, <2>1, <3>2 DEF WalkCovers, Done
    <3> QED
      BY <3>1, <3>2
  <2>3. Done(requests[r]) = Paths
    BY <1>1 DEF Done
  <2>4. partial' \/ Weight(files, Paths) <= usage' + written'
    BY <1>1, <2>1, <2>3 DEF WalkCovers
  <2> QED
    BY <1>1, <2>2, <2>4 DEF Covered
<1> QED
  BY <1>5, <1>6, <1>7, <1>8 DEF StorageInv

\* What happens without a request.
LEMMA AroundKeeps ==
    ASSUME StorageInv, WindowEnds \/ CacheExpires \/ CreateBucket
    PROVE  StorageInv'
<1>1. /\ UNCHANGED <<rows, files, adrift, quota, raced, usage, written, partial, requests>>
      /\ cache' \in {cache, None}
  BY DEF WindowEnds, CacheExpires, CreateBucket, store, limits, figures, rate
<1>2. /\ bucket' \in 0..lastId' /\ lastId' \in 0..MaxBuckets /\ lastId <= lastId'
      /\ bucket # 0 => bucket' = bucket
  <2>1. CASE WindowEnds \/ CacheExpires
    BY <2>1, Shape DEF WindowEnds, CacheExpires, store
  <2>2. CASE CreateBucket
    <3>1. /\ bucket = 0 /\ lastId < MaxBuckets /\ bucket' = lastId + 1 /\ lastId' = lastId + 1
      BY <2>2 DEF CreateBucket
    <3> QED
      BY <3>1, Shape
  <2> QED
    BY <2>1, <2>2
<1>3. counter' \in [n : 0..(Points + 1), expires : BOOLEAN]
  <2>1. CASE WindowEnds
    BY <2>1, Shape DEF WindowEnds
  <2>2. CASE CacheExpires \/ CreateBucket
    BY <2>2, Shape DEF CacheExpires, CreateBucket, rate
  <2> QED
    BY <2>1, <2>2
<1>4. Shapes'
  <2>1. /\ requests' \in [Requests -> Request]
        /\ \A o \in Requests : requests'[o] = requests[o] \/ Valid(requests'[o], lastId')
    BY <1>1, Shape
  <2>2. /\ rows' \in [Paths -> 0..MaxFile] /\ files' \in [Paths -> 0..MaxFile]
        /\ quota' \in QuotaRows /\ cache' \in QuotaRows \cup {None}
        /\ usage' \in Nat /\ written' \in Nat
    BY <1>1, Shape
  <2> QED
    BY <1>2, <1>3, <2>1, <2>2, ShapesKept
<1>5. PathsInOrder'
  <2> SUFFICES ASSUME NEW p \in Paths \ adrift PROVE InOrder(p)'
    BY <1>1 DEF PathsInOrder
  <2>1. InOrder(p)
    BY DEF StorageInv, PathsInOrder
  <2>2. \A o \in Requests : Knows(requests[o], p) => Knows(requests[o], p)'
    BY <1>1, <1>2 DEF Knows
  <2> QED
    BY <1>1, <2>1, <2>2 DEF InOrder
<1>6. Fresh'
  BY <1>1 DEF StorageInv, Fresh, At
<1>7. Covered'
  BY <1>1 DEF StorageInv, Covered, WalkCovers, Done
<1> QED
  BY <1>4, <1>5, <1>6, <1>7 DEF StorageInv

-----------------------------------------------------------------------------
\* Who holds a path touches it, so that a step that crosses it says so.
LEMMA NotCrossed ==
    ASSUME StorageInv, NEW r \in Requests, NEW ps \in SUBSET Paths, NEW p \in ps,
           p \notin Crossing(r, ps)
    PROVE  \A o \in Requests \ {r} : ~Holds(requests[o], p)
<1> SUFFICES ASSUME NEW o \in Requests \ {r}, Holds(requests[o], p) PROVE p \in Touches(o)
  BY DEF Crossing
<1>1. CASE requests[o].at = "unlinkAll"
  BY <1>1 DEF Touches
<1>2. CASE requests[o].at \in Half /\ requests[o].path = p
  BY <1>2 DEF Touches, Half
<1> QED
  BY <1>1, <1>2 DEF Holds

\* A path a request holds is held by no other.
LEMMA HeldAlone ==
    ASSUME StorageInv, NEW r \in Requests, NEW p \in Paths \ adrift, Holds(requests[r], p)
    PROVE  /\ \A o \in Requests \ {r} : ~Holds(requests[o], p)
           /\ Knows(requests[r], p)
  BY DEF StorageInv, PathsInOrder, InOrder

\* What is asked of a step of r on the store, for each path that is in order.
LEMMA StoreMoves ==
    ASSUME StorageInv, NEW r \in Requests, NEW x \in Request, requests'[r] = x,
           \A o \in Requests \ {r} :
               /\ requests'[o].at = requests[o].at /\ requests'[o].path = requests[o].path
               /\ requests'[o].id = requests[o].id /\ requests'[o].size = requests[o].size
               /\ requests'[o].left = requests[o].left,
           adrift \subseteq adrift',
           \A p \in Paths \ adrift' :
               /\ Holds(x, p) => Knows(requests[r], p)'
               /\ \/ \A o \in Requests \ {r} : ~Holds(requests[o], p)
                  \/ /\ ~Holds(x, p) /\ ~Changed(requests[r], p)
                     /\ rows'[p] = rows[p] /\ files'[p] = files[p] /\ bucket' = bucket
               /\ \/ Changed(x, p) \/ rows'[p] = files'[p]
                  \/ ~Changed(requests[r], p) /\ rows'[p] = rows[p] /\ files'[p] = files[p]
    PROVE  PathsInOrder'
<1> SUFFICES ASSUME NEW p \in Paths \ adrift' PROVE InOrder(p)'
  BY DEF PathsInOrder
<1>1. InOrder(p)
  BY DEF StorageInv, PathsInOrder
<1>2. \A o \in Requests \ {r} : /\ Holds(requests'[o], p) <=> Holds(requests[o], p)
                                /\ Changed(requests'[o], p) <=> Changed(requests[o], p)
  BY DEF Holds, Changed
<1>3. \A q, o \in Requests : Holds(requests'[q], p) /\ Holds(requests'[o], p) => q = o
  BY <1>1, <1>2 DEF InOrder
<1>4. ASSUME NEW o \in Requests, Holds(requests'[o], p) PROVE Knows(requests[o], p)'
  <2>1. CASE o = r
    BY <1>4, <2>1
  <2>2. CASE o # r
    <3>1. /\ rows'[p] = rows[p] /\ files'[p] = files[p] /\ bucket' = bucket
          /\ Knows(requests[o], p)
      BY <1>1, <1>2, <1>4, <2>2 DEF InOrder
    <3> QED
      BY <2>2, <3>1 DEF Knows
  <2> QED
    BY <2>1, <2>2
<1>5. ASSUME \A o \in Requests : ~Changed(requests'[o], p) PROVE rows'[p] = files'[p]
  <2>1. \A o \in Requests \ {r} : ~Changed(requests[o], p)
    BY <1>2, <1>5
  <2>2. ~Changed(x, p)
    BY <1>5
  <2>3. CASE ~Changed(requests[r], p) /\ rows'[p] = rows[p] /\ files'[p] = files[p]
    BY <1>1, <2>1, <2>3 DEF InOrder
  <2> QED
    BY <2>2, <2>3
<1> QED
  BY <1>3, <1>4, <1>5 DEF InOrder

\* A step on the store that no sampling sees.
LEMMA StoreKeeps ==
    ASSUME StorageInv, NEW r \in Requests, NEW x \in Request, Set(r, x), Valid(x, lastId),
           x.at \notin {"setex", "walk"}, ~At(r, "invalidate"),
           UNCHANGED <<lastId, limits, figures>>,
           counter' \in [n : 0..(Points + 1), expires : BOOLEAN],
           bucket' \in {bucket, 0}, rows' \in [Paths -> 0..MaxFile],
           files' \in [Paths -> 0..MaxFile], \A p \in Paths : files'[p] <= files[p],
           PathsInOrder'
    PROVE  StorageInv'
<1>1. UNCHANGED <<quota, cache, raced, usage, written, partial>>
  BY DEF limits, figures
<1>2. Shapes'
  <2>1. requests' \in [Requests -> Request]
        /\ \A o \in Requests : requests'[o] = requests[o] \/ Valid(requests'[o], lastId')
    BY OneMoves
  <2>2. bucket' \in 0..lastId' /\ lastId' \in 0..MaxBuckets /\ lastId <= lastId'
    BY Shape
  <2>3. /\ usage' \in Nat /\ written' \in Nat
        /\ quota' \in QuotaRows /\ cache' \in QuotaRows \cup {None}
    BY <1>1, Shape
  <2> QED
    BY <2>1, <2>2, <2>3, ShapesKept
<1>3. Fresh'
  BY <1>1, FreshQuiet
<1>4. Covered'
  BY <1>1, CoveredQuiet DEF WalkCovers
<1> QED
  BY <1>2, <1>3, <1>4 DEF StorageInv

-----------------------------------------------------------------------------
\* A request that ends what it was doing on the store: each path it held has to
\* be in order by then, and the others are not its own.
LEMMA EndKeeps ==
    ASSUME StorageInv, NEW r \in Requests, Set(r, Idle), ~At(r, "invalidate"),
           UNCHANGED <<lastId, limits, figures, counter>>, adrift \subseteq adrift',
           bucket' \in {bucket, 0}, rows' \in [Paths -> 0..MaxFile],
           files' \in [Paths -> 0..MaxFile], \A p \in Paths : files'[p] <= files[p],
           \A p \in Paths \ adrift' :
               \/ Holds(requests[r], p) /\ rows'[p] = files'[p]
               \/ /\ ~Changed(requests[r], p) /\ bucket' = bucket
                  /\ rows'[p] = rows[p] /\ files'[p] = files[p]
    PROVE  StorageInv'
<1>1. /\ requests'[r] = Idle
      /\ \A o \in Requests \ {r} : requests'[o] = requests[o]
  BY IdleShape, OneMoves
<1>2. /\ Idle \in Request /\ Valid(Idle, lastId)
      /\ Idle.at \notin {"setex", "walk"} \cup Half \cup {"unlinkAll"}
  BY IdleShape DEF Half
<1>3. ASSUME NEW p \in Paths \ adrift'
      PROVE  /\ ~Holds(Idle, p)
             /\ \/ \A o \in Requests \ {r} : ~Holds(requests[o], p)
                \/ /\ ~Changed(requests[r], p)
                   /\ rows'[p] = rows[p] /\ files'[p] = files[p] /\ bucket' = bucket
             /\ \/ rows'[p] = files'[p]
                \/ ~Changed(requests[r], p) /\ rows'[p] = rows[p] /\ files'[p] = files[p]
  <2>1. ~Holds(Idle, p)
    BY <1>2, NoPart
  <2>2. CASE Holds(requests[r], p) /\ rows'[p] = files'[p]
    BY <2>1, <2>2, HeldAlone
  <2> QED
    BY <1>3, <2>1, <2>2
<1>4. PathsInOrder'
  BY <1>1, <1>2, <1>3, StoreMoves
<1>5. counter' \in [n : 0..(Points + 1), expires : BOOLEAN]
  BY Shape
<1> QED
  BY <1>2, <1>4, <1>5, StoreKeeps

\* The refused upload is removed, and no row was there for it.
LEMMA RemoveTruncatedKeeps ==
    ASSUME StorageInv, NEW r \in Requests, RemoveTruncated(r)
    PROVE  StorageInv'
<1>1. /\ requests[r].at = "truncated" /\ Set(r, Idle)
      /\ files' = [files EXCEPT ![requests[r].path] = 0]
      /\ UNCHANGED <<bucket, lastId, rows, adrift, limits, figures, counter>>
  BY DEF RemoveTruncated, At, rate
<1>2. requests[r].path \in Paths /\ 0 \in 0..MaxFile
  BY <1>1, Shape DEF Valid, Half
<1>3. /\ files' \in [Paths -> 0..MaxFile] /\ rows' \in [Paths -> 0..MaxFile]
      /\ \A p \in Paths : files'[p] <= files[p]
  BY <1>1, <1>2, Shape
<1>4. ASSUME NEW p \in Paths \ adrift'
      PROVE  \/ Holds(requests[r], p) /\ rows'[p] = files'[p]
             \/ /\ ~Changed(requests[r], p) /\ bucket' = bucket
                /\ rows'[p] = rows[p] /\ files'[p] = files[p]
  <2>1. CASE p = requests[r].path
    <3>1. Holds(requests[r], p)
      BY <1>1, <2>1 DEF Holds, Half
    <3>2. rows[p] = 0
      BY <1>1, <3>1, HeldAlone DEF Knows
    <3> QED
      BY <1>1, <1>2, <2>1, <3>1, <3>2, Shape
  <2>2. CASE p # requests[r].path
    BY <1>1, <1>2, <2>2, Shape DEF Changed, Holds
  <2> QED
    BY <2>1, <2>2
<1>5. ~At(r, "invalidate")
  BY <1>1 DEF At
<1> QED
  BY <1>1, <1>3, <1>4, <1>5, EndKeeps

\* The row of what was put, or a path adrift.
LEMMA InsertObjectKeeps ==
    ASSUME StorageInv, NEW r \in Requests, InsertObject(r)
    PROVE  StorageInv'
<1>1. /\ requests[r].at = "insert" /\ Set(r, Idle) /\ adrift \subseteq adrift'
      /\ \/ rows' = [rows EXCEPT ![requests[r].path] = requests[r].size]
         \/ rows' = rows /\ adrift' = adrift \cup {requests[r].path}
      /\ UNCHANGED <<bucket, lastId, files, limits, figures, counter>>
  BY DEF InsertObject, At, rate
<1>2. requests[r].path \in Paths /\ requests[r].size \in 0..MaxFile
  BY <1>1, Shape DEF Valid, Half, Request
<1>3. /\ files' \in [Paths -> 0..MaxFile] /\ rows' \in [Paths -> 0..MaxFile]
      /\ \A p \in Paths : files'[p] <= files[p]
  BY <1>1, <1>2, Shape
<1>4. ASSUME NEW p \in Paths \ adrift'
      PROVE  \/ Holds(requests[r], p) /\ rows'[p] = files'[p]
             \/ /\ ~Changed(requests[r], p) /\ bucket' = bucket
                /\ rows'[p] = rows[p] /\ files'[p] = files[p]
  <2>1. CASE p = requests[r].path
    <3>1. Holds(requests[r], p)
      BY <1>1, <2>1 DEF Holds, Half
    <3>2. p \notin adrift /\ files[p] = requests[r].size
      BY <1>1, <3>1, HeldAlone DEF Knows
    <3> QED
      BY <1>1, <1>2, <2>1, <3>1, <3>2, Shape
  <2>2. CASE p # requests[r].path
    BY <1>1, <1>2, <2>2, Shape DEF Changed, Holds
  <2> QED
    BY <2>1, <2>2
<1>5. ~At(r, "invalidate")
  BY <1>1 DEF At
<1> QED
  BY <1>1, <1>3, <1>4, <1>5, EndKeeps

\* The row of an object whose file is gone, in the bucket that was read.
LEMMA DeleteRowKeeps ==
    ASSUME StorageInv, NEW r \in Requests, DeleteRow(r)
    PROVE  StorageInv'
<1>1. /\ requests[r].at = "delete" /\ Set(r, Idle)
      /\ rows' = IF bucket = requests[r].id THEN [rows EXCEPT ![requests[r].path] = 0] ELSE rows
      /\ UNCHANGED <<bucket, lastId, files, adrift, limits, figures, counter>>
  BY DEF DeleteRow, At, rate
<1>2. requests[r].path \in Paths /\ 0 \in 0..MaxFile
  BY <1>1, Shape DEF Valid, Half
<1>3. /\ files' \in [Paths -> 0..MaxFile] /\ rows' \in [Paths -> 0..MaxFile]
      /\ \A p \in Paths : files'[p] <= files[p]
  BY <1>1, <1>2, Shape
<1>4. ASSUME NEW p \in Paths \ adrift'
      PROVE  \/ Holds(requests[r], p) /\ rows'[p] = files'[p]
             \/ /\ ~Changed(requests[r], p) /\ bucket' = bucket
                /\ rows'[p] = rows[p] /\ files'[p] = files[p]
  <2>1. CASE p = requests[r].path
    <3>1. Holds(requests[r], p)
      BY <1>1, <2>1 DEF Holds, Half
    <3>2. files[p] = 0 /\ bucket = requests[r].id
      BY <1>1, <3>1, HeldAlone DEF Knows
    <3> QED
      BY <1>1, <1>2, <2>1, <3>1, <3>2, Shape
  <2>2. CASE p # requests[r].path
    BY <1>1, <1>2, <2>2, Shape DEF Changed, Holds
  <2> QED
    BY <2>1, <2>2
<1>5. ~At(r, "invalidate")
  BY <1>1 DEF At
<1> QED
  BY <1>1, <1>3, <1>4, <1>5, EndKeeps

\* The last of the files is unlinked, and the rows go with the bucket's.
LEMMA DropBucketKeeps ==
    ASSUME StorageInv, NEW r \in Requests, DropBucket(r)
    PROVE  StorageInv'
<1>1. /\ requests[r].at = "unlinkAll" /\ requests[r].left = {} /\ Set(r, Idle)
      /\ \/ bucket = requests[r].id /\ bucket' = 0 /\ rows' = [p \in Paths |-> 0]
         \/ bucket # requests[r].id /\ UNCHANGED <<bucket, rows>>
      /\ UNCHANGED <<lastId, files, adrift, limits, figures, counter>>
  BY DEF DropBucket, At, rate
<1>2. /\ files' \in [Paths -> 0..MaxFile] /\ rows' \in [Paths -> 0..MaxFile]
      /\ \A p \in Paths : files'[p] <= files[p]
  <2>1. 0 \in 0..MaxFile
    BY Shape
  <2> QED
    BY <1>1, <2>1, Shape
<1>3. ASSUME NEW p \in Paths \ adrift'
      PROVE  Holds(requests[r], p) /\ rows'[p] = files'[p]
  <2>1. Holds(requests[r], p)
    BY <1>1 DEF Holds
  <2>2. Knows(requests[r], p)
    BY <1>1, <2>1, HeldAlone
  <2>3. files[p] = 0 /\ bucket = requests[r].id
    BY <1>1, <2>2 DEF Knows
  <2> QED
    BY <1>1, <2>1, <2>3
<1>4. ~At(r, "invalidate") /\ bucket' \in {bucket, 0}
  BY <1>1 DEF At
<1> QED
  BY <1>1, <1>2, <1>3, <1>4, EndKeeps

\* A handler that dies half way says so for every path it changed.
LEMMA HandlerDiesKeeps ==
    ASSUME StorageInv, NEW r \in Requests, HandlerDies(r)
    PROVE  StorageInv'
<1>1. /\ ~At(r, "invalidate") /\ Set(r, Idle)
      /\ adrift' = IF requests[r].at \in {"truncated", "insert", "delete", "unlinkAll"}
                   THEN adrift \cup Touches(r) ELSE adrift
      /\ UNCHANGED <<bucket, lastId, rows, files, limits, figures, counter>>
  BY DEF HandlerDies, At
<1>2. adrift \subseteq adrift'
  BY <1>1
<1>3. ASSUME NEW p \in Paths \ adrift' PROVE ~Changed(requests[r], p)
  <2>1. CASE requests[r].at \in {"truncated", "insert", "delete"}
    <3>1. Touches(r) = {requests[r].path}
      BY <2>1 DEF Touches
    <3> QED
      BY <1>1, <2>1, <3>1 DEF Changed, Holds, Half
  <2>2. CASE requests[r].at = "unlinkAll"
    <3>1. Touches(r) = Paths
      BY <2>2 DEF Touches
    <3> QED
      BY <1>1, <2>2, <3>1
  <2>3. CASE requests[r].at \notin {"truncated", "insert", "delete", "unlinkAll"}
    BY <2>3 DEF Changed, Holds, Half
  <2> QED
    BY <2>1, <2>2, <2>3
<1>4. /\ files' \in [Paths -> 0..MaxFile] /\ rows' \in [Paths -> 0..MaxFile]
      /\ \A p \in Paths : files'[p] <= files[p]
  BY <1>1, Shape
<1> QED
  BY <1>1, <1>2, <1>3, <1>4, EndKeeps

\* A delete that begins: nothing of the paths has changed, and whoever holds one
\* of them is noted.
LEMMA DeleteBegins ==
    ASSUME StorageInv, NEW r \in Requests, DeleteObject(r) \/ DeleteBucket(r)
    PROVE  StorageInv'
<1>1. PICK x \in Request, ps \in SUBSET Paths :
          /\ Set(r, x) /\ Valid(x, lastId) /\ x.id = bucket
          /\ x.at \in {"unlink", "unlinkAll"} /\ adrift' = adrift \cup Crossing(r, ps)
          /\ \A p \in Paths : Holds(x, p) => p \in ps
          /\ x.at = "unlinkAll" => x.left = {p \in Paths : rows[p] # 0}
  <2>1. bucket \in 0..MaxBuckets /\ bucket \in 0..lastId
    BY Shape
  <2>2. CASE DeleteObject(r)
    <3>1. PICK p \in Paths : /\ Set(r, [Idle EXCEPT !.at = "unlink", !.id = bucket, !.path = p])
                             /\ adrift' = adrift \cup Crossing(r, {p})
      BY <2>2 DEF DeleteObject
    <3> DEFINE z == [Idle EXCEPT !.at = "unlink", !.id = bucket, !.path = p]
    <3>2. z \in Request /\ z.at = "unlink" /\ z.id = bucket /\ z.path = p
      BY <2>1, IdleShape DEF Request, Half
    <3>3. Set(r, z)
      BY <3>1
    <3> HIDE DEF z
    <3>4. Valid(z, lastId) /\ \A q \in Paths : Holds(z, q) => q \in {p}
      BY <2>1, <3>2 DEF Valid, Holds
    <3> QED
      BY <3>1, <3>2, <3>3, <3>4
  <2>3. CASE DeleteBucket(r)
    <3> DEFINE left == {p \in Paths : rows[p] # 0}
               z == [Idle EXCEPT !.at = "unlinkAll", !.id = bucket, !.left = left]
    <3>1. z \in Request /\ z.at = "unlinkAll" /\ z.id = bucket /\ z.left = left
      BY <2>1, IdleShape DEF Request
    <3>2. Set(r, z) /\ adrift' = adrift \cup Crossing(r, Paths)
      BY <2>3 DEF DeleteBucket
    <3> HIDE DEF z
    <3>3. Valid(z, lastId)
      BY <2>1, <3>1 DEF Valid, Uploading, Half
    <3> QED
      BY <3>1, <3>2, <3>3
  <2> QED
    BY <2>2, <2>3
<1>2. /\ requests[r].at = "idle" /\ bucket # 0
      /\ UNCHANGED <<bucket, lastId, rows, files, limits, figures, counter>>
  BY DEF DeleteObject, DeleteBucket, At, rate
<1>3. /\ requests'[r] = x
      /\ \A o \in Requests \ {r} : requests'[o] = requests[o]
  BY <1>1, OneMoves
<1>4. requests[r].at \notin Half \cup {"unlinkAll"}
  BY <1>2 DEF Half
<1>5. ASSUME NEW p \in Paths \ adrift'
      PROVE  /\ ~Changed(requests[r], p)
             /\ Holds(x, p) => Knows(requests[r], p)'
             /\ Holds(x, p) => \A o \in Requests \ {r} : ~Holds(requests[o], p)
  <2>1. ~Changed(requests[r], p)
    BY <1>4, NoPart
  <2>2. ASSUME Holds(x, p) PROVE \A o \in Requests \ {r} : ~Holds(requests[o], p)
    <3>1. p \in ps /\ p \notin Crossing(r, ps)
      BY <1>1, <2>2
    <3> QED
      BY <3>1, NotCrossed
  <2>3. ASSUME Holds(x, p), x.at = "unlinkAll" PROVE p \in x.left \/ files[p] = 0
    <3>1. \A o \in Requests : ~Changed(requests[o], p)
      BY <2>1, <2>2, <2>3 DEF Changed
    <3>2. rows[p] = files[p]
      BY <1>1, <3>1 DEF StorageInv, PathsInOrder, InOrder
    <3> QED
      BY <1>1, <2>3, <3>2
  <2>4. Holds(x, p) => Knows(requests[r], p)'
    BY <1>1, <1>2, <1>3, <2>3 DEF Knows
  <2> QED
    BY <2>1, <2>2, <2>4
<1>6. PathsInOrder'
  BY <1>1, <1>2, <1>3, <1>5, StoreMoves
<1>7. counter' \in [n : 0..(Points + 1), expires : BOOLEAN] /\ ~At(r, "invalidate")
  BY <1>2, Shape DEF At
<1>8. /\ files' \in [Paths -> 0..MaxFile] /\ rows' \in [Paths -> 0..MaxFile]
      /\ \A p \in Paths : files'[p] <= files[p]
  BY <1>2, Shape
<1> QED
  BY <1>1, <1>2, <1>6, <1>7, <1>8, StoreKeeps

\* The file of an object that is deleted: gone, or adrift.
LEMMA UnlinkKeeps ==
    ASSUME StorageInv, NEW r \in Requests, Unlink(r) \/ UnlinkFails(r)
    PROVE  StorageInv'
<1> DEFINE x == [requests[r] EXCEPT !.at = "delete"]
<1>1. /\ requests[r].at = "unlink" /\ Set(r, x) /\ adrift \subseteq adrift'
      /\ \/ files' = [files EXCEPT ![requests[r].path] = 0]
         \/ files' = files /\ requests[r].path \in adrift'
      /\ UNCHANGED <<bucket, lastId, rows, limits, figures, counter>>
  BY DEF Unlink, UnlinkFails, At, Go, rate
<1>2. /\ x \in Request /\ x.at = "delete" /\ x.id = requests[r].id
      /\ x.path = requests[r].path
  BY RequestShape DEF Request, Half
<1> HIDE DEF x
<1>3. requests[r].path \in Paths /\ requests[r].id \in 0..lastId /\ 0 \in 0..MaxFile
  BY <1>1, Shape DEF Valid, Half
<1>4. Valid(x, lastId)
  BY <1>2, <1>3 DEF Valid
<1>5. /\ requests'[r] = x
      /\ \A o \in Requests \ {r} : requests'[o] = requests[o]
  BY <1>1, <1>2, OneMoves
<1>6. /\ files' \in [Paths -> 0..MaxFile] /\ rows' \in [Paths -> 0..MaxFile]
      /\ \A p \in Paths : files'[p] <= files[p]
  BY <1>1, <1>3, Shape
<1>7. ASSUME NEW p \in Paths \ adrift', p = requests[r].path
      PROVE  /\ Knows(requests[r], p)' /\ Changed(x, p)
             /\ \A o \in Requests \ {r} : ~Holds(requests[o], p)
  <2>1. Holds(requests[r], p) /\ p \in Paths \ adrift
    BY <1>1, <1>7 DEF Holds, Half
  <2>2. Knows(requests[r], p) /\ \A o \in Requests \ {r} : ~Holds(requests[o], p)
    BY <2>1, HeldAlone
  <2>3. bucket = x.id /\ bucket # 0 /\ files'[p] = 0
    BY <1>1, <1>2, <1>3, <1>7, <2>2, Shape DEF Knows
  <2>4. Knows(requests[r], p)'
    BY <1>1, <1>2, <1>5, <2>3 DEF Knows
  <2>5. Changed(x, p)
    BY <1>2, <1>7 DEF Changed, Holds, Half
  <2> QED
    BY <2>2, <2>4, <2>5
<1>8. ASSUME NEW p \in Paths \ adrift', p # requests[r].path
      PROVE  /\ ~Holds(x, p) /\ ~Changed(requests[r], p)
             /\ rows'[p] = rows[p] /\ files'[p] = files[p] /\ bucket' = bucket
  BY <1>1, <1>2, <1>3, <1>8, Shape DEF Holds, Changed
<1>9. PathsInOrder'
  BY <1>1, <1>2, <1>5, <1>7, <1>8, StoreMoves
<1>10. counter' \in [n : 0..(Points + 1), expires : BOOLEAN] /\ ~At(r, "invalidate")
  BY <1>1, Shape DEF At
<1> QED
  BY <1>1, <1>2, <1>4, <1>6, <1>9, <1>10, StoreKeeps

\* One file of a bucket that is deleted: gone, or adrift.
LEMMA UnlinkNextKeeps ==
    ASSUME StorageInv, NEW r \in Requests, UnlinkNext(r)
    PROVE  StorageInv'
<1>1. PICK q \in requests[r].left :
          /\ Set(r, [requests[r] EXCEPT !.left = @ \ {q}]) /\ adrift \subseteq adrift'
          /\ \/ files' = [files EXCEPT ![q] = 0]
             \/ files' = files /\ q \in adrift'
  BY DEF UnlinkNext
<1>2. /\ requests[r].at = "unlinkAll"
      /\ UNCHANGED <<bucket, lastId, rows, limits, figures, counter>>
  BY DEF UnlinkNext, At, rate
<1> DEFINE x == [requests[r] EXCEPT !.left = @ \ {q}]
<1>3. /\ x \in Request /\ x.at = "unlinkAll" /\ x.id = requests[r].id
      /\ x.left = requests[r].left \ {q}
  BY <1>2, RequestShape DEF Request
<1>4. Set(r, x)
  BY <1>1
<1> HIDE DEF x
<1>5. q \in Paths /\ requests[r].id \in 0..lastId /\ 0 \in 0..MaxFile
  BY Shape DEF Valid, Request
<1>6. Valid(x, lastId)
  BY <1>3, <1>5 DEF Valid, Uploading, Half
<1>7. /\ requests'[r] = x
      /\ \A o \in Requests \ {r} : requests'[o] = requests[o]
  BY <1>3, <1>4, OneMoves
<1>8. /\ files' \in [Paths -> 0..MaxFile] /\ rows' \in [Paths -> 0..MaxFile]
      /\ \A p \in Paths : files'[p] <= files[p]
  BY <1>1, <1>2, <1>5, Shape
<1>9. ASSUME NEW p \in Paths \ adrift'
      PROVE  /\ Knows(requests[r], p)' /\ Changed(x, p)
             /\ \A o \in Requests \ {r} : ~Holds(requests[o], p)
  <2>1. Holds(requests[r], p) /\ p \in Paths \ adrift
    BY <1>1, <1>2, <1>9 DEF Holds
  <2>2. Knows(requests[r], p) /\ \A o \in Requests \ {r} : ~Holds(requests[o], p)
    BY <2>1, HeldAlone
  <2>3. bucket = x.id /\ bucket # 0 /\ (p \in requests[r].left \/ files[p] = 0)
    BY <1>2, <1>3, <2>2 DEF Knows
  <2>4. p \in x.left \/ files'[p] = 0
    BY <1>1, <1>3, <1>5, <1>9, <2>3, Shape
  <2>5. Knows(requests[r], p)'
    BY <1>2, <1>3, <1>7, <2>3, <2>4 DEF Knows
  <2>6. Changed(x, p)
    BY <1>3 DEF Changed, Holds
  <2> QED
    BY <2>2, <2>5, <2>6
<1>10. PathsInOrder'
  BY <1>1, <1>3, <1>7, <1>9, StoreMoves
<1>11. counter' \in [n : 0..(Points + 1), expires : BOOLEAN] /\ ~At(r, "invalidate")
  BY <1>2, Shape DEF At
<1> QED
  BY <1>2, <1>3, <1>4, <1>6, <1>8, <1>10, <1>11, StoreKeeps

\* The requests after bytes were stored that walks may miss.
LEMMA MissedShape ==
    ASSUME StorageInv, NEW size \in 0..MaxFile
    PROVE  /\ Missed(size) \in [Requests -> Request]
           /\ \A o \in Requests :
                 LET x == Missed(size)[o] y == requests[o] IN
                 /\ x.at = y.at /\ x.path = y.path /\ x.id = y.id /\ x.size = y.size
                 /\ x.left = y.left /\ x.listed = y.listed /\ x.quotas = y.quotas
                 /\ x.figure = y.figure /\ x.part = y.part
                 /\ y.at = "walk" => x.since = y.since + size
                 /\ y.at # "walk" => x = y
<1>1. ASSUME NEW o \in Requests
      PROVE  LET x == Missed(size)[o] y == requests[o] IN
             /\ x \in Request
             /\ x.at = y.at /\ x.path = y.path /\ x.id = y.id /\ x.size = y.size
             /\ x.left = y.left /\ x.listed = y.listed /\ x.quotas = y.quotas
             /\ x.figure = y.figure /\ x.part = y.part
             /\ y.at = "walk" => x.since = y.since + size
             /\ y.at # "walk" => x = y
  <2>1. PICK y \in Request : y = requests[o]
    BY Shape
  <2>2. PICK n \in Nat : n = y.since + size
    BY Shape DEF Request
  <2> DEFINE z == [y EXCEPT !.since = n]
  <2>3. /\ z \in Request /\ z.at = y.at /\ z.path = y.path /\ z.id = y.id /\ z.size = y.size
        /\ z.left = y.left /\ z.listed = y.listed /\ z.quotas = y.quotas
        /\ z.figure = y.figure /\ z.part = y.part /\ z.since = n
    BY DEF Request
  <2>4. Missed(size)[o] = IF y.at = "walk" THEN z ELSE y
    BY <2>1, <2>2 DEF Missed, At
  <2> HIDE DEF z
  <2> QED
    BY <2>1, <2>2, <2>3, <2>4
<1>2. Missed(size) = [o \in Requests |-> Missed(size)[o]]
  BY DEF Missed
<1>3. Missed(size) \in [Requests -> Request]
  BY <1>1, <1>2
<1> QED
  BY <1>1, <1>3

\* The whole file lands.  Every figure that is to be recorded misses its bytes,
\* and who else holds the path is noted.
LEMMA PutKeeps ==
    ASSUME StorageInv, NEW r \in Requests, Put(r)
    PROVE  StorageInv'
<1>1. PICK path \in Paths, size \in 0..MaxFile, cut \in BOOLEAN :
          path = requests[r].path /\ size = requests[r].size /\ cut = requests[r].cut
  <2>1. requests[r].at = "put"
    BY DEF Put, At
  <2> QED
    BY <2>1, Shape DEF Valid, Uploading, Request
<1>2. PICK next \in {"truncated", "insert"} : next = IF cut THEN "truncated" ELSE "insert"
  OBVIOUS
<1> DEFINE x == [requests[r] EXCEPT !.at = next]
<1>3. /\ requests[r].at = "put" /\ files' = [files EXCEPT ![path] = size]
      /\ written' = written + size /\ requests' = [Missed(size) EXCEPT ![r].at = next]
      /\ adrift' = adrift \cup Crossing(r, {path})
                          \cup (IF cut /\ files[path] # 0 THEN {path} ELSE {})
      /\ UNCHANGED <<bucket, lastId, rows, quota, cache, raced, usage, partial, counter>>
  BY <1>1, <1>2 DEF Put, At, limits, rate
<1>4. /\ x \in Request /\ x.at = next /\ x.path = path /\ x.size = size /\ x.id = requests[r].id
      /\ requests[r].id \in 0..lastId
  BY <1>1, RequestShape DEF Request, Half, Valid
<1>5. Missed(size) \in [Requests -> Request] /\ Missed(size)[r] = requests[r]
  BY <1>3, MissedShape
<1>6. requests'[r] = x /\ \A o \in Requests \ {r} : requests'[o] = Missed(size)[o]
  BY <1>3, <1>5
<1> HIDE DEF x
<1>8. requests' \in [Requests -> Request]
  <2>1. DOMAIN requests' = Requests /\ requests' = [o \in Requests |-> requests'[o]]
    BY <1>3, <1>5
  <2> QED
    BY <1>4, <1>5, <1>6, <2>1
<1>9. requests'[r] = x
  BY <1>6
<1>10. ASSUME NEW o \in Requests \ {r}
       PROVE  /\ requests'[o].at = requests[o].at /\ requests'[o].path = requests[o].path
              /\ requests'[o].id = requests[o].id /\ requests'[o].size = requests[o].size
              /\ requests'[o].left = requests[o].left /\ requests'[o].listed = requests[o].listed
              /\ requests'[o].quotas = requests[o].quotas
              /\ requests'[o].figure = requests[o].figure
              /\ requests'[o].part = requests[o].part
              /\ requests[o].at = "walk" => requests'[o].since = requests[o].since + size
  BY <1>6, MissedShape
<1>11. files' \in [Paths -> 0..MaxFile] /\ rows' \in [Paths -> 0..MaxFile]
       /\ size \in Nat /\ written' \in Nat /\ usage' \in Nat
  BY <1>3, Shape
<1>12. Shapes'
  <2>1. ASSUME NEW o \in Requests PROVE Valid(requests'[o], lastId')
    <3>1. CASE o = r
      BY <1>3, <1>4, <1>9, <3>1 DEF Valid
    <3>2. CASE o # r
      <4>1. Valid(requests[o], lastId)
        BY Shape
      <4> QED
        BY <1>3, <1>10, <3>2, <4>1 DEF Valid
    <3> QED
      BY <3>1, <3>2
  <2>2. bucket' \in 0..lastId' /\ lastId' \in 0..MaxBuckets /\ lastId <= lastId'
    BY <1>3, Shape
  <2>3. /\ quota' \in QuotaRows /\ cache' \in QuotaRows \cup {None}
        /\ counter' \in [n : 0..(Points + 1), expires : BOOLEAN]
    BY <1>3, Shape
  <2> QED
    BY <1>8, <1>11, <2>1, <2>2, <2>3, ShapesKept
<1>13. PathsInOrder'
  <2>1. ASSUME NEW p \in Paths \ adrift', p = path
        PROVE  /\ Knows(requests[r], p)' /\ Changed(x, p)
               /\ \A o \in Requests \ {r} : ~Holds(requests[o], p)
    <3>1. p \notin Crossing(r, {path}) /\ p \notin adrift /\ (cut => files[p] = 0)
      BY <1>3, <2>1
    <3>2. \A o \in Requests \ {r} : ~Holds(requests[o], p)
      BY <2>1, <3>1, NotCrossed
    <3>3. ~Changed(requests[r], p)
      BY <1>3 DEF Changed, Holds, Half
    <3>4. rows[p] = files[p]
      BY <3>1, <3>2, <3>3 DEF StorageInv, PathsInOrder, InOrder, Changed
    <3>5. files'[p] = size /\ (x.at = "truncated" => rows'[p] = 0)
      BY <1>2, <1>3, <1>4, <2>1, <3>1, <3>4, Shape
    <3>6. Knows(requests[r], p)'
      BY <1>2, <1>4, <1>9, <3>5 DEF Knows
    <3>7. Changed(x, p)
      BY <1>2, <1>4, <2>1 DEF Changed, Holds, Half
    <3> QED
      BY <3>2, <3>6, <3>7
  <2>2. ASSUME NEW p \in Paths \ adrift', p # path
        PROVE  /\ ~Holds(x, p) /\ ~Changed(requests[r], p)
               /\ rows'[p] = rows[p] /\ files'[p] = files[p] /\ bucket' = bucket
    BY <1>2, <1>3, <1>4, <2>2, Shape DEF Holds, Changed, Half
  <2>3. adrift \subseteq adrift'
    BY <1>3
  <2> QED
    BY <1>4, <1>9, <1>10, <2>1, <2>2, <2>3, StoreMoves
<1>14. Fresh'
  <2>1. \A o \in Requests : /\ requests'[o].at = "setex" => requests[o].at = "setex"
                                    /\ requests'[o].quotas = requests[o].quotas
                            /\ requests[o].at = "invalidate" => requests'[o].at = "invalidate"
    BY <1>2, <1>3, <1>4, <1>9, <1>10
  <2> QED
    BY <1>3, <2>1 DEF StorageInv, Fresh, At
<1>15. Covered'
  <2>1. requests'[r].at # "walk"
    BY <1>2, <1>4, <1>9
  <2>2. ASSUME NEW o \in Requests, requests'[o].at = "walk"
        PROVE  /\ requests[o].at = "walk" /\ requests'[o].part = requests[o].part
               /\ requests'[o].left = requests[o].left
               /\ requests'[o].listed = requests[o].listed
               /\ requests'[o].figure = requests[o].figure
               /\ requests'[o].since = requests[o].since + size
    <3>1. o # r
      BY <2>1, <2>2
    <3> QED
      BY <1>10, <2>2, <3>1
  <2>3. UNCHANGED <<usage, partial>> /\ written' = written + size
    BY <1>3
  <2> QED
    BY <1>3, <2>2, <2>3, CoveredGrows
<1> QED
  BY <1>12, <1>13, <1>14, <1>15 DEF StorageInv

\* A signed URL stores a file for which there is no row, and its path says so.
LEMMA SignedPutKeeps ==
    ASSUME StorageInv, SignedPut
    PROVE  StorageInv'
<1>1. PICK path \in Paths, size \in 0..MaxFile :
          /\ files' = [files EXCEPT ![path] = size] /\ written' = written + size
          /\ requests' = Missed(size) /\ adrift' = adrift \cup {path}
  <2>1. \A s \in 1..MaxFile : s \in 0..MaxFile
    BY Shape
  <2> QED
    BY <2>1 DEF SignedPut
<1>2. UNCHANGED <<bucket, lastId, rows, quota, cache, raced, usage, partial, counter>>
  BY DEF SignedPut, limits, rate
<1>3. /\ requests' \in [Requests -> Request]
      /\ \A o \in Requests :
            /\ requests'[o].at = requests[o].at /\ requests'[o].path = requests[o].path
            /\ requests'[o].id = requests[o].id /\ requests'[o].size = requests[o].size
            /\ requests'[o].left = requests[o].left /\ requests'[o].listed = requests[o].listed
            /\ requests'[o].quotas = requests[o].quotas
            /\ requests'[o].figure = requests[o].figure
            /\ requests'[o].part = requests[o].part
            /\ requests[o].at = "walk" => requests'[o].since = requests[o].since + size
  BY <1>1, MissedShape
<1>4. /\ files' \in [Paths -> 0..MaxFile] /\ rows' \in [Paths -> 0..MaxFile]
      /\ written' \in Nat /\ usage' \in Nat
  BY <1>1, <1>2, Shape
<1>5. Shapes'
  <2>1. \A o \in Requests : Valid(requests'[o], lastId')
    BY <1>2, <1>3, Shape DEF Valid
  <2>2. bucket' \in 0..lastId' /\ lastId' \in 0..MaxBuckets /\ lastId <= lastId'
    BY <1>2, Shape
  <2>3. /\ quota' \in QuotaRows /\ cache' \in QuotaRows \cup {None}
        /\ counter' \in [n : 0..(Points + 1), expires : BOOLEAN]
    BY <1>2, Shape
  <2> QED
    BY <1>3, <1>4, <2>1, <2>2, <2>3, ShapesKept
<1>6. PathsInOrder'
  <2> SUFFICES ASSUME NEW p \in Paths \ adrift' PROVE InOrder(p)'
    BY DEF PathsInOrder
  <2>1. InOrder(p) /\ files'[p] = files[p]
    BY <1>1, Shape DEF StorageInv, PathsInOrder
  <2>2. \A o \in Requests : /\ Holds(requests'[o], p) <=> Holds(requests[o], p)
                            /\ Changed(requests'[o], p) <=> Changed(requests[o], p)
                            /\ Knows(requests[o], p) => Knows(requests[o], p)'
    BY <1>2, <1>3, <2>1 DEF Holds, Changed, Knows
  <2> QED
    BY <1>2, <2>1, <2>2 DEF InOrder
<1>7. Fresh'
  BY <1>2, <1>3 DEF StorageInv, Fresh, At
<1>8. Covered'
  BY <1>1, <1>2, <1>3, CoveredGrows
<1> QED
  BY <1>5, <1>6, <1>7, <1>8 DEF StorageInv

-----------------------------------------------------------------------------
LEMMA InitStorageInv == Init => StorageInv
<1> SUFFICES ASSUME Init PROVE StorageInv
  OBVIOUS
<1>1. /\ bucket = 0 /\ lastId = 0 /\ rows = [p \in Paths |-> 0] /\ files = [p \in Paths |-> 0]
      /\ quota \in QuotaRows /\ cache = None /\ usage = 0 /\ written = 0
      /\ counter = [n |-> 0, expires |-> FALSE] /\ requests = [r \in Requests |-> Idle]
      /\ adrift = {} /\ partial = FALSE
  BY DEF Init
<1>2. 0 \in 0..MaxBuckets /\ 0 \in 0..MaxFile /\ 0 \in 0..0 /\ 0 \in 0..(Points + 1)
  BY StorageAssumption
<1>3. /\ Idle \in Request /\ Idle.at = "idle" /\ Idle.path = None /\ Idle.id = 0
      /\ Valid(Idle, 0)
  BY <1>2 DEF Idle, Request, Valid, Uploading, Half
<1>4. \A r \in Requests : requests[r] = Idle
  BY <1>1
<1>5. Shapes
  <2>1. requests \in [Requests -> Request] /\ \A r \in Requests : Valid(requests[r], lastId)
    BY <1>1, <1>3, <1>4
  <2>2. rows \in [Paths -> 0..MaxFile] /\ files \in [Paths -> 0..MaxFile]
    BY <1>1, <1>2
  <2>3. counter \in [n : 0..(Points + 1), expires : BOOLEAN] /\ counter.n \in 0..(Points + 1)
    BY <1>1, <1>2
  <2>4. TypeOK
    BY <1>1, <1>2, <1>3, <1>4, <2>2, <2>3 DEF TypeOK
  <2> QED
    BY <2>1, <2>3, <2>4 DEF Shapes
<1>6. PathsInOrder
  <2>1. \A r \in Requests, p \in Paths : ~Holds(requests[r], p)
    BY <1>3, <1>4 DEF Holds, Half
  <2> QED
    BY <1>1, <2>1 DEF PathsInOrder, InOrder
<1>7. Fresh
  BY <1>1, <1>3, <1>4 DEF Fresh, At
<1>8. Covered
  <2>1. ASSUME NEW b \in Paths \X (1..MaxFile) PROVE ~(b[2] <= files[b[1]])
    <3>1. files[b[1]] = 0 /\ b[2] \in 1..MaxFile /\ MaxFile \in Nat
      BY <1>1, StorageAssumption
    <3> QED
      BY <3>1
  <2>2. BytesOf(files, Paths) = {}
    BY <2>1 DEF BytesOf
  <2>3. Weight(files, Paths) = 0
    BY <2>2, FS_EmptySet DEF Weight
  <2> QED
    BY <1>1, <1>3, <1>4, <2>3 DEF Covered, WalkCovers
<1> QED
  BY <1>5, <1>6, <1>7, <1>8 DEF StorageInv

LEMMA NextStorageInv == StorageInv /\ [Next]_vars => StorageInv'
<1> SUFFICES ASSUME StorageInv, [Next]_vars PROVE StorageInv'
  OBVIOUS
<1>1. ASSUME NEW r \in Requests, Upload(r) PROVE StorageInv'
  BY <1>1, ConsumeKeeps, FindBucketKeeps, QuotasKeep, EnforceKeeps, PutKeeps,
     RemoveTruncatedKeeps, InsertObjectKeeps DEF Upload
<1>2. ASSUME NEW r \in Requests, Delete(r) PROVE StorageInv'
  BY <1>2, DeleteBegins, UnlinkKeeps, DeleteRowKeeps, UnlinkNextKeeps, DropBucketKeeps DEF Delete
<1>3. ASSUME NEW r \in Requests, Sample(r) PROVE StorageInv'
  BY <1>3, SampleKeeps, RecordKeeps DEF Sample
<1>4. ASSUME NEW r \in Requests,
             \/ UpdateQuotas(r) \/ InvalidateQuotaCache(r) \/ InvalidateFails(r)
             \/ HandlerDies(r)
      PROVE  StorageInv'
  BY <1>4, UpdateQuotasKeeps, InvalidateKeeps, HandlerDiesKeeps
<1>5. CASE WindowEnds \/ CacheExpires \/ CreateBucket
  BY <1>5, AroundKeeps
<1>6. CASE SignedPut
  BY <1>6, SignedPutKeeps
<1>7. CASE UNCHANGED vars
  <2>1. UNCHANGED <<bucket, lastId, rows, files, quota, cache, usage, counter, requests,
                    written, adrift, raced, partial>>
    BY <1>7 DEF vars
  <2>2. Shapes'
    BY <2>1 DEF StorageInv, Shapes, TypeOK, Valid
  <2>3. PathsInOrder'
    BY <2>1 DEF StorageInv, PathsInOrder, InOrder, Knows
  <2>4. Fresh' /\ Covered'
    BY <2>1 DEF StorageInv, Fresh, Covered, At, WalkCovers, Done
  <2> QED
    BY <2>2, <2>3, <2>4 DEF StorageInv
<1> QED
  BY <1>1, <1>2, <1>3, <1>4, <1>5, <1>6, <1>7 DEF Next

LEMMA StorageInvHolds == Spec => []StorageInv
  BY InitStorageInv, NextStorageInv, PTL DEF Spec

-----------------------------------------------------------------------------
\* Rows, files, figures and requests keep their shape, at any number of requests.
THEOREM StorageTypeCorrect == Spec => []TypeOK
<1>1. StorageInv => TypeOK
  BY DEF StorageInv, Shapes
<1> QED
  BY <1>1, StorageInvHolds, PTL

\* A path has a row exactly when it has a file, of that size, once no request is
\* changing it: upload puts and then inserts, delete unlinks and then deletes
\* (storage.routes.ts:153-176, 239-240), and what overlapped, died or failed on
\* the way, or came by a signed URL, is named.
THEOREM StorageKeepsStep == Spec => []RowsMatchFiles
<1>1. StorageInv => RowsMatchFiles
  <2> SUFFICES ASSUME StorageInv, NEW p \in Paths \ (adrift \cup Touched)
               PROVE  rows[p] = files[p]
    BY DEF RowsMatchFiles
  <2>1. ASSUME NEW r \in Requests, Changed(requests[r], p) PROVE p \in Touched
    <3>1. p \in Touches(r)
      BY <2>1 DEF Changed, Holds, Half, Touches
    <3> QED
      BY <3>1 DEF Touched
  <2> QED
    BY <2>1 DEF StorageInv, PathsInOrder, InOrder
<1> QED
  BY <1>1, StorageInvHolds, PTL

\* What getQuotas reads of Redis is the operator's row once his PATCH has returned
\* (quotas.routes.ts:137), unless a reader still held the old row or the DEL failed.
THEOREM CacheFollowsRow == Spec => []CacheFreshUnlessRaced
<1>1. StorageInv => CacheFreshUnlessRaced
  BY DEF StorageInv, Fresh, CacheFreshUnlessRaced
<1> QED
  BY <1>1, StorageInvHolds, PTL

\* The sampled figure and what was written since its walk began cover all that is
\* stored (quotas.ts:16-19), for any number of samplings, page by page and file by
\* file under uploads and deletions, unless the walk could not read everything.
THEOREM FigureCovers == Spec => []FigureCoversUnlessPartial
<1>1. StorageInv => FigureCoversUnlessPartial
  BY TotalWeight DEF StorageInv, Covered, FigureCoversUnlessPartial
<1> QED
  BY <1>1, StorageInvHolds, PTL

-----------------------------------------------------------------------------
\* What a change of the row leaves behind.
Row == [v : 0..MaxVersion, there : BOOLEAN, sees : SUBSET Claims, rls : Rls]
Event == [deleted : BOOLEAN, sees : SUBSET Claims]

FeedShapes ==
    /\ FeedTypeOK /\ row \in Row /\ events \in [Versions -> Event] /\ wire \in [Versions -> Nat]
    /\ got \in [Sockets -> [Versions -> Nat]] /\ met \in BOOLEAN /\ dropped \in BOOLEAN
    /\ \A t \in Tasks : tasks[t].at = "idle" <=> tasks[t].v = 0

\* A version to come has left no trace.
NotYet ==
    \A v \in Versions : v > row.v =>
        /\ wire[v] = 0 /\ \A t \in Tasks : tasks[t].v # v
        /\ \A s \in Sockets : got[s][v] = 0

-----------------------------------------------------------------------------
\* Who counts as a subscriber, and whose leaving nobody noticed.
Subscribed ==
    \A s \in Sockets :
        /\ s \in subscriptions <=> sockets[s].at \in {"credentials", "connect", "up"}
        /\ sockets[s].client # Absent <=> sockets[s].at = "connect"
        /\ s \in subscriptions => sockets[s].open \/ s \in ghosts

\* The map has the only connection there is, and one socket at most opens it.
OneConnection ==
    \/ met \/ dropped
    \/ /\ listener # Absent => listener \in Attached /\ subscriptions # {}
       /\ Attached \subseteq {listener}
       /\ \A s \in Sockets :
             /\ sockets[s].at = "credentials" => listener = Absent
             /\ sockets[s].at \in {"connect", "up"} => listener # Absent
       /\ \A q, s \in Sockets :
             sockets[q].at = "credentials" /\ sockets[s].at = "credentials" => q = s

\* A version is in one place: on the wire, with a delivery, or with its sockets.
Single(v) ==
    /\ wire[v] <= 1
    /\ wire[v] = 1 => \A t \in Tasks : tasks[t].v # v
    /\ wire[v] = 1 \/ (\E t \in Tasks : tasks[t].v = v) => \A s \in Sockets : got[s][v] = 0
    /\ \A t, u \in Tasks : tasks[t].v = v /\ tasks[u].v = v => t = u
    /\ \A s \in Sockets : got[s][v] <= 1
OnePlace == met \/ dropped \/ \A v \in Versions : Single(v)

\* Nothing has changed since this version, and the probe sees what it was.
Unmoved(v) ==
    /\ v = row.v
    /\ row.rls = "off" => events[v].sees = Claims
    /\ row.rls # "off" /\ row.there => events[v].sees = row.sees

Judging ==
    /\ \A v \in Unjudged \ moved : Unmoved(v)
    /\ \A t \in Tasks : LET x == tasks[t] IN
          x.v \in Versions \ (moved \cup stale) =>
              /\ x.allowed \subseteq events[x.v].sees \cup {Service}
              /\ x.at = "probe" => row.rls = "on"

\* Whom a socket's key stands for is himself, unless another's claims stand in.
Own(x) ==
    \A s \in x.interested, c \in x.left \cup x.allowed :
        IdentityKey(c) = IdentityKey(ClaimsOf[s]) => <<s, x.v>> \in shared \/ c = ClaimsOf[s]
OwnClaims == \A t \in Tasks : Own(tasks[t])

RealtimeInv ==
    /\ FeedShapes /\ NotYet /\ Subscribed /\ OneConnection /\ OnePlace /\ Judging
    /\ OwnClaims /\ ToldWhatHeMaySee

\* The feed takes a step, and what is delivered over it is as it was.
LEMMA FeedKeeps ==
    ASSUME RealtimeInv, UNCHANGED <<data, wire, metaCache, tasks, got, history>>,
           met' \in BOOLEAN, dropped' \in BOOLEAN, met => met', dropped => dropped',
           listener' \in Clients \cup {Absent},
           clients' \in [Clients -> {"new", "connecting", "listening", "mute", "ended"}],
           sockets' \in [Sockets -> [at : {"out", "credentials", "connect", "up", "closed"},
                                     client : Clients \cup {Absent}, open : BOOLEAN]],
           topics' \subseteq Sockets, subscriptions' \subseteq Sockets,
           Subscribed', OneConnection'
    PROVE  RealtimeInv'
<1>1. UNCHANGED <<row, events, wire, metaCache, tasks, got, moved, stale, shared>>
  BY DEF data, history
<1>2. FeedShapes'
  BY <1>1 DEF RealtimeInv, FeedShapes, FeedTypeOK
<1>3. NotYet' /\ ToldWhatHeMaySee' /\ OwnClaims'
  BY <1>1 DEF RealtimeInv, NotYet, ToldWhatHeMaySee, OwnClaims, Own
<1>4. OnePlace'
  BY <1>1 DEF RealtimeInv, OnePlace, Single
<1>5. Judging'
  <2>1. Unjudged' = Unjudged /\ \A v : Unmoved(v)' <=> Unmoved(v)
    BY <1>1 DEF Unjudged, Unmoved
  <2> QED
    BY <1>1, <2>1 DEF RealtimeInv, Judging
<1> QED
  BY <1>2, <1>3, <1>4, <1>5 DEF RealtimeInv

\* The shapes of the feed, to cite.
LEMMA FeedShape ==
    ASSUME RealtimeInv
    PROVE  /\ listener \in Clients \cup {Absent} /\ met \in BOOLEAN /\ dropped \in BOOLEAN
           /\ clients \in [Clients -> {"new", "connecting", "listening", "mute", "ended"}]
           /\ sockets \in [Sockets -> [at : {"out", "credentials", "connect", "up", "closed"},
                                       client : Clients \cup {Absent}, open : BOOLEAN]]
           /\ topics \subseteq Sockets /\ subscriptions \subseteq Sockets
           /\ Absent \notin Clients
  BY RealtimeAssumption DEF RealtimeInv, FeedShapes, FeedTypeOK

\* The first subscriber is the only one to open a connection, or the race is noted.
LEMMA ConnectKeeps ==
    ASSUME RealtimeInv, NEW s \in Sockets, Connect(s)
    PROVE  RealtimeInv'
<1>0. /\ sockets[s].at = "out" /\ subscriptions' = subscriptions \cup {s}
      /\ UNCHANGED <<listener, clients, topics, dropped, ghosts>>
      /\ UNCHANGED <<data, wire, metaCache, tasks, got, history>>
  BY DEF Connect
<1>1. PICK at \in {"up", "credentials"} :
          /\ at = IF listener # Absent THEN "up" ELSE "credentials"
          /\ sockets' = [sockets EXCEPT ![s].at = at, ![s].open = TRUE]
  BY DEF Connect, HasListener
<1>2. /\ sockets' \in [Sockets -> [at : {"out", "credentials", "connect", "up", "closed"},
                                   client : Clients \cup {Absent}, open : BOOLEAN]]
      /\ sockets'[s].at = at /\ sockets'[s].open /\ sockets'[s].client = sockets[s].client
      /\ \A q \in Sockets \ {s} : sockets'[q] = sockets[q]
  BY <1>1, FeedShape
<1>3. met' = (met \/ (listener = Absent /\ \E o \in Sockets : sockets[o].at = "credentials"))
  BY DEF Connect, HasListener
<1>4. met' \in BOOLEAN /\ (met => met')
  BY <1>3, FeedShape
<1>5. Subscribed'
  BY <1>0, <1>1, <1>2 DEF RealtimeInv, Subscribed
<1>6. OneConnection'
  <2> SUFFICES ASSUME ~met', ~dropped'
               PROVE  /\ listener # Absent => listener \in Attached /\ subscriptions' # {}
                      /\ Attached \subseteq {listener}
                      /\ \A q \in Sockets :
                            /\ sockets'[q].at = "credentials" => listener = Absent
                            /\ sockets'[q].at \in {"connect", "up"} => listener # Absent
                      /\ \A p, q \in Sockets :
                            sockets'[p].at = "credentials" /\ sockets'[q].at = "credentials"
                                => p = q
    BY <1>0 DEF OneConnection, Attached
  <2>1. ~met /\ ~dropped
    BY <1>0, <1>3
  <2>2. listener = Absent => \A o \in Sockets : sockets[o].at # "credentials"
    BY <1>3
  <2> QED
    BY <1>0, <1>1, <1>2, <2>1, <2>2 DEF RealtimeInv, OneConnection
<1> QED
  BY <1>0, <1>2, <1>4, <1>5, <1>6, FeedShape, FeedKeeps

\* The connection that is stored is the first, or two met.
LEMMA OpenListenerKeeps ==
    ASSUME RealtimeInv, NEW s \in Sockets, OpenListener(s)
    PROVE  RealtimeInv'
<1>0. PICK c \in Clients :
          /\ sockets[s].at = "credentials" /\ clients[c] = "new"
          /\ clients' = [clients EXCEPT ![c] = "connecting"] /\ listener' = c
          /\ sockets' = [sockets EXCEPT ![s].at = "connect", ![s].client = c]
          /\ UNCHANGED <<topics, subscriptions, met, dropped, ghosts>>
          /\ UNCHANGED <<data, wire, metaCache, tasks, got, history>>
  BY DEF OpenListener
<1>1. /\ sockets' \in [Sockets -> [at : {"out", "credentials", "connect", "up", "closed"},
                                   client : Clients \cup {Absent}, open : BOOLEAN]]
      /\ sockets'[s].at = "connect" /\ sockets'[s].client = c /\ c # Absent
      /\ sockets'[s].open = sockets[s].open
      /\ \A q \in Sockets \ {s} : sockets'[q] = sockets[q]
      /\ clients' \in [Clients -> {"new", "connecting", "listening", "mute", "ended"}]
      /\ Attached' = Attached \cup {c}
  BY <1>0, FeedShape DEF Attached
<1>2. Subscribed'
  BY <1>0, <1>1 DEF RealtimeInv, Subscribed
<1>3. OneConnection'
  <2>1. s \in subscriptions
    BY <1>0 DEF RealtimeInv, Subscribed
  <2>2. CASE met \/ dropped
    BY <1>0, <2>2 DEF OneConnection
  <2>3. CASE ~met /\ ~dropped
    <3>1. listener = Absent /\ Attached \subseteq {Absent} /\ Attached \subseteq Clients
      BY <1>0, <2>3 DEF RealtimeInv, OneConnection, Attached
    <3>2. Attached' = {c}
      BY <1>1, <3>1, FeedShape
    <3>3. \A q \in Sockets \ {s} : sockets[q].at # "credentials"
      BY <1>0, <2>3 DEF RealtimeInv, OneConnection
    <3> QED
      BY <1>0, <1>1, <2>1, <3>1, <3>2, <3>3 DEF OneConnection
  <2> QED
    BY <2>2, <2>3
<1> QED
  BY <1>0, <1>1, <1>2, <1>3, FeedShape, FeedKeeps

\* The stored connection goes on, and its socket is up.
LEMMA ListeningKeeps ==
    ASSUME RealtimeInv, NEW s \in Sockets, Listening(s)
    PROVE  RealtimeInv'
<1>0. /\ sockets[s].at = "connect" /\ clients[sockets[s].client] = "connecting"
      /\ clients' = [clients EXCEPT ![sockets[s].client] = "listening"]
      /\ sockets' = [sockets EXCEPT ![s].at = "up", ![s].client = Absent]
      /\ UNCHANGED <<listener, topics, subscriptions, met, dropped, ghosts>>
      /\ UNCHANGED <<data, wire, metaCache, tasks, got, history>>
  BY DEF Listening
<1>1. /\ sockets' \in [Sockets -> [at : {"out", "credentials", "connect", "up", "closed"},
                                   client : Clients \cup {Absent}, open : BOOLEAN]]
      /\ sockets'[s].at = "up" /\ sockets'[s].client = Absent
      /\ sockets'[s].open = sockets[s].open
      /\ \A q \in Sockets \ {s} : sockets'[q] = sockets[q]
      /\ clients' \in [Clients -> {"new", "connecting", "listening", "mute", "ended"}]
  BY <1>0, FeedShape
<1>2. Attached' = Attached
  BY <1>0, FeedShape DEF Attached
<1>3. Subscribed'
  BY <1>0, <1>1 DEF RealtimeInv, Subscribed
<1>4. OneConnection'
  BY <1>0, <1>1, <1>2 DEF RealtimeInv, OneConnection
<1> QED
  BY <1>0, <1>1, <1>3, <1>4, FeedShape, FeedKeeps

\* A socket that is refused leaves; a client it had stored is a loss.
LEMMA AttachFailsKeeps ==
    ASSUME RealtimeInv, NEW s \in Sockets, AttachFails(s)
    PROVE  RealtimeInv'
<1>0. /\ sockets[s].at \in {"credentials", "connect"}
      /\ sockets[s].client = Absent => clients' = clients
      /\ \/ clients' = clients
         \/ \E at \in {"ended", "mute"} : clients' = [clients EXCEPT ![sockets[s].client] = at]
      /\ subscriptions' = subscriptions \ {s}
      /\ sockets' = [sockets EXCEPT ![s] = [at |-> "closed", client |-> Absent, open |-> FALSE]]
      /\ dropped' = (dropped \/ sockets[s].client # Absent) /\ ghosts' = ghosts \ {s}
      /\ UNCHANGED <<listener, topics, met>>
      /\ UNCHANGED <<data, wire, metaCache, tasks, got, history>>
  BY DEF AttachFails
<1>1. /\ sockets' \in [Sockets -> [at : {"out", "credentials", "connect", "up", "closed"},
                                   client : Clients \cup {Absent}, open : BOOLEAN]]
      /\ sockets'[s].at = "closed" /\ sockets'[s].client = Absent
      /\ \A q \in Sockets \ {s} : sockets'[q] = sockets[q]
      /\ clients' \in [Clients -> {"new", "connecting", "listening", "mute", "ended"}]
      /\ dropped' \in BOOLEAN /\ (dropped => dropped')
  BY <1>0, FeedShape
<1>2. Subscribed'
  BY <1>0, <1>1 DEF RealtimeInv, Subscribed
<1>3. OneConnection'
  <2>1. CASE met \/ dropped \/ sockets[s].client # Absent
    BY <1>0, <2>1 DEF OneConnection
  <2>2. CASE ~met /\ ~dropped /\ sockets[s].client = Absent
    <3>1. clients' = clients /\ Attached' = Attached /\ listener = Absent
      BY <1>0, <2>2 DEF RealtimeInv, OneConnection, Attached, Subscribed
    <3> QED
      BY <1>0, <1>1, <2>2, <3>1 DEF RealtimeInv, OneConnection
  <2> QED
    BY <2>1, <2>2
<1> QED
  BY <1>0, <1>1, <1>2, <1>3, FeedShape, FeedKeeps

\* The last to leave takes the connection along.
LEMMA LeaveKeeps ==
    ASSUME RealtimeInv, NEW s \in Sockets, Leave(s)
    PROVE  RealtimeInv'
<1>0. /\ sockets[s].at = "up" /\ sockets[s].open /\ subscriptions' = subscriptions \ {s}
      /\ StopListenerIfIdle(subscriptions \ {s})
      /\ sockets' = [sockets EXCEPT ![s] = [at |-> "closed", client |-> Absent, open |-> FALSE]]
      /\ UNCHANGED <<topics, met, dropped, ghosts>>
      /\ UNCHANGED <<data, wire, metaCache, tasks, got, history>>
  BY DEF Leave
<1>1. /\ sockets' \in [Sockets -> [at : {"out", "credentials", "connect", "up", "closed"},
                                   client : Clients \cup {Absent}, open : BOOLEAN]]
      /\ sockets'[s].at = "closed" /\ sockets'[s].client = Absent
      /\ \A q \in Sockets \ {s} : sockets'[q] = sockets[q]
      /\ clients' \in [Clients -> {"new", "connecting", "listening", "mute", "ended"}]
      /\ listener' \in Clients \cup {Absent}
  BY <1>0, FeedShape DEF StopListenerIfIdle
<1>2. Subscribed'
  BY <1>0, <1>1 DEF RealtimeInv, Subscribed
<1>3. OneConnection'
  <2>1. CASE met \/ dropped
    BY <1>0, <2>1 DEF OneConnection
  <2>2. CASE ~met /\ ~dropped /\ (subscriptions \ {s} # {} \/ listener = Absent)
    <3>1. UNCHANGED <<listener, clients>>
      BY <1>0, <2>2 DEF StopListenerIfIdle
    <3> QED
      BY <1>0, <1>1, <2>2, <3>1 DEF RealtimeInv, OneConnection, Attached
  <2>3. CASE ~met /\ ~dropped /\ subscriptions \ {s} = {} /\ listener # Absent
    <3>1. listener' = Absent /\ clients' = [clients EXCEPT ![listener] = "ended"]
      BY <1>0, <2>3 DEF StopListenerIfIdle
    <3>2. Attached' = {}
      BY <2>3, <3>1, FeedShape DEF RealtimeInv, OneConnection, Attached
    <3>3. \A q \in Sockets : sockets'[q].at \notin {"credentials", "connect", "up"}
      BY <1>0, <1>1, <2>3 DEF RealtimeInv, Subscribed
    <3> QED
      BY <3>1, <3>2, <3>3 DEF OneConnection
  <2> QED
    BY <2>1, <2>2, <2>3, FeedShape
<1> QED
  BY <1>0, <1>1, <1>2, <1>3, FeedShape, FeedKeeps

\* The steps that change neither the map nor who is subscribed.
LEMMA AsideKeeps ==
    ASSUME RealtimeInv, NEW s \in Sockets, LeaveEarly(s) \/ Subscribe(s)
    PROVE  RealtimeInv'
<1>0. /\ UNCHANGED <<listener, clients, subscriptions, met, dropped>>
      /\ UNCHANGED <<data, wire, metaCache, tasks, got, history>>
  BY DEF LeaveEarly, Subscribe
<1>1. topics' \subseteq Sockets
  BY FeedShape DEF LeaveEarly, Subscribe
<1>2. /\ sockets' \in [Sockets -> [at : {"out", "credentials", "connect", "up", "closed"},
                                   client : Clients \cup {Absent}, open : BOOLEAN]]
      /\ \A q \in Sockets : /\ sockets'[q].at = sockets[q].at
                            /\ sockets'[q].client = sockets[q].client
                            /\ sockets[q].open \/ q \in ghosts => sockets'[q].open \/ q \in ghosts'
  <2>1. CASE Subscribe(s)
    BY <2>1, FeedShape DEF Subscribe
  <2>2. CASE LeaveEarly(s)
    <3>1. /\ sockets' = [sockets EXCEPT ![s].open = FALSE] /\ ghosts' = ghosts \cup {s}
      BY <2>2 DEF LeaveEarly
    <3>2. /\ sockets' \in [Sockets -> [at : {"out", "credentials", "connect", "up", "closed"},
                                       client : Clients \cup {Absent}, open : BOOLEAN]]
          /\ sockets'[s].at = sockets[s].at /\ sockets'[s].client = sockets[s].client
          /\ \A q \in Sockets \ {s} : sockets'[q] = sockets[q]
      BY <3>1, FeedShape
    <3> QED
      BY <3>1, <3>2
  <2> QED
    BY <2>1, <2>2
<1>3. Subscribed'
  BY <1>0, <1>2 DEF RealtimeInv, Subscribed
<1>4. OneConnection'
  BY <1>0, <1>2 DEF RealtimeInv, OneConnection, Attached
<1> QED
  BY <1>0, <1>1, <1>2, <1>3, <1>4, FeedShape, FeedKeeps

\* A connection that is lost is noted.
LEMMA ListenerDropsKeeps ==
    ASSUME RealtimeInv, NEW c \in Clients, ListenerDrops(c)
    PROVE  RealtimeInv'
<1>0. /\ clients' = [clients EXCEPT ![c] = "ended"] /\ listener' = Absent /\ dropped' = TRUE
      /\ UNCHANGED <<sockets, topics, subscriptions, met, ghosts>>
      /\ UNCHANGED <<data, wire, metaCache, tasks, got, history>>
  BY DEF ListenerDrops
<1>1. clients' \in [Clients -> {"new", "connecting", "listening", "mute", "ended"}]
  BY <1>0, FeedShape
<1>2. Subscribed' /\ OneConnection'
  BY <1>0 DEF RealtimeInv, Subscribed, OneConnection
<1> QED
  BY <1>0, <1>1, <1>2, FeedShape, FeedKeeps

-----------------------------------------------------------------------------
\* Rows and deliveries take a step, and the feed is as it was.
LEMMA DataKeeps ==
    ASSUME RealtimeInv, UNCHANGED feed, row' \in Row, events' \in [Versions -> Event],
           wire' \in [Versions -> Nat], metaCache' \in Rls \cup {Absent},
           tasks' \in [Tasks -> Task],
           \A t \in Tasks : tasks'[t].at = "idle" <=> tasks'[t].v = 0,
           got' \in [Sockets -> [Versions -> Nat]],
           NotYet', OnePlace', Judging', OwnClaims', ToldWhatHeMaySee'
    PROVE  RealtimeInv'
<1>1. UNCHANGED <<listener, clients, sockets, topics, subscriptions, met, dropped, ghosts>>
  BY DEF feed
<1>2. FeedShapes'
  BY <1>1 DEF RealtimeInv, FeedShapes, FeedTypeOK, Row
<1>3. Subscribed' /\ OneConnection'
  BY <1>1 DEF RealtimeInv, Subscribed, OneConnection, Attached
<1> QED
  BY <1>2, <1>3 DEF RealtimeInv

\* The shapes of rows and deliveries, to cite.
LEMMA DataShape ==
    ASSUME RealtimeInv
    PROVE  /\ row \in Row /\ events \in [Versions -> Event] /\ wire \in [Versions -> Nat]
           /\ metaCache \in Rls \cup {Absent} /\ tasks \in [Tasks -> Task]
           /\ \A t \in Tasks : tasks[t].at = "idle" <=> tasks[t].v = 0
           /\ got \in [Sockets -> [Versions -> Nat]] /\ MaxVersion \in Nat
           /\ \A t \in Tasks : tasks[t].v \in 0..MaxVersion
           /\ \A t \in Tasks : tasks[t].at # "idle" => tasks[t].v \in Versions
<1>1. /\ row \in Row /\ events \in [Versions -> Event] /\ wire \in [Versions -> Nat]
      /\ metaCache \in Rls \cup {Absent} /\ tasks \in [Tasks -> Task]
      /\ \A t \in Tasks : tasks[t].at = "idle" <=> tasks[t].v = 0
      /\ got \in [Sockets -> [Versions -> Nat]] /\ MaxVersion \in Nat
  BY RealtimeAssumption DEF RealtimeInv, FeedShapes, FeedTypeOK
<1>2. \A t \in Tasks : tasks[t].v \in 0..MaxVersion
  BY <1>1 DEF Task
<1> QED
  BY <1>1, <1>2 DEF Versions

\* At most one connection listens, so a change is published at most once.
LEMMA PublishedOnce ==
    ASSUME RealtimeInv
    PROVE  LET n == Cardinality({c \in Clients : clients[c] = "listening"}) IN
           n \in Nat /\ (met \/ dropped \/ n <= 1)
<1> DEFINE L == {c \in Clients : clients[c] = "listening"}
<1>1. IsFiniteSet(Clients)
  BY RealtimeAssumption
<1>2. IsFiniteSet(L) /\ Cardinality(L) \in Nat
  BY <1>1, FS_Subset, FS_CardinalityType
<1>3. ASSUME ~met, ~dropped PROVE Cardinality(L) <= 1
  <2>1. L \subseteq {listener}
    BY <1>3 DEF RealtimeInv, OneConnection, Attached
  <2>2. IsFiniteSet({listener}) /\ Cardinality({listener}) = 1
    BY FS_Singleton
  <2> HIDE DEF L
  <2> QED
    BY <2>1, <2>2, FS_Subset
<1> QED
  BY <1>2, <1>3

\* The next version goes on the wire, and what is not judged yet has moved.
LEMMA ChangeKeeps ==
    ASSUME RealtimeInv, Change
    PROVE  RealtimeInv'
<1>1. PICK deleted \in BOOLEAN, sees \in SUBSET Claims :
          /\ row' = [row EXCEPT !.v = @ + 1, !.there = ~deleted, !.sees = sees]
          /\ events' = [events EXCEPT ![row.v + 1] =
                           [deleted |-> deleted,
                            sees |-> IF row.rls = "off" THEN Claims
                                     ELSE IF deleted THEN row.sees ELSE sees]]
  BY DEF Change
<1>2. PICK n \in Nat :
          /\ wire' = [wire EXCEPT ![row.v + 1] = n] /\ (met \/ dropped \/ n <= 1)
  BY PublishedOnce DEF Change
<1>3. /\ row.v < MaxVersion /\ moved' = moved \cup Unjudged
      /\ UNCHANGED <<metaCache, tasks, got, stale, shared>> /\ UNCHANGED feed
  BY DEF Change
<1>4. PICK w \in Versions : w = row.v + 1 /\ w > row.v
  BY <1>3, DataShape DEF Row, Versions
<1>5. /\ row' \in Row /\ row'.v = w /\ row'.rls = row.rls /\ row'.there = ~deleted
      /\ row'.sees = sees
  <2>1. row \in Row /\ row.v \in 0..MaxVersion /\ row.v + 1 \in 0..MaxVersion
    BY <1>3, DataShape DEF Row
  <2> QED
    BY <1>1, <1>4, <2>1 DEF Row
<1>6. /\ events' \in [Versions -> Event]
      /\ events'[w].sees = IF row.rls = "off" THEN Claims ELSE IF deleted THEN row.sees ELSE sees
      /\ \A v \in Versions \ {w} : events'[v] = events[v]
  <2> DEFINE s == IF row.rls = "off" THEN Claims ELSE IF deleted THEN row.sees ELSE sees
  <2>1. s \in SUBSET Claims
    BY DataShape DEF Row
  <2>2. events' = [events EXCEPT ![w] = [deleted |-> deleted, sees |-> s]]
    BY <1>1, <1>4
  <2> HIDE DEF s
  <2>3. [deleted |-> deleted, sees |-> s] \in Event
    BY <2>1 DEF Event
  <2> USE DEF s
  <2> QED
    BY <2>2, <2>3, DataShape
<1>7. /\ wire' \in [Versions -> Nat] /\ wire'[w] = n
      /\ \A v \in Versions \ {w} : wire'[v] = wire[v]
  BY <1>2, <1>4, DataShape
<1>8. /\ wire[w] = 0 /\ (\A t \in Tasks : tasks[t].v # w) /\ \A s \in Sockets : got[s][w] = 0
  BY <1>4 DEF RealtimeInv, NotYet
<1>9. NotYet'
  <2>1. \A v \in Versions : v > row'.v => v > row.v /\ v # w
    BY <1>4, <1>5, DataShape DEF Row, Versions
  <2> QED
    BY <1>3, <1>7, <2>1 DEF RealtimeInv, NotYet
<1>10. OnePlace'
  <2> SUFFICES ASSUME ~met, ~dropped, NEW v \in Versions PROVE Single(v)'
    BY <1>3 DEF OnePlace, feed
  <2>1. Single(v)
    BY DEF RealtimeInv, OnePlace
  <2>2. CASE v = w
    BY <1>2, <1>3, <1>7, <1>8, <2>2 DEF Single
  <2>3. CASE v # w
    BY <1>3, <1>7, <2>1, <2>3 DEF Single
  <2> QED
    BY <2>2, <2>3
<1>11. Judging'
  <2>1. Unjudged' \subseteq Unjudged \cup {w}
    BY <1>3, <1>7 DEF Unjudged
  <2>2. Unmoved(w)'
    BY <1>5, <1>6 DEF Unmoved
  <2>3. \A v \in Unjudged' \ moved' : Unmoved(v)'
    BY <1>3, <2>1, <2>2
  <2>4. ASSUME NEW t \in Tasks, tasks[t].v \in Versions \ (moved' \cup stale)
        PROVE  /\ tasks[t].allowed \subseteq events'[tasks[t].v].sees \cup {Service}
               /\ tasks[t].at = "probe" => row'.rls = "on"
    <3>1. tasks[t].v \in Versions \ (moved \cup stale) /\ tasks[t].v # w
      BY <1>3, <1>8, <2>4
    <3>2. events'[tasks[t].v] = events[tasks[t].v]
      BY <1>6, <3>1
    <3> QED
      BY <1>5, <3>1, <3>2 DEF RealtimeInv, Judging
  <2> QED
    BY <1>3, <2>3, <2>4 DEF Judging
<1>12. ToldWhatHeMaySee'
  <2> SUFFICES ASSUME NEW s \in Sockets, NEW v \in Versions \ (moved' \cup stale'), got'[s][v] > 0
               PROVE  LET readers == events'[v].sees \cup {Service} IN
                      /\ \E c \in readers : IdentityKey(c) = IdentityKey(ClaimsOf[s])
                      /\ <<s, v>> \in shared \/ ClaimsOf[s] \in readers
    BY <1>3 DEF ToldWhatHeMaySee
  <2>1. got[s][v] > 0 /\ v \notin moved \cup stale
    BY <1>3
  <2>2. v # w
    BY <1>8, <2>1
  <2> QED
    BY <1>6, <2>1, <2>2 DEF RealtimeInv, ToldWhatHeMaySee
<1>13. OwnClaims'
  BY <1>3 DEF RealtimeInv, OwnClaims, Own
<1> QED
  BY <1>3, <1>5, <1>6, <1>7, <1>9, <1>10, <1>11, <1>12, <1>13, DataShape, DataKeeps

\* What the new policies do not judge alike has moved.
LEMMA AlterTableKeeps ==
    ASSUME RealtimeInv, AlterTable
    PROVE  RealtimeInv'
<1>1. PICK rls \in Rls : row' = [row EXCEPT !.rls = rls]
  BY DEF AlterTable
<1>2. /\ moved' = moved \cup Unjudged /\ UNCHANGED feed
      /\ UNCHANGED <<events, wire, metaCache, tasks, got, stale, shared>>
  BY DEF AlterTable
<1>3. row' \in Row /\ row'.v = row.v
  BY <1>1, DataShape DEF Row
<1>4. NotYet'
  BY <1>2, <1>3 DEF RealtimeInv, NotYet
<1>5. OnePlace'
  BY <1>2 DEF RealtimeInv, OnePlace, Single, feed
<1>6. Judging'
  <2>1. Unjudged' = Unjudged
    BY <1>2 DEF Unjudged
  <2>2. \A t \in Tasks : tasks[t].at = "probe" => tasks[t].v \in Unjudged
    BY DEF Unjudged
  <2> QED
    BY <1>2, <2>1, <2>2 DEF RealtimeInv, Judging
<1>7. ToldWhatHeMaySee' /\ OwnClaims'
  BY <1>2 DEF RealtimeInv, ToldWhatHeMaySee, OwnClaims, Own
<1> QED
  BY <1>2, <1>3, <1>4, <1>5, <1>6, <1>7, DataShape, DataKeeps

\* The cache alone changes.
LEMMA MetaExpiresKeeps ==
    ASSUME RealtimeInv, UNCHANGED <<feed, data, wire, tasks, got, history>>,
           metaCache' \in Rls \cup {Absent}
    PROVE  RealtimeInv'
<1>1. UNCHANGED <<row, events, wire, tasks, got, moved, stale, shared, met, dropped>>
  BY DEF data, history, feed
<1>2. NotYet' /\ ToldWhatHeMaySee' /\ OwnClaims'
  BY <1>1 DEF RealtimeInv, NotYet, ToldWhatHeMaySee, OwnClaims, Own
<1>3. OnePlace'
  BY <1>1 DEF RealtimeInv, OnePlace, Single
<1>4. Judging'
  <2>1. Unjudged' = Unjudged /\ \A v : Unmoved(v)' <=> Unmoved(v)
    BY <1>1 DEF Unjudged, Unmoved
  <2> QED
    BY <1>1, <2>1 DEF RealtimeInv, Judging
<1> QED
  BY <1>1, <1>2, <1>3, <1>4, DataShape, DataKeeps

-----------------------------------------------------------------------------
\* A delivery goes on with its version.
LEMMA TaskKeeps ==
    ASSUME RealtimeInv, NEW t \in Tasks, tasks[t].at \in {"authorize", "probe"},
           NEW x \in Task, PutTask(t, x), x.v = tasks[t].v, x.at \in {"probe", "send"},
           x.interested = tasks[t].interested,
           x.left \cup x.allowed \subseteq tasks[t].left \cup tasks[t].allowed,
           UNCHANGED <<feed, data, wire, got, moved, shared>>, metaCache' \in Rls \cup {Absent},
           stale \subseteq stale',
           x.v \notin moved \cup stale' =>
               /\ x.allowed \subseteq events[x.v].sees \cup {Service}
               /\ x.at = "probe" => row.rls = "on"
    PROVE  RealtimeInv'
<1>1. UNCHANGED <<row, events, wire, got, moved, shared, met, dropped>>
  BY DEF data, feed
<1>2. /\ tasks' \in [Tasks -> Task] /\ tasks'[t] = x
      /\ \A u \in Tasks \ {t} : tasks'[u] = tasks[u]
  BY DataShape DEF PutTask
<1>3. \A u \in Tasks : tasks'[u].v = tasks[u].v /\ (tasks'[u].at = "idle" <=> tasks[u].at = "idle")
  BY <1>2
<1>4. NotYet' /\ ToldWhatHeMaySee'
  BY <1>1, <1>3 DEF RealtimeInv, NotYet, ToldWhatHeMaySee
<1>5. OnePlace'
  BY <1>1, <1>3 DEF RealtimeInv, OnePlace, Single
<1>6. Judging'
  <2>1. Unjudged' \subseteq Unjudged
    <3>1. \A u \in Tasks : tasks'[u].at \in {"authorize", "probe"} =>
              tasks[u].at \in {"authorize", "probe"}
      BY <1>2
    <3> QED
      BY <1>1, <1>3, <3>1 DEF Unjudged
  <2>2. \A v \in Unjudged' \ moved' : Unmoved(v)'
    BY <1>1, <2>1 DEF RealtimeInv, Judging, Unmoved
  <2>3. ASSUME NEW u \in Tasks, tasks'[u].v \in Versions \ (moved' \cup stale')
        PROVE  /\ tasks'[u].allowed \subseteq events'[tasks'[u].v].sees \cup {Service}
               /\ tasks'[u].at = "probe" => row'.rls = "on"
    <3>1. CASE u = t
      BY <1>1, <1>2, <2>3, <3>1
    <3>2. CASE u # t
      BY <1>1, <1>2, <2>3, <3>2 DEF RealtimeInv, Judging
    <3> QED
      BY <3>1, <3>2
  <2> QED
    BY <2>2, <2>3 DEF Judging
<1>7. OwnClaims'
  <2>1. Own(tasks[t])
    BY DEF RealtimeInv, OwnClaims
  <2>2. \A o \in x.interested, c \in x.left \cup x.allowed :
            IdentityKey(c) = IdentityKey(ClaimsOf[o]) =>
                <<o, x.v>> \in shared \/ c = ClaimsOf[o]
    BY <2>1 DEF Own
  <2> QED
    BY <1>1, <1>2, <2>2 DEF RealtimeInv, OwnClaims, Own
<1> QED
  BY <1>1, <1>2, <1>3, <1>4, <1>5, <1>6, <1>7, DataShape, DataKeeps

\* What is judged has not changed since, unless it moved.
LEMMA AtJudgement ==
    ASSUME RealtimeInv, NEW t \in Tasks, tasks[t].at \in {"authorize", "probe"}
    PROVE  /\ tasks[t] \in Task /\ tasks[t].v \in Versions
           /\ tasks[t].v \notin moved => Unmoved(tasks[t].v)
           /\ tasks[t].v \notin moved \cup stale =>
                 /\ tasks[t].allowed \subseteq events[tasks[t].v].sees \cup {Service}
                 /\ tasks[t].at = "probe" => row.rls = "on"
<1>1. tasks[t] \in Task /\ tasks[t].v \in Versions
  BY DataShape
<1>2. tasks[t].v \in Unjudged
  BY DEF Unjudged
<1> QED
  BY <1>1, <1>2 DEF RealtimeInv, Judging

\* Stale metadata is noted; otherwise whom the table lets see is a reader.
LEMMA AuthorizeKeeps ==
    ASSUME RealtimeInv, NEW t \in Tasks, AuthorizeEvent(t) \/ AuthorizeFails(t)
    PROVE  RealtimeInv'
<1>1. tasks[t].at = "authorize" /\ UNCHANGED <<feed, data, wire, got, moved, shared>>
  BY DEF AuthorizeEvent, AuthorizeFails, history
<1>2. tasks[t] \in Task /\ tasks[t].v \in Versions /\ tasks[t].left \subseteq Claims
      /\ tasks[t].allowed \subseteq Identities /\ row.rls \in Rls
  BY <1>1, AtJudgement, DataShape DEF Task, Row
<1>3. CASE AuthorizeFails(t)
  <2> DEFINE z == [tasks[t] EXCEPT !.at = "send", !.left = {}]
  <2>1. /\ z \in Task /\ z.v = tasks[t].v /\ z.at = "send" /\ z.allowed = tasks[t].allowed
        /\ z.interested = tasks[t].interested /\ z.left = {}
    BY <1>2 DEF Task
  <2>2. PutTask(t, z) /\ UNCHANGED <<metaCache, stale>>
    BY <1>3 DEF AuthorizeFails, history
  <2>3. metaCache' \in Rls \cup {Absent} /\ stale \subseteq stale'
    BY <2>2, DataShape
  <2>4. z.v \notin moved \cup stale' => z.allowed \subseteq events[z.v].sees \cup {Service}
    BY <1>1, <2>1, <2>2, AtJudgement
  <2> HIDE DEF z
  <2> QED
    BY <1>1, <2>1, <2>2, <2>3, <2>4, TaskKeeps
<1>4. CASE AuthorizeEvent(t)
  <2>1. PICK rls \in Rls :
            /\ PutTask(t, Judged(t, rls)) /\ metaCache' = rls
            /\ stale' = IF rls # row.rls THEN stale \cup {tasks[t].v} ELSE stale
    <3>1. (IF metaCache # Absent THEN metaCache ELSE row.rls) \in Rls
      BY <1>2, DataShape
    <3> QED
      BY <1>4, <3>1 DEF AuthorizeEvent
  <2>2. PICK x \in Task : /\ x = Judged(t, rls) /\ x.v = tasks[t].v
                          /\ x.at = IF rls = "on" THEN "probe" ELSE "send"
                          /\ x.allowed = IF rls = "off" THEN tasks[t].allowed \cup tasks[t].left
                                         ELSE tasks[t].allowed
                          /\ x.interested = tasks[t].interested
                          /\ x.left \subseteq tasks[t].left
    <3>1. CASE rls = "off"
      <4> DEFINE z == [tasks[t] EXCEPT !.at = "send",
                          !.allowed = tasks[t].allowed \cup tasks[t].left, !.left = {}]
      <4>1. tasks[t].allowed \cup tasks[t].left \subseteq Identities
        BY <1>2 DEF Identities
      <4>2. z \in Task
        BY <1>2, <4>1 DEF Task
      <4>3. /\ z.v = tasks[t].v /\ z.at = "send"
            /\ z.allowed = tasks[t].allowed \cup tasks[t].left
            /\ z.interested = tasks[t].interested /\ z.left = {}
        BY <1>2 DEF Task
      <4>4. z = Judged(t, rls)
        BY <3>1 DEF Judged
      <4> HIDE DEF z
      <4> QED
        BY <3>1, <4>2, <4>3, <4>4
    <3>2. CASE rls = "unforced"
      <4> DEFINE z == [tasks[t] EXCEPT !.at = "send", !.left = {}]
      <4>1. /\ z \in Task /\ z.v = tasks[t].v /\ z.at = "send" /\ z.allowed = tasks[t].allowed
            /\ z.interested = tasks[t].interested /\ z.left = {}
        BY <1>2 DEF Task
      <4>2. z = Judged(t, rls)
        BY <3>2 DEF Judged
      <4> HIDE DEF z
      <4> QED
        BY <3>2, <4>1, <4>2
    <3>3. CASE rls = "on"
      <4> DEFINE z == [tasks[t] EXCEPT !.at = "probe"]
      <4>1. /\ z \in Task /\ z.v = tasks[t].v /\ z.at = "probe" /\ z.allowed = tasks[t].allowed
            /\ z.interested = tasks[t].interested /\ z.left = tasks[t].left
        BY <1>2 DEF Task
      <4>2. z = Judged(t, rls)
        BY <3>3 DEF Judged
      <4> HIDE DEF z
      <4> QED
        BY <3>3, <4>1, <4>2
    <3> QED
      BY <2>1, <3>1, <3>2, <3>3 DEF Rls
  <2>3. metaCache' \in Rls \cup {Absent} /\ stale \subseteq stale'
    BY <2>1
  <2>4. ASSUME x.v \notin moved \cup stale'
        PROVE  /\ x.allowed \subseteq events[x.v].sees \cup {Service}
               /\ x.at = "probe" => row.rls = "on"
    <3>1. rls = row.rls /\ x.v \notin stale
      BY <2>1, <2>2, <2>4
    <3>2. Unmoved(x.v) /\ tasks[t].allowed \subseteq events[x.v].sees \cup {Service}
      BY <1>1, <2>2, <2>4, <3>1, AtJudgement
    <3> QED
      BY <1>2, <2>2, <3>1, <3>2 DEF Unmoved
  <2> QED
    BY <1>1, <2>1, <2>2, <2>3, <2>4, TaskKeeps
<1> QED
  BY <1>3, <1>4

\* The probe sees what the version was, unless it moved.
LEMMA ProbeKeeps ==
    ASSUME RealtimeInv, NEW t \in Tasks, Probe(t) \/ ProbeFails(t)
    PROVE  RealtimeInv'
<1>1. /\ tasks[t].at = "probe"
      /\ UNCHANGED <<feed, data, wire, got, moved, metaCache, stale, shared>>
  BY DEF Probe, ProbeFails, history
<1>2. tasks[t] \in Task /\ tasks[t].v \in Versions /\ tasks[t].left \subseteq Claims
      /\ tasks[t].allowed \subseteq Identities
  BY <1>1, AtJudgement DEF Task
<1>3. PICK u \in tasks[t].left, visible \in BOOLEAN :
          /\ PutTask(t, Probed(t, u, visible))
          /\ visible => row.there /\ (row.rls = "on" => u \in row.sees)
  <2>1. CASE ProbeFails(t)
    BY <2>1 DEF ProbeFails
  <2>2. CASE Probe(t)
    <3>1. row.there \in BOOLEAN
      BY DataShape DEF Row
    <3>2. PICK u \in tasks[t].left :
              PutTask(t, Probed(t, u, row.there /\ (row.rls = "on" => u \in row.sees)))
      BY <2>2 DEF Probe
    <3>3. (row.there /\ (row.rls = "on" => u \in row.sees)) \in BOOLEAN
      OBVIOUS
    <3> QED
      BY <3>2, <3>3
  <2> QED
    BY <2>1, <2>2
<1>4. PICK at \in {"send", "probe"}, allowed \in SUBSET Identities :
          /\ at = IF tasks[t].left = {u} THEN "send" ELSE "probe"
          /\ allowed = IF visible THEN tasks[t].allowed \cup {u} ELSE tasks[t].allowed
  <2>1. tasks[t].allowed \cup {u} \in SUBSET Identities
    BY <1>2, <1>3 DEF Identities
  <2> QED
    BY <1>2, <2>1
<1>5. PICK x \in Task : /\ PutTask(t, x) /\ x.v = tasks[t].v /\ x.at = at
                        /\ x.allowed = allowed
                        /\ x.interested = tasks[t].interested /\ x.left = tasks[t].left \ {u}
  <2> DEFINE z == [tasks[t] EXCEPT !.left = @ \ {u}, !.at = at, !.allowed = allowed]
  <2>1. z \in Task
    BY <1>2 DEF Task
  <2>2. /\ z.v = tasks[t].v /\ z.at = at /\ z.allowed = allowed
        /\ z.interested = tasks[t].interested /\ z.left = tasks[t].left \ {u}
    BY <1>2 DEF Task
  <2>3. z = Probed(t, u, visible)
    BY <1>4 DEF Probed
  <2> HIDE DEF z
  <2> QED
    BY <1>3, <2>1, <2>2, <2>3
<1>6. ASSUME x.v \notin moved \cup stale
      PROVE  /\ x.allowed \subseteq events[x.v].sees \cup {Service} /\ row.rls = "on"
  <2>1. /\ Unmoved(x.v) /\ row.rls = "on"
        /\ tasks[t].allowed \subseteq events[x.v].sees \cup {Service}
    BY <1>1, <1>5, <1>6, AtJudgement
  <2>2. visible => u \in events[x.v].sees
    BY <1>3, <2>1 DEF Unmoved
  <2> QED
    BY <1>4, <1>5, <2>1, <2>2
<1>7. metaCache' \in Rls \cup {Absent}
  BY <1>1, DataShape
<1>8. x.left \cup x.allowed \subseteq tasks[t].left \cup tasks[t].allowed
  BY <1>3, <1>4, <1>5
<1> QED
  BY <1>1, <1>5, <1>6, <1>7, <1>8, TaskKeeps

\* A message is taken off the wire, by a delivery or for nothing.
LEMMA ReceiveKeeps ==
    ASSUME RealtimeInv, NEW t \in Tasks, Receive(t)
    PROVE  RealtimeInv'
<1>0. /\ tasks[t].at = "idle" /\ UNCHANGED <<feed, data, metaCache, got, moved, stale>>
      /\ UNCHANGED <<row, events, met, dropped>> /\ shared \subseteq shared'
  BY DEF Receive, data, feed
<1>1. NoTask \in Task /\ NoTask.at = "idle" /\ NoTask.v = 0 /\ NoTask.allowed = {}
  <2>1. 0 \in 0..MaxVersion
    BY DataShape
  <2> QED
    BY <2>1 DEF NoTask, Task
<1>2. PICK v \in Versions, x \in Task :
          /\ wire[v] > 0 /\ wire' = [wire EXCEPT ![v] = @ - 1] /\ PutTask(t, x)
          /\ \/ x.v = 0 /\ x.at = "idle"
             \/ x.v = v /\ x.at \in {"send", "authorize"}
          /\ x.allowed \subseteq {Service}
          /\ \A s \in x.interested, c \in x.left \cup x.allowed :
                IdentityKey(c) = IdentityKey(ClaimsOf[s]) =>
                    <<s, x.v>> \in shared' \/ c = ClaimsOf[s]
  <2>1. PICK v \in Versions, judged \in StandIns(subscriptions \cap topics) :
          LET interested == subscriptions \cap topics
              task == [NoTask EXCEPT
                          !.v = v, !.interested = interested, !.left = judged,
                          !.allowed = {ClaimsOf[s] : s \in interested} \cap {Service},
                          !.at = IF judged = {} THEN "send" ELSE "authorize"]
          IN  /\ wire[v] > 0
              /\ wire' = [wire EXCEPT ![v] = @ - 1]
              /\ PutTask(t, IF interested = {} THEN NoTask ELSE task)
              /\ shared' = shared \cup {<<s, v>> : s \in
                               {s \in interested : ClaimsOf[s] \notin judged \cup {Service}}}
    BY DEF Receive
  <2> DEFINE interested == subscriptions \cap topics
             allowed == {ClaimsOf[s] : s \in interested} \cap {Service}
             at == IF judged = {} THEN "send" ELSE "authorize"
             task == [NoTask EXCEPT !.v = v, !.interested = interested, !.left = judged,
                                    !.allowed = allowed, !.at = at]
  <2>2. /\ interested \subseteq Sockets /\ judged \in StandIns(interested)
        /\ allowed \subseteq {Service} /\ at \in {"send", "authorize"}
        /\ wire[v] > 0 /\ wire' = [wire EXCEPT ![v] = @ - 1]
        /\ PutTask(t, IF interested = {} THEN NoTask ELSE task)
    BY <2>1, FeedShape
  <2>3. \A s \in interested :
            ClaimsOf[s] \in judged \/ ClaimsOf[s] = Service \/ <<s, v>> \in shared'
    BY <2>1
  <2> HIDE DEF interested, allowed, at
  <2>4. judged \subseteq Claims /\ \A c, d \in judged : KeyOf[c] = KeyOf[d] => c = d
    BY <2>2, RealtimeAssumption DEF StandIns
  <2>5. task \in Task /\ task.v = v /\ task.at = at /\ task.allowed = allowed
        /\ task.interested = interested /\ task.left = judged
    <3>1. v \in 0..MaxVersion /\ allowed \subseteq Identities
      BY <2>2, DataShape DEF Versions, Identities
    <3> QED
      BY <2>2, <2>4, <3>1 DEF NoTask, Task
  <2> HIDE DEF task
  <2>6. ASSUME NEW s \in interested, NEW c \in judged \cup allowed,
               IdentityKey(c) = IdentityKey(ClaimsOf[s])
        PROVE  <<s, v>> \in shared' \/ c = ClaimsOf[s]
    <3>1. /\ ClaimsOf[s] \in Claims \cup {Service} /\ c \in Claims \cup {Service}
          /\ \A d \in Claims : IdentityKey(d) = KeyOf[d] /\ KeyOf[d] # Service
          /\ IdentityKey(Service) = Service /\ Service \notin Claims
      BY <2>2, <2>4, RealtimeAssumption DEF IdentityKey
    <3> QED
      BY <2>2, <2>3, <2>4, <2>6, <3>1
  <2>7. NoTask.interested = {}
    BY DEF NoTask
  <2>8. CASE interested = {}
    BY <1>1, <2>2, <2>7, <2>8
  <2>9. CASE interested # {}
    BY <2>2, <2>5, <2>6, <2>9
  <2> QED
    BY <2>8, <2>9
<1>3. /\ tasks' \in [Tasks -> Task] /\ tasks'[t] = x /\ tasks[t].v = 0
      /\ \A u \in Tasks \ {t} : tasks'[u] = tasks[u]
  BY <1>0, <1>2, DataShape DEF PutTask
<1>4. /\ wire' \in [Versions -> Nat] /\ wire'[v] = wire[v] - 1
      /\ \A o \in Versions \ {v} : wire'[o] = wire[o]
  BY <1>2, DataShape
<1>5. v # 0 /\ v <= row.v /\ row.v \in Nat
  BY <1>2, DataShape DEF Versions, Row, RealtimeInv, NotYet
<1>6. NotYet'
  BY <1>0, <1>2, <1>3, <1>4, <1>5 DEF RealtimeInv, NotYet, Versions
<1>7. OnePlace'
  <2> SUFFICES ASSUME ~met, ~dropped, NEW o \in Versions PROVE Single(o)'
    BY <1>0 DEF OnePlace
  <2>1. Single(o) /\ o # 0
    BY DEF RealtimeInv, OnePlace, Versions
  <2>2. CASE o # v
    <3>1. \A u \in Tasks : tasks'[u].v = o <=> tasks[u].v = o
      BY <1>2, <1>3, <2>1, <2>2
    <3> QED
      BY <1>0, <1>4, <2>1, <2>2, <3>1 DEF Single
  <2>3. CASE o = v
    <3>1. /\ wire[v] = 1 /\ wire'[v] = 0 /\ (\A u \in Tasks : tasks[u].v # v)
          /\ \A s \in Sockets : got[s][v] = 0
      BY <1>2, <1>4, <2>1, <2>3, DataShape DEF Single
    <3>2. \A u \in Tasks : tasks'[u].v = v => u = t
      BY <1>3, <3>1
    <3> QED
      BY <1>0, <2>3, <3>1, <3>2 DEF Single
  <2> QED
    BY <2>2, <2>3
<1>8. Judging'
  <2>1. Unjudged' \subseteq Unjudged
    <3>1. v \in Unjudged
      BY <1>2 DEF Unjudged
    <3>2. \A o \in Versions : wire'[o] > 0 => wire[o] > 0
      BY <1>2, <1>4
    <3>3. \A u \in Tasks : tasks'[u].at \in {"authorize", "probe"} =>
              \/ tasks'[u].v = v
              \/ tasks'[u].v = tasks[u].v /\ tasks[u].at \in {"authorize", "probe"}
      BY <1>2, <1>3
    <3> QED
      BY <3>1, <3>2, <3>3 DEF Unjudged
  <2>2. \A o \in Unjudged' \ moved' : Unmoved(o)'
    BY <1>0, <2>1 DEF RealtimeInv, Judging, Unmoved
  <2>3. ASSUME NEW u \in Tasks, tasks'[u].v \in Versions \ (moved' \cup stale')
        PROVE  /\ tasks'[u].allowed \subseteq events'[tasks'[u].v].sees \cup {Service}
               /\ tasks'[u].at = "probe" => row'.rls = "on"
    <3>1. CASE u = t
      BY <1>2, <1>3, <3>1
    <3>2. CASE u # t
      BY <1>0, <1>3, <2>3, <3>2 DEF RealtimeInv, Judging
    <3> QED
      BY <3>1, <3>2
  <2> QED
    BY <2>2, <2>3 DEF Judging
<1>9. ToldWhatHeMaySee' /\ OwnClaims'
  BY <1>0, <1>2, <1>3 DEF RealtimeInv, ToldWhatHeMaySee, OwnClaims, Own
<1>10. \A u \in Tasks : tasks'[u].at = "idle" <=> tasks'[u].v = 0
  BY <1>2, <1>3, <1>5, DataShape
<1> QED
  BY <1>0, <1>3, <1>4, <1>6, <1>7, <1>8, <1>9, <1>10, DataShape, DataKeeps

\* Frames go to whom the delivery allows.
LEMMA SendKeeps ==
    ASSUME RealtimeInv, NEW t \in Tasks, Send(t)
    PROVE  RealtimeInv'
<1>0. /\ tasks[t].at = "send" /\ UNCHANGED <<feed, data, wire, metaCache, history>>
      /\ UNCHANGED <<row, events, moved, stale, shared, met, dropped>>
  BY DEF Send, data, history, feed
<1>1. NoTask \in Task /\ NoTask.at = "idle" /\ NoTask.v = 0 /\ NoTask.interested = {}
  <2>1. 0 \in 0..MaxVersion
    BY DataShape
  <2> QED
    BY <2>1 DEF NoTask, Task
<1>2. /\ tasks' \in [Tasks -> Task] /\ tasks'[t] = NoTask
      /\ \A u \in Tasks \ {t} : tasks'[u] = tasks[u]
  BY <1>1, DataShape DEF Send, PutTask
<1>3. PICK v \in Versions : v = tasks[t].v
  BY <1>0, DataShape
<1>4. v <= row.v /\ row.v \in Nat /\ v # 0 /\ v \in Versions
  <2>1. v \in Versions /\ v # 0 /\ row.v \in Nat /\ v \in Nat
    BY <1>0, <1>3, DataShape DEF Row, Versions
  <2>2. ~(v > row.v)
    BY <1>3, <2>1 DEF RealtimeInv, NotYet
  <2> QED
    BY <2>1, <2>2
<1>5. ASSUME NEW s \in Sockets
      PROVE  /\ got'[s] \in [Versions -> Nat] /\ \A o \in Versions \ {v} : got'[s][o] = got[s][o]
             /\ \/ got'[s][v] = got[s][v]
                \/ /\ got'[s][v] = got[s][v] + 1 /\ s \in tasks[t].interested
                   /\ \E c \in tasks[t].allowed : IdentityKey(c) = IdentityKey(ClaimsOf[s])
  <2>1. \/ got'[s] = got[s]
        \/ /\ got'[s] = [got[s] EXCEPT ![v] = @ + 1] /\ s \in tasks[t].interested
           /\ \E c \in tasks[t].allowed : IdentityKey(c) = IdentityKey(ClaimsOf[s])
    BY <1>3 DEF Send
  <2>2. got[s] \in [Versions -> Nat]
    BY DataShape
  <2> QED
    BY <2>1, <2>2
<1>6. got' \in [Sockets -> [Versions -> Nat]]
  <2>1. got' = [s \in Sockets |-> got'[s]]
    BY DEF Send
  <2> QED
    BY <1>5, <2>1
<1>7. NotYet'
  BY <1>0, <1>1, <1>2, <1>4, <1>5 DEF RealtimeInv, NotYet, Versions
<1>8. OnePlace'
  <2> SUFFICES ASSUME ~met, ~dropped, NEW o \in Versions PROVE Single(o)'
    BY <1>0 DEF OnePlace
  <2>1. Single(o) /\ o # 0 /\ wire' = wire
    BY <1>0 DEF RealtimeInv, OnePlace, Versions
  <2>2. \A u \in Tasks : tasks'[u].v = o => u # t /\ tasks[u].v = o
    BY <1>1, <1>2, <2>1
  <2>3. CASE o # v
    BY <1>5, <2>1, <2>2, <2>3 DEF Single
  <2>4. CASE o = v
    <3>1. /\ \A u \in Tasks : tasks'[u].v # v
          /\ \A s \in Sockets : got[s][v] = 0
          /\ wire[v] # 1
      BY <1>3, <2>1, <2>2, <2>4 DEF Single
    <3>2. \A s \in Sockets : got'[s][v] <= 1
      BY <1>5, <3>1
    <3> QED
      BY <2>1, <2>4, <3>1, <3>2 DEF Single
  <2> QED
    BY <2>3, <2>4
<1>9. Judging'
  <2>1. Unjudged' \subseteq Unjudged
    BY <1>0, <1>1, <1>2 DEF Unjudged
  <2>2. \A o \in Unjudged' \ moved' : Unmoved(o)'
    BY <1>0, <2>1 DEF RealtimeInv, Judging, Unmoved
  <2>3. ASSUME NEW u \in Tasks, tasks'[u].v \in Versions \ (moved' \cup stale')
        PROVE  /\ tasks'[u].allowed \subseteq events'[tasks'[u].v].sees \cup {Service}
               /\ tasks'[u].at = "probe" => row'.rls = "on"
    <3>1. u # t
      BY <1>1, <1>2, <2>3 DEF Versions
    <3> QED
      BY <1>0, <1>2, <2>3, <3>1 DEF RealtimeInv, Judging
  <2> QED
    BY <2>2, <2>3 DEF Judging
<1>10. ToldWhatHeMaySee'
  <2> SUFFICES ASSUME NEW s \in Sockets, NEW o \in Versions \ (moved \cup stale), got'[s][o] > 0
               PROVE  LET readers == events[o].sees \cup {Service} IN
                      /\ \E c \in readers : IdentityKey(c) = IdentityKey(ClaimsOf[s])
                      /\ <<s, o>> \in shared \/ ClaimsOf[s] \in readers
    BY <1>0 DEF ToldWhatHeMaySee
  <2>1. CASE got[s][o] > 0
    BY <2>1 DEF RealtimeInv, ToldWhatHeMaySee
  <2>2. CASE ~(got[s][o] > 0)
    <3>1. o = v /\ s \in tasks[t].interested
      BY <1>5, <2>2
    <3>2. PICK c \in tasks[t].allowed : IdentityKey(c) = IdentityKey(ClaimsOf[s])
      BY <1>5, <2>2
    <3>3. tasks[t].allowed \subseteq events[v].sees \cup {Service}
      BY <1>3, <3>1 DEF RealtimeInv, Judging
    <3>4. <<s, v>> \in shared \/ c = ClaimsOf[s]
      BY <1>3, <3>1, <3>2 DEF RealtimeInv, OwnClaims, Own
    <3> QED
      BY <3>1, <3>2, <3>3, <3>4
  <2> QED
    BY <2>1, <2>2
<1>11. \A u \in Tasks : tasks'[u].at = "idle" <=> tasks'[u].v = 0
  BY <1>1, <1>2, DataShape
<1>12. OwnClaims'
  BY <1>0, <1>1, <1>2 DEF RealtimeInv, OwnClaims, Own
<1> QED
  BY <1>0, <1>2, <1>6, <1>7, <1>8, <1>9, <1>10, <1>11, <1>12, DataShape, DataKeeps

-----------------------------------------------------------------------------
\* Nobody is there, and nothing has changed yet.
LEMMA RealtimeInvInit == FeedInit => RealtimeInv
<1> SUFFICES ASSUME FeedInit PROVE RealtimeInv
  OBVIOUS
<1>1. 0 \in 0..MaxVersion /\ MaxVersion \in Nat
  BY RealtimeAssumption
<1>2. /\ listener = Absent /\ clients = [c \in Clients |-> "new"]
      /\ sockets = [s \in Sockets |-> [at |-> "out", client |-> Absent, open |-> FALSE]]
      /\ topics = {} /\ subscriptions = {} /\ metaCache = Absent
      /\ met = FALSE /\ dropped = FALSE /\ ghosts = {}
  BY DEF FeedInit
<1>3. /\ row = [v |-> 0, there |-> FALSE, sees |-> {}, rls |-> "off"]
      /\ wire = [v \in Versions |-> 0] /\ tasks = [t \in Tasks |-> NoTask]
      /\ got = [s \in Sockets |-> [v \in Versions |-> 0]]
      /\ events = [v \in Versions |-> [deleted |-> FALSE, sees |-> {}]]
  BY DEF FeedInit
<1>4. NoTask \in Task /\ NoTask.at = "idle" /\ NoTask.v = 0 /\ NoTask.interested = {}
  BY <1>1 DEF NoTask, Task
<1>5. Versions \subseteq Nat /\ 0 \notin Versions
  BY <1>1 DEF Versions
<1>6. FeedShapes
  <2>1. FeedTypeOK
    BY <1>1, <1>2, <1>3, <1>4 DEF FeedTypeOK, Rls
  <2>2. row \in Row /\ events \in [Versions -> Event] /\ wire \in [Versions -> Nat]
    BY <1>1, <1>3 DEF Row, Event, Rls
  <2>3. got \in [Sockets -> [Versions -> Nat]]
    BY <1>3
  <2> QED
    BY <1>2, <1>3, <1>4, <2>1, <2>2, <2>3 DEF FeedShapes
<1>7. NotYet
  BY <1>3, <1>4, <1>5 DEF NotYet
<1>8. Subscribed
  BY <1>2 DEF Subscribed
<1>9. OneConnection
  BY <1>2 DEF OneConnection, Attached
<1>10. OnePlace
  BY <1>3, <1>4, <1>5 DEF OnePlace, Single
<1>11. Judging
  <2>1. Unjudged = {}
    BY <1>3, <1>4 DEF Unjudged
  <2> QED
    BY <1>3, <1>4, <1>5, <2>1 DEF Judging
<1>12. ToldWhatHeMaySee /\ OwnClaims
  BY <1>3, <1>4 DEF ToldWhatHeMaySee, OwnClaims, Own
<1> QED
  BY <1>6, <1>7, <1>8, <1>9, <1>10, <1>11, <1>12 DEF RealtimeInv

\* Every step keeps the invariant.
LEMMA RealtimeInvStep == RealtimeInv /\ [FeedNext]_feedVars => RealtimeInv'
<1> SUFFICES ASSUME RealtimeInv, [FeedNext]_feedVars PROVE RealtimeInv'
  OBVIOUS
<1>1. CASE UNCHANGED feedVars
  <2>1. UNCHANGED <<feed, data, wire, tasks, got, history>> /\ UNCHANGED metaCache
    BY <1>1 DEF feedVars
  <2> QED
    BY <2>1, DataShape, MetaExpiresKeeps
<1>2. ASSUME NEW s \in Sockets,
             \/ Connect(s) \/ OpenListener(s) \/ Listening(s) \/ AttachFails(s)
             \/ Leave(s) \/ LeaveEarly(s) \/ Subscribe(s)
      PROVE  RealtimeInv'
  BY <1>2, ConnectKeeps, OpenListenerKeeps, ListeningKeeps, AttachFailsKeeps, LeaveKeeps,
     AsideKeeps
<1>3. ASSUME NEW c \in Clients, ListenerDrops(c) PROVE RealtimeInv'
  BY <1>3, ListenerDropsKeeps
<1>4. CASE Change
  BY <1>4, ChangeKeeps
<1>5. CASE AlterTable
  BY <1>5, AlterTableKeeps
<1>6. CASE MetaExpires
  BY <1>6, MetaExpiresKeeps DEF MetaExpires
<1>7. ASSUME NEW t \in Tasks,
             \/ Receive(t) \/ AuthorizeEvent(t) \/ AuthorizeFails(t)
             \/ Probe(t) \/ ProbeFails(t) \/ Send(t)
      PROVE  RealtimeInv'
  BY <1>7, ReceiveKeeps, AuthorizeKeeps, ProbeKeeps, SendKeeps
<1> QED
  BY <1>1, <1>2, <1>3, <1>4, <1>5, <1>6, <1>7 DEF FeedNext

\* So it holds of every behaviour.
LEMMA RealtimeInvariant == FeedSpec => []RealtimeInv
<1> QED
  BY RealtimeInvInit, RealtimeInvStep, PTL DEF FeedSpec

-----------------------------------------------------------------------------
(* Whoever connects, leaves or drops, and whatever is delivered meanwhile,  *)
(* connections, sockets, messages and deliveries keep their shape.          *)
THEOREM FeedTypeCorrect == FeedSpec => []FeedTypeOK
<1>1. RealtimeInv => FeedTypeOK
  BY DEF RealtimeInv, FeedShapes
<1> QED
  BY <1>1, RealtimeInvariant, PTL

(* A socket is told of a change once (realtime.ts:26), for any number of    *)
(* sockets, deliveries and changes: while nobody met another in             *)
(* ensureListener (lines 37-41) and no connection was lost, one connection  *)
(* is there to publish, and a version is on the wire, with one delivery or  *)
(* with its sockets.                                                        *)
THEOREM ToldOnce == FeedSpec => []OncePerChange
<1>1. RealtimeInv => OncePerChange
  BY DEF RealtimeInv, OnePlace, Single, OncePerChange
<1> QED
  BY <1>1, RealtimeInvariant, PTL

(* Nobody is told of a version he could not read (realtime-authz.ts:26-30), *)
(* at whatever point of the delivery something fails: what a delivery       *)
(* allows are claims that could read its version, until the row or its      *)
(* table moves before the probe, or the cached metadata was out of date;    *)
(* and while a socket is not among those another's claims stood for, the    *)
(* claims of its key in the delivery are its own.                           *)
THEOREM ToldByRight == FeedSpec => []ToldWhatHeMaySee
<1>1. RealtimeInv => ToldWhatHeMaySee
  BY DEF RealtimeInv
<1> QED
  BY <1>1, RealtimeInvariant, PTL

(* The LISTEN connection follows the subscribers (stopListenerIfIdle,       *)
(* realtime.ts:213): one that is up has it, and the last peer to leave      *)
(* leaves none, but for the races and losses the history names.             *)
THEOREM ListenerFollows == FeedSpec => []ListenerFollowsSubscribers
<1>1. ASSUME RealtimeInv PROVE ListenerFollowsSubscribers
  <2> SUFFICES ASSUME ~met, ~dropped
               PROVE  /\ \A s \in Sockets : sockets[s].at = "up" => Attached # {}
                      /\ (\A s \in Sockets : ~sockets[s].open) /\ ghosts = {} => Attached = {}
    BY DEF ListenerFollowsSubscribers
  <2>1. ASSUME NEW s \in Sockets, sockets[s].at = "up" PROVE Attached # {}
    BY <2>1, <1>1 DEF RealtimeInv, OneConnection
  <2>2. ASSUME \A s \in Sockets : ~sockets[s].open, ghosts = {} PROVE Attached = {}
    <3>1. subscriptions = {}
      BY <1>1, <2>2, FeedShape DEF RealtimeInv, Subscribed
    <3>2. listener = Absent /\ Attached \subseteq {Absent}
      BY <1>1, <3>1 DEF RealtimeInv, OneConnection
    <3> QED
      BY <3>2, RealtimeAssumption DEF Attached
  <2> QED
    BY <2>1, <2>2
<1> QED
  BY <1>1, RealtimeInvariant, PTL
=============================================================================
