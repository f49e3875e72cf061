----------------------------- MODULE MCStorage -----------------------------
(***************************************************************************)
(* TLC instance of Storage.  The rate limit, the cache of quotas and the   *)
(* store are looked at apart: past the rate limit its window is over, and  *)
(* nothing is stored while quotas change or are cached.  Bounds: what was  *)
(* written and measured, by MaxWritten and MaxUsage, and one thing that    *)
(* went wrong at a time.                                                   *)
(***************************************************************************)
EXTENDS Storage, TLC

MCQuotaRows == {[bytes |-> 2, file |-> 1], [bytes |-> 3, file |-> 2]}

MaxWritten == 2
MaxUsage == 2

Stored == Touched # {} \/ rows # [p \in Paths |-> 0] \/ files # [p \in Paths |-> 0]
             \/ usage # 0 \/ adrift # {} \/ \E r \in Requests : At(r, "walk")

OnePart ==
    /\ written <= MaxWritten /\ usage <= MaxUsage
    /\ \A r \in Requests : requests[r].since <= MaxWritten
    /\ Cardinality(adrift) + (IF partial \/ \E r \in Requests : requests[r].part THEN 1 ELSE 0) <= 1
    /\ counter.n > 0 => \A r \in Requests : requests[r].at \in {"idle", "expire", "bucket"}
    /\ stuck => ~Stored
    /\ Stored => cache = None /\ ~raced /\ \A r \in Requests : ~At(r, "invalidate")

Symmetric == Permutations(Requests) \cup Permutations(Paths)
=============================================================================
