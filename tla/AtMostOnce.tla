----------------------------- MODULE AtMostOnce -----------------------------
(***************************************************************************)
(* What the memory of nonces promises, without one: a request is carried   *)
(* out at most once, until everything carried out so far is forgotten at   *)
(* once (a restart of the agent, a clock that is set back), and is called  *)
(* a replay only if it was carried out at some time.                       *)
(***************************************************************************)
EXTENDS Naturals

CONSTANT Ids        \* requests

VARIABLES
    count,          \* how often each was carried out since the last Forget
    ever,           \* carried out at all
    refused         \* called a replay

Init == count = [i \in Ids |-> 0] /\ ever = {} /\ refused = {}

CarryOut(i) ==
    /\ count[i] = 0
    /\ count' = [count EXCEPT ![i] = 1]
    /\ ever' = ever \cup {i}
    /\ UNCHANGED refused

Refuse(i) == i \in ever /\ refused' = refused \cup {i} /\ UNCHANGED <<count, ever>>

Forget == count' = [i \in Ids |-> 0] /\ UNCHANGED <<ever, refused>>

Next == Forget \/ \E i \in Ids : CarryOut(i) \/ Refuse(i)

Spec == Init /\ [][Next]_<<count, ever, refused>>
=============================================================================
