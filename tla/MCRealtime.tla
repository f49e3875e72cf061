----------------------------- MODULE MCRealtime -----------------------------
(***************************************************************************)
(* TLC instance of Realtime: a socket with a service_role key and two with *)
(* different claims of one sub.  Either the table has no row-level         *)
(* security and two sockets come and go, or policies, rows and the cache   *)
(* change under three sockets that are up.                                 *)
(***************************************************************************)
EXTENDS Realtime, TLC

CONSTANTS s1, s2, s3, c1, c2, k1

MCClaimsOf == [s \in Sockets |-> CASE s = s1 -> Service [] s = s2 -> c1 [] s = s3 -> c2]
MCKeyOf == [c \in Claims |-> k1]

Policies == row.rls # "off" \/ metaCache \notin {Absent, "off"}
            \/ \E v \in Versions : events[v].deleted

Up(s) == sockets[s].at = "up" /\ s \in topics

OnePart ==
    \/ ~Policies /\ row.sees = {} /\ (sockets[s3].at = "out" \/ (row.v = 0 /\ Up(s1) /\ Up(s2)))
    \/ ~met /\ ~dropped /\ ghosts = {} /\ \A s \in Sockets : Up(s)

Symmetric == Permutations(Clients) \cup Permutations(Tasks)
=============================================================================
