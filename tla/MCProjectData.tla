---------------------------- MODULE MCProjectData ----------------------------
(***************************************************************************)
(* TLC instance of ProjectData: three requests that manage one project, or *)
(* its operators; three that use it over two connections, the second and   *)
(* third only while the project is at rest, one of three with a program of *)
(* one statement.                                                          *)
(***************************************************************************)
EXTENDS ProjectData, TLC

CONSTANT p1

Arrived == {r \in Reqs : reqs[r].at # "new"}

AtRest ==
    /\ status[Served] = "active" /\ suspended = {} /\ Served \in pools \cap sessions
    /\ \A r \in Requests : At(r, "idle")
    /\ cluster[Served] = InCluster /\ rows[Served] = OnPlatform

OnePart ==
    /\ \/ status = [p \in Projects |-> "none"]
       \/ ~split /\ operators = Operators /\ \A r \in Requests : ~At(r, "revoke")
    /\ Arrived = Reqs => \E r \in Reqs : Len(reqs[r].program) = 1
    /\ \/ Arrived = {}
       \/ /\ crossed = {} /\ unrecorded = {} /\ suspended = {}
          /\ \/ AtRest
             \/ Cardinality(Arrived) = 1 /\ Cardinality({r \in Requests : ~At(r, "idle")}) <= 1

Symmetric == Permutations(Requests) \cup Permutations(Reqs)
=============================================================================
