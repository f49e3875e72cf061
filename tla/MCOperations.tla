---------------------------- MODULE MCOperations ----------------------------
(***************************************************************************)
(* TLC instance of Operations: one job or the migrations, which share no   *)
(* state; the webhooks are there before the job, and one may be deleted.   *)
(* Bound: net, by the requests at a time and MaxNet.                       *)
(***************************************************************************)
EXTENDS Operations

MaxNet == 2
\* The hooks are alike, so it does not matter which one is deleted.
OneHook == CHOOSE h \in Hooks : TRUE

OnePart ==
    /\ \A n \in Names : net[n] \in -MaxNet..MaxNet
    /\ deleted \subseteq {OneHook}
    /\ (\E j \in JobIds : jobs[j].kind # "none") => hooks \cup deleted \in {{}, Hooks}
    /\ Cardinality({p \in {"jobs", "hooks", "migrations"} :
          \/ p = "jobs" /\ \E j \in JobIds : backups[j].status # "none"
          \/ p = "hooks" /\ hooks \cup deleted # {}
          \/ p = "migrations" /\ \E n \in Names : applied[n] # "none"}) <= 1
=============================================================================
