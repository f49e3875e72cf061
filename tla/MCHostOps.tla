------------------------------ MODULE MCHostOps ------------------------------
(***************************************************************************)
(* TLC instance of HostOps: two requests for two operations on one part of *)
(* the host.  Operations on different parts share no state but the power,  *)
(* which is kept with the firewall a reboot brings back; the parts nobody  *)
(* has asked for stay as they are, and one of their initial states stands  *)
(* for all.  Every operation is asked for; those that read, or that no     *)
(* part names, are asked for alone; two of a service are followed until    *)
(* OneLayerRuns has nothing more to say of them.                           *)
(***************************************************************************)
EXTENDS HostOps, TLC

MCOps == Operations

Symmetric == Permutations(Requests) \cup Permutations(Names)

Parts == {{"firewall_close_https", "firewall_configure_ssh", "server_reboot"}, ServiceOps,
          {"backup_create", "backup_prune"},
          {"provision_check_storage", "provision_apply_storage"}}
Asked == {calls[r].op : r \in Requests} \ {None}
Alone == \A q, r \in Requests : None \in {calls[q].op, calls[r].op} \/ q = r

Plain == [systemd |-> "not_installed", docker |-> "running"]

\* The state that stands for all where nobody asks for the firewall, and what it may be
\* before somebody does.
Settled == firewall.state = DefaultState /\ Agree(firewall)
Untouched ==
    /\ firewall.state = DefaultState
    /\ {firewall.rules, firewall.loaded} \subseteq {DefaultState, Unset}

OnePart ==
    /\ Alone \/ \E part \in Parts : Asked \subseteq part
    /\ Asked \cap FirewallOps = {} => Untouched
    /\ ~Settled => Asked \subseteq FirewallOps \cup {"server_reboot"} /\ layers = Plain
    /\ layers # Plain => Asked \subseteq ServiceOps \cup {"kairos_doctor"}
    /\ "service" \in excused => Alone
    /\ prepared # {} => Asked \cap ApplyOps # {}
=============================================================================
