----------------------------- MODULE MCFixture -----------------------------
(***************************************************************************)
(* One fixture alone on hosts of every kind, with failures; or two         *)
(* fixtures that contend for the NFS server of a clean host, without.      *)
(***************************************************************************)
EXTENDS Fixture

CONSTANTS f1, f2, n1, n2

MCFixtures == {f1, f2}
MCSubnets == {n1, n2}
MCBases ==
    {[exists |-> FALSE, active |-> FALSE, enabled |-> FALSE, threads |-> 0],
     [exists |-> TRUE, active |-> TRUE, enabled |-> TRUE, threads |-> 1],
     [exists |-> TRUE, active |-> FALSE, enabled |-> TRUE, threads |-> 0]}

Alone ==
    /\ faults = 0 /\ late = 0
    /\ proc[f1].pc = "idle" /\ proc[f2].pc = "unused"
    /\ art[f2] = Clean
    /\ host.daemon => art[f1] = Clean /\ host.ufw
    /\ host.ufw \/ ~base.exists

Contending ==
    /\ faults = MaxFaults /\ late = MaxLate
    /\ \A f \in Fixtures : proc[f].pc = "idle" /\ proc[f].backend = "nfs"
    /\ \A f \in Fixtures : art[f] = Clean
    /\ base.active /\ ~host.daemon
    /\ host.ufw

MCInit ==
    /\ Init
    /\ host.subnet = n1
    /\ Alone \/ Contending

MCSpec == MCInit /\ [][Next]_vars
=============================================================================
