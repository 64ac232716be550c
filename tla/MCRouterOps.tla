---------------------------- MODULE MCRouterOps ----------------------------
(* Two routers, two devices with two interfaces each; every NAT, IPv6 NAT   *)
(* and firewall mode that has rules of its own kind.                        *)
EXTENDS RouterOps

MCNats == {"None", "Home", "FullCone", "Corporate"}
MCNatsV6 == {"None", "Nptv6", "Nat64"}
MCFirewalls == {"None", "BlockInbound", "Corporate"}
MCConditions == {"None", "Rate"}
\* A behaviour that spends nothing on one group starts with one setting of
\* it, and without a worker when it spends nothing on RA and routes.
MCInit ==
    /\ Init
    /\ left[1] < 2 => rec = [nat |-> "Home", v6 |-> "None", fw |-> "None"] /\ ~frag
    /\ left[2] = 0 => ~lab_ra
    /\ left[2] = 1 => lab_ra
    /\ \A r \in Routers : ra[r].on <=> r = R0
    /\ \E d \in Devices : mode[d] = "ra" <=> lab_ra
    /\ uplink = [d \in Devices |-> [i \in Ifaces |-> R0]]
MCSpec == MCInit /\ [][Next]_vars /\ \A r \in Routers : WF_vars(RaWorker(r))

MCBudgets == {<<2, 0>>, <<0, 2>>, <<1, 1>>}
=============================================================================
