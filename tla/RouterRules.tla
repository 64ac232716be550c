---------------------------- MODULE RouterRules ----------------------------
(* The packet rules of one router: the nftables tables that the router's    *)
(* build and its runtime operations write (nft.rs, router.rs, wiring.rs),   *)
(* the qdisc of its downlink bridge (qdisc.rs), and the traffic that passes *)
(* through them.  An operation holds the router's op mutex but awaits one   *)
(* nft process per table, so packets see every state in between; a flush    *)
(* that fails is ignored (`.await.ok()`), an apply that fails ends the      *)
(* operation.  An nft file is one kernel transaction.                       *)
EXTENDS Naturals, Sequences

CONSTANTS
    Nats,        \* NAT modes in use, a subset of NatModes
    NatsV6,      \* IPv6 NAT modes in use, a subset of V6Modes
    Firewalls,   \* firewall presets in use, a subset of FwPresets
    Conditions,  \* downlink conditions in use, a subset of Limits
    MaxFails     \* bound: nft, sysctl and tc invocations that fail

NatModes == {"None", "Home", "Cgnat", "FullCone", "Corporate", "CloudNat"}
V6Modes == {"None", "Nptv6", "Masquerade", "Nat64"}
FwPresets == {"None", "BlockInbound", "Corporate", "CaptivePortal"}
Limits == {"None", "Latency", "Rate"}

ASSUME RulesAssumption ==
    /\ Nats \subseteq NatModes /\ NatsV6 \subseteq V6Modes
    /\ Firewalls \subseteq FwPresets /\ Conditions \subseteq Limits
    /\ MaxFails \in Nat

VARIABLES
    rec,        \* RouterConfig: the nat, nat_v6 and firewall fields
    frag,       \* RouterConfig.block_icmp_frag_needed
    seen,       \* the modes the published events show
    nat,        \* table ip nat: the configurations its rules were made from
    filter,     \* table ip filter, chain forward: its rules in order
    nat6,       \* table ip6 nat: the modes its rules were made from
    xlat,       \* the NAT64 device, its table ip nat64 and its loop exist
    fwall,      \* table inet fw, chain forward: its rules in order
    stream,     \* the conntrack timeout of a UDP stream
    qdisc,      \* the qdiscs on the downlink bridge
    cone,       \* the fullcone map holds the mapping of the LAN host
    flow,       \* the conntrack entry of the LAN host's flow
    op,         \* the operation that holds the router's op mutex
    settled,    \* features whose last operation returned Ok
    swallowed,  \* a flush, delete or tc command failed and was ignored
    fails       \* invocations that failed so far

rulesVars == <<rec, frag, seen, nat, filter, nat6, xlat, fwall, stream, qdisc,
               cone, flow, op, settled, swallowed, fails>>

-----------------------------------------------------------------------------
(* What the modes stand for.                                                *)

\* Nat::to_config: endpoint-independent mapping and filtering, hairpin, and
\* the UDP stream timeout in seconds.
NatConfig ==
    [m \in NatModes \ {"None"} |->
        [eim     |-> m \in {"Home", "Cgnat", "FullCone"},
         eif     |-> m \in {"Cgnat", "FullCone"},
         hairpin |-> m = "FullCone",
         stream  |-> CASE m = "Corporate" -> 120
                       [] m = "CloudNat" -> 350
                       [] OTHER -> 300]]

Eif(m) == m # "None" /\ NatConfig[m].eif

\* Firewall::to_config: inbound blocking and the outbound policies.
FwConfig ==
    [f \in FwPresets \ {"None"} |->
        [block |-> TRUE,
         tcp   |-> IF f = "Corporate" THEN "some" ELSE "all",
         udp   |-> IF f = "BlockInbound" THEN "all" ELSE "some"]]

-----------------------------------------------------------------------------
(* The rules, and what a chain does with a packet: the first rule that      *)
(* matches decides, a chain without a match accepts.  The packets are       *)
(* "probe" (an unsolicited datagram to the mapped port of the WAN address), *)
(* "reply" (of the tracked flow), "fragNeeded" (an ICMP error about it) and *)
(* new outbound packets: web (tcp 80), tcp, dns (udp 53), udp.              *)

Matched ==
    [est     |-> {"reply", "fragNeeded"},
     wandrop |-> {"probe", "reply", "fragNeeded"},
     frag    |-> {"fragNeeded"},
     web     |-> {"web"},
     tcpdrop |-> {"web", "tcp"},
     dns     |-> {"dns"},
     udpdrop |-> {"dns", "udp", "probe", "reply"}]

AcceptRules == {"est", "web", "dns"}

Accepts(chain, pkt) ==
    LET hits == {i \in DOMAIN chain : pkt \in Matched[chain[i]]}
    IN \A i \in hits : (\A j \in hits : i <= j) => chain[i] \in AcceptRules

\* generate_nat_rules: the filter table of an address-and-port-dependent NAT.
FilterOf(m) == IF m = "None" \/ Eif(m) THEN <<>> ELSE <<"est", "wandrop">>

\* Mutant: the rule for established flows is missing.
FwRulesStateless(f) == IF f = "None" THEN <<>> ELSE <<"wandrop">>

\* generate_firewall_rules.
FwRulesOf(f) ==
    IF f = "None" THEN <<>>
    ELSE LET c == FwConfig[f]
             If(b, s) == IF b THEN s ELSE <<>>
         IN <<"est">> \o If(c.block, <<"wandrop">>)
                      \o If(c.tcp = "some", <<"web">>) \o If(c.tcp # "all", <<"tcpdrop">>)
                      \o If(c.udp = "some", <<"dns">>) \o If(c.udp # "all", <<"udpdrop">>)

\* The prerouting rule of an endpoint-independent mapping sends a probe to
\* the LAN host; then the two forward chains see it, priority 0 and 10.
Forwards(pkt) == Accepts(filter, pkt) /\ Accepts(fwall, pkt)
Delivered(pkt) ==
    /\ CASE pkt = "probe" -> cone /\ \E i \in DOMAIN nat : nat[i].eim
         [] OTHER -> flow # "none"
    /\ Forwards(pkt)

-----------------------------------------------------------------------------
Idle == [kind |-> "none", pc |-> "idle", arg |-> "None", from |-> "None"]

\* setup_router_async starts on a router whose record is complete.
RulesInit ==
    /\ rec \in [nat : Nats, v6 : NatsV6, fw : Firewalls]
    /\ frag \in BOOLEAN
    /\ seen = [nat |-> rec.nat, v6 |-> rec.v6, fw |-> rec.fw, down |-> "None"]
    /\ nat = <<>> /\ filter = <<>> /\ nat6 = <<>> /\ fwall = <<>> /\ qdisc = <<>>
    /\ xlat = FALSE /\ stream = 120
    /\ cone = FALSE /\ flow = "none"
    /\ op = [kind |-> "build", pc |-> "nat", arg |-> rec.nat, from |-> rec.nat]
    /\ settled = {} /\ swallowed = FALSE /\ fails = 0

At(kind, pc) == op.kind = kind /\ op.pc = pc
Goto(pc) == op' = [op EXCEPT !.pc = pc]

\* The operation returns Ok, having settled the features fs.
Done(fs) == op' = Idle /\ settled' = settled \cup fs

\* An invocation whose error the operation returns: the rest is not done,
\* and a build that fails hands out no Router.
Abort ==
    /\ fails < MaxFails /\ fails' = fails + 1
    /\ op' = IF op.kind = "build" THEN [op EXCEPT !.kind = "failed"] ELSE Idle
    /\ UNCHANGED <<rec, frag, seen, nat, filter, nat6, xlat, fwall, stream,
                   qdisc, cone, flow, settled, swallowed>>

\* An invocation whose error is ignored: the operation goes on.
Swallow ==
    /\ fails < MaxFails /\ fails' = fails + 1
    /\ swallowed' = TRUE

KeepTraffic == UNCHANGED <<frag, cone, flow>>

-----------------------------------------------------------------------------
(* run_nft_in with the rules of each feature.                               *)

\* apply_nat_for_router / apply_nat_config: one nft file with both tables.
ApplyNat(next) ==
    /\ IF op.arg = "None"
       THEN Goto(next) /\ UNCHANGED <<nat, filter>>
       ELSE /\ Goto("timeouts")
            /\ nat' = Append(nat, NatConfig[op.arg])
            /\ filter' = filter \o FilterOf(op.arg)
    /\ UNCHANGED <<rec, seen, nat6, xlat, fwall, stream, qdisc, settled, swallowed, fails>>
    /\ KeepTraffic

\* apply_conntrack_timeouts_from_config.
ApplyTimeouts(next) ==
    /\ stream' = NatConfig[op.arg].stream
    /\ Goto(next)
    /\ UNCHANGED <<rec, seen, nat, filter, nat6, xlat, fwall, qdisc, settled, swallowed, fails>>
    /\ KeepTraffic

\* apply_nat_v6: Nat64 is not handled here.
ApplyV6(mode, next) ==
    /\ nat6' = IF mode \in {"Nptv6", "Masquerade"} THEN Append(nat6, mode) ELSE nat6
    /\ Goto(next)
    /\ UNCHANGED <<rec, seen, nat, filter, xlat, fwall, stream, qdisc, settled, swallowed, fails>>
    /\ KeepTraffic

\* apply_firewall.
ApplyFw(f, next) ==
    /\ fwall' = fwall \o FwRulesOf(f)
    /\ Goto(next)
    /\ UNCHANGED <<rec, seen, nat, filter, nat6, xlat, stream, qdisc, settled, swallowed, fails>>
    /\ KeepTraffic

-----------------------------------------------------------------------------
(* RouterBuilder::build and setup_router_async, the rules in their order.   *)

BuildNat == At("build", "nat") /\ (ApplyNat("v6") \/ (op.arg # "None" /\ Abort))
BuildTimeouts == At("build", "timeouts") /\ (ApplyTimeouts("v6") \/ Abort)
BuildV6 == At("build", "v6") /\ (ApplyV6(rec.v6, "frag") \/ (rec.v6 # "None" /\ Abort))

\* apply_icmp_frag_block appends to the chain that the NAT may have made.
BuildFrag ==
    /\ At("build", "frag")
    /\ \/ /\ filter' = IF frag THEN Append(filter, "frag") ELSE filter
          /\ Goto("fw")
          /\ UNCHANGED <<rec, seen, nat, nat6, xlat, fwall, stream, qdisc, settled, swallowed, fails>>
          /\ KeepTraffic
       \/ frag /\ Abort

BuildFw == At("build", "fw") /\ (ApplyFw(rec.fw, "nat64") \/ (rec.fw # "None" /\ Abort))

\* setup_nat64: the device, its routes, its table, then the loop.
BuildNat64 ==
    /\ At("build", "nat64")
    /\ \/ /\ xlat' = (rec.v6 = "Nat64")
          /\ Done({"nat", "v6", "fw", "down"})
          /\ UNCHANGED <<rec, seen, nat, filter, nat6, fwall, stream, qdisc, swallowed, fails>>
          /\ KeepTraffic
       \/ rec.v6 = "Nat64" /\ Abort

Build == BuildNat \/ BuildTimeouts \/ BuildV6 \/ BuildFrag \/ BuildFw \/ BuildNat64

-----------------------------------------------------------------------------
(* Router::set_nat_mode.                                                    *)

Begin(kind, pc, arg) ==
    /\ op = Idle
    /\ op' = [kind |-> kind, pc |-> pc, arg |-> arg, from |-> rec.nat]

SetNatStart(m) ==
    /\ Begin("nat", "flushNat", m)
    /\ rec' = [rec EXCEPT !.nat = m]
    /\ settled' = settled \ {"nat"}
    /\ UNCHANGED <<seen, nat, filter, nat6, xlat, fwall, stream, qdisc, swallowed, fails>>
    /\ KeepTraffic

\* Mutant: the filter table is flushed first.
SetNatFlushFilterFirst ==
    /\ At("nat", "flushNat") /\ Goto("flushFilter") /\ filter' = <<>>
    /\ UNCHANGED <<rec, seen, nat, nat6, xlat, fwall, stream, qdisc, settled, swallowed, fails>>
    /\ KeepTraffic

\* `flush table ip nat` empties the chains; the fullcone map keeps its elements.
SetNatFlushNat ==
    /\ At("nat", "flushNat")
    /\ Goto("flushFilter")
    /\ \/ nat' = <<>> /\ UNCHANGED <<swallowed, fails>>
       \/ nat # <<>> /\ nat' = nat /\ Swallow
    /\ UNCHANGED <<rec, seen, filter, nat6, xlat, fwall, stream, qdisc, settled>>
    /\ KeepTraffic

\* Mutant: the filter table is not flushed.
SetNatKeepFilter ==
    /\ At("nat", "flushFilter") /\ Goto("apply")
    /\ UNCHANGED <<rec, seen, nat, filter, nat6, xlat, fwall, stream, qdisc, settled,
                   swallowed, fails>>
    /\ KeepTraffic

SetNatFlushFilter ==
    /\ At("nat", "flushFilter")
    /\ Goto("apply")
    /\ \/ filter' = <<>> /\ UNCHANGED <<swallowed, fails>>
       \/ filter # <<>> /\ filter' = filter /\ Swallow
    /\ UNCHANGED <<rec, seen, nat, nat6, xlat, fwall, stream, qdisc, settled>>
    /\ KeepTraffic

SetNatApply == At("nat", "apply") /\ (ApplyNat("emit") \/ (op.arg # "None" /\ Abort))
SetNatTimeouts == At("nat", "timeouts") /\ (ApplyTimeouts("emit") \/ Abort)

SetNatEmit ==
    /\ At("nat", "emit")
    /\ seen' = [seen EXCEPT !.nat = op.arg]
    /\ Done({"nat"})
    /\ UNCHANGED <<rec, nat, filter, nat6, xlat, fwall, stream, qdisc, swallowed, fails>>
    /\ KeepTraffic

-----------------------------------------------------------------------------
(* Router::set_nat_v6_mode records the mode after it was applied.           *)

SetV6Start(m) ==
    /\ Begin("v6", "flush6", m)
    /\ settled' = settled \ {"v6"}
    /\ UNCHANGED <<rec, seen, nat, filter, nat6, xlat, fwall, stream, qdisc, swallowed, fails>>
    /\ KeepTraffic

SetV6Flush ==
    /\ At("v6", "flush6")
    /\ Goto("apply6")
    /\ \/ nat6' = <<>> /\ UNCHANGED <<swallowed, fails>>
       \/ nat6 # <<>> /\ nat6' = nat6 /\ Swallow
    /\ UNCHANGED <<rec, seen, nat, filter, xlat, fwall, stream, qdisc, settled>>
    /\ KeepTraffic

SetV6Apply ==
    /\ At("v6", "apply6")
    /\ ApplyV6(op.arg, "emit") \/ (op.arg \in {"Nptv6", "Masquerade"} /\ Abort)

SetV6Emit ==
    /\ At("v6", "emit")
    /\ rec' = [rec EXCEPT !.v6 = op.arg]
    /\ seen' = [seen EXCEPT !.v6 = op.arg]
    /\ Done({"v6"})
    /\ UNCHANGED <<nat, filter, nat6, xlat, fwall, stream, qdisc, swallowed, fails>>
    /\ KeepTraffic

-----------------------------------------------------------------------------
(* Router::set_firewall records the preset before it removes the old one.   *)

SetFwStart(f) ==
    /\ Begin("fw", "delete", f)
    /\ rec' = [rec EXCEPT !.fw = f]
    /\ settled' = settled \ {"fw"}
    /\ UNCHANGED <<seen, nat, filter, nat6, xlat, fwall, stream, qdisc, swallowed, fails>>
    /\ KeepTraffic

\* remove_firewall deletes the table and ignores every error.
SetFwDelete ==
    /\ At("fw", "delete")
    /\ Goto("applyFw")
    /\ \/ fwall' = <<>> /\ UNCHANGED <<swallowed, fails>>
       \/ fwall # <<>> /\ fwall' = fwall /\ Swallow
    /\ UNCHANGED <<rec, seen, nat, filter, nat6, xlat, stream, qdisc, settled>>
    /\ KeepTraffic

SetFwApply ==
    /\ At("fw", "applyFw")
    /\ ApplyFw(op.arg, "emit") \/ (op.arg # "None" /\ Abort)

SetFwEmit ==
    /\ At("fw", "emit")
    /\ seen' = [seen EXCEPT !.fw = op.arg]
    /\ Done({"fw"})
    /\ UNCHANGED <<rec, nat, filter, nat6, xlat, fwall, stream, qdisc, swallowed, fails>>
    /\ KeepTraffic

-----------------------------------------------------------------------------
(* Router::flush_nat_state: `conntrack -F`.                                 *)

FlushStart ==
    /\ Begin("flush", "conntrack", "None")
    /\ UNCHANGED <<rec, seen, nat, filter, nat6, xlat, fwall, stream, qdisc, settled, swallowed, fails>>
    /\ KeepTraffic

FlushConntrack ==
    /\ At("flush", "conntrack")
    /\ \/ /\ flow' = "none"
          /\ Done({})
          /\ UNCHANGED <<rec, frag, seen, nat, filter, nat6, xlat, fwall, stream,
                         qdisc, cone, swallowed, fails>>
       \/ Abort

-----------------------------------------------------------------------------
(* Router::set_downlink_condition: apply_impair deletes the root qdisc,     *)
(* adds netem and, for a rate, tbf; every error is ignored and the event    *)
(* is published in each case.                                               *)

SetDownStart(c) ==
    /\ Begin("down", "clear", c)
    /\ settled' = settled \ {"down"}
    /\ UNCHANGED <<rec, seen, nat, filter, nat6, xlat, fwall, stream, qdisc, swallowed, fails>>
    /\ KeepTraffic

SetDownClear ==
    /\ At("down", "clear")
    /\ Goto(IF op.arg = "None" THEN "emit" ELSE "netem")
    /\ \/ qdisc' = <<>> /\ UNCHANGED <<swallowed, fails>>
       \/ qdisc # <<>> /\ qdisc' = qdisc /\ Swallow
    /\ UNCHANGED <<rec, seen, nat, filter, nat6, xlat, fwall, stream, settled>>
    /\ KeepTraffic

\* A root qdisc that is still there makes `tc qdisc add root` fail.
SetDownNetem ==
    /\ At("down", "netem")
    /\ \/ /\ qdisc = <<>>
          /\ qdisc' = <<"netem">>
          /\ Goto(IF op.arg = "Rate" THEN "tbf" ELSE "emit")
          /\ UNCHANGED <<swallowed, fails>>
       \/ qdisc # <<>> /\ Goto("emit") /\ UNCHANGED <<qdisc, swallowed, fails>>
       \/ Goto("emit") /\ Swallow /\ UNCHANGED qdisc
    /\ UNCHANGED <<rec, seen, nat, filter, nat6, xlat, fwall, stream, settled>>
    /\ KeepTraffic

SetDownTbf ==
    /\ At("down", "tbf")
    /\ Goto("emit")
    /\ \/ qdisc' = Append(qdisc, "tbf") /\ UNCHANGED <<swallowed, fails>>
       \/ Swallow /\ UNCHANGED qdisc
    /\ UNCHANGED <<rec, seen, nat, filter, nat6, xlat, fwall, stream, settled>>
    /\ KeepTraffic

SetDownEmit ==
    /\ At("down", "emit")
    /\ seen' = [seen EXCEPT !.down = op.arg]
    /\ Done({"down"})
    /\ UNCHANGED <<rec, nat, filter, nat6, xlat, fwall, stream, qdisc, swallowed, fails>>
    /\ KeepTraffic

-----------------------------------------------------------------------------
(* The kernel and the traffic (not in src/).                                *)

KeepRules == UNCHANGED <<rec, frag, seen, nat, filter, nat6, xlat, fwall, stream,
                         qdisc, op, settled, swallowed, fails>>

\* The LAN host sends a new datagram.  Only the first packet of a flow visits
\* the nat chains, whose first rule for the WAN interface decides.
Outbound ==
    /\ op.kind # "build" /\ flow = "none" /\ Accepts(fwall, "udp")
    /\ flow' = IF nat = <<>> THEN "plain" ELSE "mapped"
    /\ cone' = (cone \/ (nat # <<>> /\ Head(nat).eim))
    /\ KeepRules

\* The conntrack entry and the fullcone element time out on their own.
FlowExpires == flow # "none" /\ flow' = "none" /\ KeepRules /\ UNCHANGED cone
ConeExpires == cone /\ cone' = FALSE /\ KeepRules /\ UNCHANGED flow

-----------------------------------------------------------------------------
RulesStart ==
    \/ \E m \in Nats : SetNatStart(m)
    \/ \E m \in NatsV6 : SetV6Start(m)
    \/ \E f \in Firewalls : SetFwStart(f)
    \/ FlushStart
    \/ \E c \in Conditions : SetDownStart(c)

RulesStep ==
    \/ Build
    \/ SetNatFlushNat \/ SetNatFlushFilter \/ SetNatApply \/ SetNatTimeouts \/ SetNatEmit
    \/ SetV6Flush \/ SetV6Apply \/ SetV6Emit
    \/ SetFwDelete \/ SetFwApply \/ SetFwEmit
    \/ FlushConntrack
    \/ SetDownClear \/ SetDownNetem \/ SetDownTbf \/ SetDownEmit

Traffic == Outbound \/ FlowExpires \/ ConeExpires

-----------------------------------------------------------------------------

\* The state of each feature that goes with its recorded mode.
NatRules == nat = IF rec.nat = "None" THEN <<>> ELSE <<NatConfig[rec.nat]>>
Timeouts == rec.nat # "None" => stream = NatConfig[rec.nat].stream
V6RulesOf(m) == IF m \in {"Nptv6", "Masquerade"} THEN <<m>> ELSE <<>>
QdiscOf(c) == CASE c = "None" -> <<>>
                [] c = "Latency" -> <<"netem">>
                [] c = "Rate" -> <<"netem", "tbf">>

NatAsRecorded ==
    /\ NatRules /\ Timeouts
    /\ filter \in {FilterOf(rec.nat), Append(FilterOf(rec.nat), "frag")}
    /\ seen.nat = rec.nat
V6AsRecorded == nat6 = V6RulesOf(rec.v6) /\ seen.v6 = rec.v6
FwAsRecorded == fwall = FwRulesOf(rec.fw) /\ seen.fw = rec.fw

\* When no operation runs, every feature whose last operation returned Ok has
\* in the kernel exactly the rules of its recorded mode (router.rs:438-681),
\* and the published events name that mode, unless the error of a flush, a
\* delete or a tc command was ignored.  The rule that blocks ICMP errors and
\* the NAT64 translator are not part of it: the operations do not keep them.
RulesAsRecorded ==
    op = Idle /\ ~swallowed =>
        /\ "nat" \in settled => NatAsRecorded
        /\ "v6" \in settled => V6AsRecorded
        /\ "fw" \in settled => FwAsRecorded
        /\ "down" \in settled => qdisc = QdiscOf(seen.down)

\* No operation opens the NAT on the way from one mode to another: an
\* unsolicited datagram reaches the LAN host only if the recorded mode filters
\* independently of the endpoint, or the mode a set_nat_mode in progress or a
\* failed one replaced did.  set_nat_mode flushes the NAT table before the
\* filter table and applies both in one transaction (router.rs:451-464).
NoOpening ==
    Delivered("probe") /\ ~swallowed =>
        Eif(rec.nat) \/ (op.kind = "nat" /\ Eif(op.from))

\* A change of the rules cuts no tracked flow: while conntrack has its entry,
\* its replies pass both forward chains (router.rs:428-431 promises that
\* existing conntrack entries are kept), whatever was appended or left over.
RepliesPass == flow # "none" => Delivered("reply")
=============================================================================
