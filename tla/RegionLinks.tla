---------------------------- MODULE RegionLinks ----------------------------
(***************************************************************************)
(* Inter-region links of a lab: Lab::link_regions, break_region_link and   *)
(* restore_region_link, with the helpers of NetworkCore they call.         *)
(*                                                                         *)
(* Each operation first takes the core mutex, validates against the link   *)
(* records and copies what it needs ("prepare"), then releases the mutex   *)
(* and awaits one netlink call per region router, and finally takes the    *)
(* mutex again to flip the record.  No operation lock covers the sequence, *)
(* so the clients of a lab interleave between the awaits.  A region router *)
(* that has no specific route to another region's /20 falls back on its    *)
(* default route through the IX, where the root namespace delivers to the  *)
(* destination region directly.                                            *)
(***************************************************************************)
EXTENDS Naturals

CONSTANTS
    Regions,      \* the regions of the lab, all added before the run
    Ix,           \* next hop of a packet no region route matches
    Clients,      \* concurrent callers holding a Lab handle
    MaxBreaks     \* bound: number of break operations that get past validation

ASSUME RegionsAssumption == /\ Ix \notin Regions
                            /\ MaxBreaks \in Nat

VARIABLES
    link,         \* core.region_links: status of the record of every region pair
    wired,        \* wired[a]: peers whose veth is addressed and up in a's namespace
    route4,       \* route4[a][b]: next hop in a's namespace for b's IPv4 /20
    route6,       \* the same for b's IPv6 sub-switch prefix
    op,           \* the call each client is in
    since,        \* history: number of the last break of a pair
    breaks,       \* history: breaks prepared so far
    disturbed     \* history: two reroutes overlapped, or a call ended half way

vars == <<link, wired, route4, route6, op, since, breaks, disturbed>>

(* NetworkCore::region_link_key sorts the two names: one record a pair. *)
LinkKey(a, b) == {a, b}
Pairs == {LinkKey(a, b) : a \in Regions, b \in Regions}

NextHops == Regions \cup {Ix}
Status == {"none", "linked", "broken"}

(* The call a client is in: its kind, the await it is at, its two regions  *)
(* and the intermediate a break chose (Ix where there is none).            *)
Call == [kind : {"idle", "link", "break", "restore"}, step : {"a", "b", "mark"},
         a : NextHops, b : NextHops, m : NextHops]
Idle == [kind |-> "idle", step |-> "a", a |-> Ix, b |-> Ix, m |-> Ix]
Begin(k, x, y, z) == [kind |-> k, step |-> "a", a |-> x, b |-> y, m |-> z]

TypeOK ==
    /\ link \in [Pairs -> Status]
    /\ wired \in [Regions -> SUBSET Regions]
    /\ route4 \in [Regions -> [Regions -> NextHops]]
    /\ route6 \in [Regions -> [Regions -> NextHops]]
    /\ op \in [Clients -> Call]
    /\ \A c \in Clients : op[c].kind # "idle" =>
           /\ op[c].a \in Regions /\ op[c].b \in Regions /\ op[c].a # op[c].b
           /\ op[c].kind = "break" => op[c].m \in Regions \ {op[c].a, op[c].b}
    /\ since \in [Pairs -> 0..MaxBreaks]
    /\ breaks \in 0..MaxBreaks
    /\ disturbed \in BOOLEAN

Init ==
    /\ link = [p \in Pairs |-> "none"]
    /\ wired = [a \in Regions |-> {}]
    /\ route4 = [a \in Regions |-> [b \in Regions |-> Ix]]
    /\ route6 = [a \in Regions |-> [b \in Regions |-> Ix]]
    /\ op = [c \in Clients |-> Idle]
    /\ since = [p \in Pairs |-> 0]
    /\ breaks = 0
    /\ disturbed = FALSE

IsReroute(o) == o.kind \in {"break", "restore"}
RerouteInFlight == \E c \in Clients : IsReroute(op[c])

(* The routes of the pair are about to change while another call may       *)
(* still be changing some.                                                 *)
NoteOverlap == disturbed' = (disturbed \/ RerouteInFlight)

Return(c) == op' = [op EXCEPT ![c] = Idle]
Step(c, s) == op' = [op EXCEPT ![c].step = s]

----------------------------------------------------------------------------
(* link_regions: the record is inserted before any link exists; each side  *)
(* is then addressed and given its routes in one netlink batch.  The       *)
(* regions a call names are two different ones (the code does not check).  *)

LinkPrepare(c, a, b) ==
    /\ op[c].kind = "idle"
    /\ a # b
    /\ link[LinkKey(a, b)] = "none"
    /\ link' = [link EXCEPT ![LinkKey(a, b)] = "linked"]
    /\ op' = [op EXCEPT ![c] = Begin("link", a, b, Ix)]
    /\ UNCHANGED <<wired, route4, route6, since, breaks, disturbed>>

(* Netlink::add_route_v4/v6 leave an existing route alone (EEXIST is Ok).  *)
AddRoute(route, n, d) ==
    IF route[n][d] = Ix THEN [route EXCEPT ![n][d] = d] ELSE route

ConfigureSide(n, d) ==
    /\ wired' = [wired EXCEPT ![n] = @ \cup {d}]
    /\ route4' = AddRoute(route4, n, d)
    /\ route6' = AddRoute(route6, n, d)

LinkSideA(c) ==
    /\ op[c].kind = "link" /\ op[c].step = "a"
    /\ ConfigureSide(op[c].a, op[c].b)
    /\ Step(c, "b")
    /\ UNCHANGED <<link, since, breaks, disturbed>>

LinkSideB(c) ==
    /\ op[c].kind = "link" /\ op[c].step = "b"
    /\ ConfigureSide(op[c].b, op[c].a)
    /\ Return(c)
    /\ UNCHANGED <<link, since, breaks, disturbed>>

----------------------------------------------------------------------------
(* break_region_link and restore_region_link share their shape: the next   *)
(* hop each side is given is resolved under the lock, the two routes are   *)
(* replaced one after the other, the record is updated last.               *)

(* Seeded faults: one of the two links of the intermediate is not looked   *)
(* at, and the ends of the broken link are not excluded.                   *)
IntermediatesOneEnd(a, b) ==
    {m \in Regions \ {a, b} : /\ link[LinkKey(m, a)] = "linked"
                              /\ link[LinkKey(m, b)] # "none"}
IntermediatesWithEnds(a, b) == {m \in Regions : link[LinkKey(m, a)] = "linked"}

(* The regions break_region_link may reroute through. *)
Intermediates(a, b) ==
    {m \in Regions \ {a, b} : /\ link[LinkKey(m, a)] = "linked"
                              /\ link[LinkKey(m, b)] = "linked"}

BreakPrepare(c, a, b) ==
    /\ op[c].kind = "idle"
    /\ a # b
    /\ breaks < MaxBreaks
    /\ link[LinkKey(a, b)] = "linked"
    /\ \E m \in Intermediates(a, b) :
         op' = [op EXCEPT ![c] = Begin("break", a, b, m)]
    /\ breaks' = breaks + 1
    /\ since' = [since EXCEPT ![LinkKey(a, b)] = breaks + 1]
    /\ NoteOverlap
    /\ UNCHANGED <<link, wired, route4, route6>>

RestorePrepare(c, a, b) ==
    /\ op[c].kind = "idle"
    /\ a # b
    /\ link[LinkKey(a, b)] = "broken"
    /\ op' = [op EXCEPT ![c] = Begin("restore", a, b, Ix)]
    /\ NoteOverlap
    /\ UNCHANGED <<link, wired, route4, route6, since, breaks>>

(* The gateway a side is given towards the other: the intermediate's       *)
(* address on the side's own link, or the direct peer's.                   *)
Gateway(o, d) == IF o.kind = "break" THEN o.m ELSE d

(* Netlink::replace_route_v4: the kernel refuses a gateway that is not     *)
(* on a configured link.  Only IPv4 routes are ever replaced.              *)
CanReplace(o, n, d) == Gateway(o, d) \in wired[n]
ReplaceRoute(o, n, d) == route4' = [route4 EXCEPT ![n][d] = Gateway(o, d)]

RerouteA(c) ==
    LET o == op[c] IN
    /\ IsReroute(o) /\ o.step = "a"
    /\ CanReplace(o, o.a, o.b)
    /\ ReplaceRoute(o, o.a, o.b)
    /\ Step(c, "b")
    /\ UNCHANGED <<link, wired, route6, since, breaks, disturbed>>

RerouteB(c) ==
    LET o == op[c] IN
    /\ IsReroute(o) /\ o.step = "b"
    /\ CanReplace(o, o.b, o.a)
    /\ ReplaceRoute(o, o.b, o.a)
    /\ Step(c, "mark")
    /\ UNCHANGED <<link, wired, route6, since, breaks, disturbed>>

(* An error of either replace returns at once and undoes nothing.          *)
RerouteFails(c) ==
    LET o == op[c] IN
    /\ IsReroute(o)
    /\ \/ o.step = "a" /\ ~CanReplace(o, o.a, o.b) /\ UNCHANGED disturbed
       \/ o.step = "b" /\ ~CanReplace(o, o.b, o.a) /\ disturbed' = TRUE
    /\ Return(c)
    /\ UNCHANGED <<link, wired, route4, route6, since, breaks>>

(* Seeded fault: a restore leaves the record broken.                       *)
MarkLinkAlwaysBroken(c) ==
    LET o == op[c] IN
    /\ IsReroute(o) /\ o.step = "mark"
    /\ link' = [link EXCEPT ![LinkKey(o.a, o.b)] = "broken"]
    /\ Return(c)
    /\ UNCHANGED <<wired, route4, route6, since, breaks, disturbed>>

MarkLink(c) ==
    LET o == op[c] IN
    /\ IsReroute(o) /\ o.step = "mark"
    /\ link' = [link EXCEPT ![LinkKey(o.a, o.b)] =
                    IF o.kind = "break" THEN "broken" ELSE "linked"]
    /\ Return(c)
    /\ UNCHANGED <<wired, route4, route6, since, breaks, disturbed>>

(* The caller drops the future at an await (a timeout, a select!).         *)
Drop(c) ==
    /\ op[c].kind # "idle"
    /\ disturbed' = TRUE
    /\ Return(c)
    /\ UNCHANGED <<link, wired, route4, route6, since, breaks>>

----------------------------------------------------------------------------
Next ==
    \E c \in Clients :
        \/ \E a, b \in Regions : \/ LinkPrepare(c, a, b)
                                 \/ BreakPrepare(c, a, b)
                                 \/ RestorePrepare(c, a, b)
        \/ LinkSideA(c) \/ LinkSideB(c)
        \/ RerouteA(c) \/ RerouteB(c) \/ RerouteFails(c) \/ MarkLink(c)
        \/ Drop(c)

Spec == Init /\ [][Next]_vars

----------------------------------------------------------------------------
(* A forwarding loop towards d is a nonempty set of regions, none of them  *)
(* d, each of which forwards packets for d to a member of the set.         *)
LoopTowards(d, S) == /\ S # {}
                     /\ \A n \in S : route4[n][d] \in S

LoopFree == \A d \in Regions : \A S \in SUBSET (Regions \ {d}) : ~LoopTowards(d, S)

(* However the links of a lab are created, broken and restored, as long as *)
(* breaks and restores do not overlap and none is abandoned half way, no   *)
(* packet between regions can circulate: break_region_link picks an        *)
(* intermediate whose links to both ends are intact, and an intermediate   *)
(* whose own link breaks later is only ever rerouted by the later break.   *)
SerialLoopFree == disturbed \/ LoopFree

(* Between calls the record of a link and the routes of its two ends tell  *)
(* the same story: a broken link is bypassed at both ends through one and  *)
(* the same intermediate, an intact one is used directly at both ends.     *)
RecordMatchesRoutes ==
    disturbed \/ RerouteInFlight \/
    \A a, b \in Regions : a # b =>
        /\ link[LinkKey(a, b)] = "broken" =>
               /\ route4[a][b] = route4[b][a]
               /\ route4[a][b] \notin {a, b, Ix}
        /\ link[LinkKey(a, b)] = "linked" => route4[a][b] \in {b, Ix}

(* lab.rs on break_region_link: "Traffic will traverse two inter-region    *)
(* hops instead of one."  It does when the break takes effect, whatever    *)
(* link_regions is creating meanwhile: the intermediate is still direct.   *)
BreakGivesTwoHops ==
    [][\A a, b \in Regions :
          (~disturbed /\ link[LinkKey(a, b)] # "broken" /\ link'[LinkKey(a, b)] = "broken")
              => route4'[route4'[a][b]][b] \in {b, Ix}]_vars

(* The same without the proviso, for callers whose breaks overlap: the     *)
(* code does not keep this one.                                            *)
OverlappingBreakGivesTwoHops ==
    [][\A c \in Clients : (MarkLink(c) /\ op[c].kind = "break") =>
          route4[route4[op[c].a][op[c].b]][op[c].b] \in {op[c].b, Ix}]_vars
============================================================================
