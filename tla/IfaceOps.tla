------------------------------ MODULE IfaceOps ------------------------------
(***************************************************************************)
(* The interfaces of one device at runtime: Device::add_iface and          *)
(* set_default_route, Iface::link_down, link_up, add_ip, renew_ip, replug, *)
(* remove and set_condition, and Lab::remove_router.                       *)
(*                                                                         *)
(* Every operation on the device serialises on the device's op mutex, but  *)
(* the core record it reads and writes and the kernel it configures are    *)
(* two places, and not every read happens under the mutex: link_up copies  *)
(* the uplink and whether it is the default before it waits for the mutex, *)
(* set_condition copies the gateway's namespace, and remove_router does    *)
(* not take the mutex at all.                                              *)
(*                                                                         *)
(* Only IPv4 and routed interfaces are modelled, and one counter stands    *)
(* for the address counters of all switches.  Where an operation awaits    *)
(* nothing but one netlink call, and only remove_router could run during   *)
(* it to no different effect, the call is one step.                        *)
(***************************************************************************)
EXTENDS Naturals, SequencesExt

CONSTANTS
    Ifaces,       \* names an interface of the device may have
    Routers,      \* routers of the lab, each with a downlink switch
    Clients,      \* concurrent callers holding a handle on the device
    Conds,        \* link conditions a caller may set
    NoRouter, NoCond, NoIface, Free,
    FirstIface, FirstRouter,    \* the interface the device is built with
    Directions,   \* directions a caller may ask for, of those of LinkDirection
    MaxAddrs      \* bound: addresses the switches hand out

ASSUME IfaceAssumption ==
    /\ FirstIface \in Ifaces /\ FirstRouter \in Routers
    /\ NoRouter \notin Routers /\ NoCond \notin Conds
    /\ NoIface \notin Ifaces /\ Free \notin Clients
    /\ Directions \subseteq {"egress", "ingress", "both"}
    /\ MaxAddrs \in Nat \ {0}

VARIABLES
    routers,      \* core.routers
    order,        \* DeviceData.interfaces, in order of insertion
    uplink,       \* uplink router of each interface, NoRouter if not recorded
    ip,           \* recorded IPv4 address
    egress,       \* recorded egress condition
    ingress,      \* recorded ingress condition
    defaultVia,   \* DeviceData.default_via
    allocated,    \* addresses handed out so far
    kern,         \* the links of the device's namespace
    route,        \* the default route of the device's namespace
    lock,         \* DeviceData.op: its holder
    call,         \* the operation each client is in
    lost,         \* history: renew_ip or remove dropped the default route
    failed,       \* history: some operation returned an error half way
    stale         \* history: something read before the lock changed meanwhile

core == <<routers, order, uplink, ip, egress, ingress, defaultVia, allocated>>
kernel == <<kern, route>>
history == <<lost, failed, stale>>
vars == <<core, kernel, lock, call, history>>

(* A link of the namespace: the router its peer is plugged into, its state, *)
(* its pool address (0: none), whether it has a further address, and the   *)
(* conditions on its two ends.  A link that does not exist has no router.  *)
Link == [gw : Routers \cup {NoRouter}, up : BOOLEAN, addr : 0..MaxAddrs,
         extra : BOOLEAN, eg : Conds \cup {NoCond}, in : Conds \cup {NoCond}]
Absent == [gw |-> NoRouter, up |-> FALSE, addr |-> 0, extra |-> FALSE,
           eg |-> NoCond, in |-> NoCond]
Plugged(r, a, e) == [Absent EXCEPT !.gw = r, !.up = TRUE, !.addr = a, !.eg = e]

NoRoute == [via |-> NoIface, gw |-> NoRouter]
RouteVia(i, r) == [via |-> i, gw |-> r]

Recorded == Range(order)

(* What a client is doing: the operation, the await it is at, the          *)
(* interface, and what it has copied or been asked to set.                 *)
Kinds == {"idle", "default", "up", "renew", "replug", "remove",
          "condition", "add"}
Call == [kind : Kinds, at : {"lock", "kernel", "commit"},
         i : Ifaces \cup {NoIface}, r : Routers \cup {NoRouter},
         c : Conds \cup {NoCond}, dir : Directions \cup {"both"},
         dflt : BOOLEAN, addr : 0..MaxAddrs]
Work(k, i, r) == [kind |-> k, at |-> "lock", i |-> i, r |-> r, c |-> NoCond,
                  dir |-> "both", dflt |-> FALSE, addr |-> 0]
Idle == Work("idle", NoIface, NoRouter)

TypeOK ==
    /\ routers \subseteq Routers
    /\ order \in Seq(Ifaces) /\ IsInjective(order)
    /\ uplink \in [Ifaces -> Routers \cup {NoRouter}]
    /\ ip \in [Ifaces -> 0..MaxAddrs]
    /\ egress \in [Ifaces -> Conds \cup {NoCond}]
    /\ ingress \in [Ifaces -> Conds \cup {NoCond}]
    /\ defaultVia \in Recorded
    /\ allocated \in 1..MaxAddrs
    /\ kern \in [Ifaces -> Link]
    /\ route \in {NoRoute} \cup [via : Ifaces, gw : Routers]
    /\ lock \in Clients \cup {Free}
    /\ call \in [Clients -> Call]
    /\ lost \in BOOLEAN /\ failed \in BOOLEAN /\ stale \in BOOLEAN

(* The device as Lab::add_device leaves it. *)
Init ==
    /\ routers = Routers
    /\ order = <<FirstIface>>
    /\ uplink = [i \in Ifaces |-> IF i = FirstIface THEN FirstRouter ELSE NoRouter]
    /\ ip = [i \in Ifaces |-> IF i = FirstIface THEN 1 ELSE 0]
    /\ egress = [i \in Ifaces |-> NoCond]
    /\ ingress = [i \in Ifaces |-> NoCond]
    /\ defaultVia = FirstIface
    /\ allocated = 1
    /\ kern = [i \in Ifaces |->
                 IF i = FirstIface THEN Plugged(FirstRouter, 1, NoCond) ELSE Absent]
    /\ route = RouteVia(FirstIface, FirstRouter)
    /\ lock = Free
    /\ call = [c \in Clients |-> Idle]
    /\ lost = FALSE
    /\ failed = FALSE
    /\ stale = FALSE

----------------------------------------------------------------------------
(* The kernel, as far as the code relies on it. *)

Exists(i) == kern[i].gw # NoRouter

(* Linux drops the routes of a link that goes down, disappears, or loses   *)
(* its last address.                                                       *)
FlushedOf(i) == IF route.via = i THEN NoRoute ELSE route

(* Netlink::replace_default_route_v4 deletes whatever default there is and *)
(* then adds the new one, which the kernel refuses unless the link is up   *)
(* and the gateway is in its subnet.                                       *)
Accepts(i, r) == Exists(i) /\ kern[i].up /\ kern[i].gw = r /\ kern[i].addr # 0
Replaced(i, r) ==
    IF ~Exists(i) THEN route ELSE IF Accepts(i, r) THEN RouteVia(i, r) ELSE NoRoute

(* tc acts on a link that exists; the code only warns of one that does not. *)
EgressSet(i, x) == [kern EXCEPT ![i].eg = IF Exists(i) THEN x ELSE @]
IngressSet(i, r, x) == [kern EXCEPT ![i].in = IF kern[i].gw = r THEN x ELSE @]

----------------------------------------------------------------------------
(* Calls.  link_up and set_condition copy before they wait for the mutex;  *)
(* the other operations look up the device, wait, and only then read, so   *)
(* they begin when they get it.  A call that is refused before it changes  *)
(* anything is a stuttering step.                                          *)

Begin(c, o) == /\ call[c] = Idle
               /\ call' = [call EXCEPT ![c] = o]
               /\ UNCHANGED <<core, kernel, lock, history>>

Ready(c) == call[c] = Idle /\ lock = Free
Waited(c, k) == call[c].kind = k /\ lock = Free
Holds(c, k, s) == call[c].kind = k /\ call[c].at = s /\ lock = c

(* Take the op mutex and go on to the next await; return and drop it.      *)
Enter(c, o) == lock' = c /\ call' = [call EXCEPT ![c] = [o EXCEPT !.at = "kernel"]]
Return(c) == lock' = Free /\ call' = [call EXCEPT ![c] = Idle]

(* An error leaves whatever was changed before it as it is.                *)
Fail(c) == Return(c) /\ failed' = TRUE /\ UNCHANGED <<core, stale, lost>>

----------------------------------------------------------------------------
(* set_default_route: look up the interface and its gateway, replace the   *)
(* kernel's route, re-apply the egress condition, and record.              *)

SetDefaultLookup(c) == \E i \in Recorded :
    /\ Ready(c) /\ uplink[i] \in routers
    /\ Enter(c, [Work("default", i, uplink[i]) EXCEPT !.c = egress[i]])
    /\ UNCHANGED <<core, kernel, history>>

SetDefaultRoute(c) ==
    LET o == call[c] IN
    /\ Holds(c, "default", "kernel")
    /\ route' = Replaced(o.i, o.r)
    /\ \/ /\ Accepts(o.i, o.r)
          /\ kern' = EgressSet(o.i, o.c)
          /\ defaultVia' = o.i
          /\ lost' = FALSE
          /\ Return(c)
          /\ UNCHANGED <<routers, order, uplink, ip, egress, ingress, allocated,
                         failed, stale>>
       \/ ~Accepts(o.i, o.r) /\ Fail(c) /\ UNCHANGED kern

----------------------------------------------------------------------------
(* link_down, link_up and add_ip. *)

LinkDown(c) == \E i \in Recorded :
    /\ Ready(c) /\ Exists(i)
    /\ kern' = [kern EXCEPT ![i].up = FALSE]
    /\ route' = FlushedOf(i)
    /\ UNCHANGED <<core, lock, call, history>>

(* The added address is in a subnet of its own.                            *)
AddIp(c) == \E i \in Recorded :
    /\ Ready(c) /\ Exists(i)
    /\ kern' = [kern EXCEPT ![i].extra = TRUE]
    /\ UNCHANGED <<core, route, lock, call, history>>

(* link_up copies the uplink and whether the interface is the default, and *)
(* does not look at them again once it has the mutex.                      *)
BeginLinkUp(c) == \E i \in Recorded :
    Begin(c, [Work("up", i, uplink[i]) EXCEPT !.dflt = (defaultVia = i)])

(* Mutant: the default route is left to the kernel. *)
LinkUpOnly(c) ==
    LET i == call[c].i IN
    /\ Waited(c, "up")
    /\ kern' = IF Exists(i) THEN [kern EXCEPT ![i].up = TRUE] ELSE kern
    /\ Return(c)
    /\ UNCHANGED <<core, route, history>>

LinkUp(c) ==
    LET o == call[c] IN
    /\ Waited(c, "up")
    /\ \/ /\ Exists(o.i)
          /\ kern' = [kern EXCEPT ![o.i].up = TRUE]
          /\ IF o.dflt THEN Enter(c, o) ELSE Return(c)
          /\ stale' = (stale \/ o.dflt # (defaultVia = o.i)
                              \/ o.i \notin Recorded \/ o.r # uplink[o.i])
          /\ UNCHANGED <<core, route, lost, failed>>
       \/ ~Exists(o.i) /\ Return(c) /\ UNCHANGED <<core, kernel, history>>

LinkUpRoute(c) ==
    LET o == call[c] IN
    /\ Holds(c, "up", "kernel")
    /\ \/ /\ o.r \in routers /\ Accepts(o.i, o.r)
          /\ route' = Replaced(o.i, o.r)
          /\ lost' = FALSE
          /\ Return(c)
          /\ UNCHANGED <<core, kern, failed, stale>>
       \/ /\ ~(o.r \in routers /\ Accepts(o.i, o.r))
          /\ route' = IF o.r \in routers THEN Replaced(o.i, o.r) ELSE route
          /\ Fail(c)
          /\ UNCHANGED kern

----------------------------------------------------------------------------
(* renew_ip: record a new address, then delete the old one and add it.     *)

RenewIp(c) == \E i \in Recorded :
    /\ Ready(c) /\ uplink[i] \in routers
    /\ allocated < MaxAddrs
    /\ allocated' = allocated + 1
    /\ ip' = [ip EXCEPT ![i] = allocated + 1]
    /\ Enter(c, [Work("renew", i, NoRouter) EXCEPT !.addr = ip[i]])
    /\ UNCHANGED <<routers, order, uplink, egress, ingress, defaultVia, kernel, history>>

(* Netlink::del_addr4 takes an address that is not there for deleted.       *)
Readdressed(l, old, new) == [l EXCEPT !.addr = new, !.extra = @ \/ l.addr # old]

ReplaceAddr(c) ==
    LET o == call[c]
        last == kern[o.i].addr = o.addr /\ ~kern[o.i].extra IN
    /\ Holds(c, "renew", "kernel")
    /\ \/ /\ Exists(o.i)
          /\ kern' = [kern EXCEPT ![o.i] = Readdressed(@, o.addr, ip[o.i])]
          /\ route' = IF last THEN FlushedOf(o.i) ELSE route
          /\ lost' = (lost \/ route' # route)
          /\ Return(c)
          /\ UNCHANGED <<core, failed, stale>>
       \/ ~Exists(o.i) /\ Fail(c) /\ UNCHANGED kernel

----------------------------------------------------------------------------
(* replug: allocate from the target router and delete the old pair; wire   *)
(* the new one; record the move.                                           *)

Replug(c) == \E i \in Recorded, r \in routers :
    /\ Ready(c)
    /\ allocated < MaxAddrs
    /\ allocated' = allocated + 1
    /\ kern' = [kern EXCEPT ![i] = Absent]
    /\ route' = FlushedOf(i)
    /\ Enter(c, [Work("replug", i, r) EXCEPT !.addr = allocated + 1, !.c = egress[i],
                                            !.dflt = (defaultVia = i)])
    /\ UNCHANGED <<routers, order, uplink, ip, egress, ingress, defaultVia, history>>

(* Mutant: the conditions of the interface are not carried over. *)
WireUnimpaired(c) ==
    LET o == call[c] IN
    /\ Holds(c, "replug", "kernel") /\ o.r \in routers
    /\ kern' = [kern EXCEPT ![o.i] = Plugged(o.r, o.addr, NoCond)]
    /\ route' = IF o.dflt /\ route = NoRoute THEN RouteVia(o.i, o.r) ELSE route
    /\ lost' = (lost /\ ~o.dflt)
    /\ call' = [call EXCEPT ![c].at = "commit"]
    /\ UNCHANGED <<core, lock, failed, stale>>

(* wire_iface_async: Netlink::add_default_route_v4 takes "exists" for done. *)
WireReplugged(c) ==
    LET o == call[c] IN
    /\ Holds(c, "replug", "kernel")
    /\ \/ /\ o.r \in routers
          /\ kern' = [kern EXCEPT ![o.i] = Plugged(o.r, o.addr, o.c)]
          /\ route' = IF o.dflt /\ route = NoRoute THEN RouteVia(o.i, o.r) ELSE route
          /\ lost' = (lost /\ ~o.dflt)
          /\ call' = [call EXCEPT ![c].at = "commit"]
          /\ UNCHANGED <<core, lock, failed, stale>>
       \/ o.r \notin routers /\ Fail(c) /\ UNCHANGED kernel

(* Mutant: the uplink copied by prepare is recorded unchecked. *)
FinishUnchecked(c) ==
    LET o == call[c] IN
    /\ Holds(c, "replug", "commit")
    /\ uplink' = [uplink EXCEPT ![o.i] = o.r]
    /\ ip' = [ip EXCEPT ![o.i] = o.addr]
    /\ Return(c)
    /\ UNCHANGED <<routers, order, egress, ingress, defaultVia, allocated, kernel, history>>

FinishReplug(c) ==
    LET o == call[c] IN
    /\ Holds(c, "replug", "commit")
    /\ \/ /\ o.r \in routers
          /\ uplink' = [uplink EXCEPT ![o.i] = o.r]
          /\ ip' = [ip EXCEPT ![o.i] = o.addr]
          /\ Return(c)
          /\ UNCHANGED <<routers, order, egress, ingress, defaultVia, allocated,
                         kernel, history>>
       \/ o.r \notin routers /\ Fail(c) /\ UNCHANGED kernel

----------------------------------------------------------------------------
(* remove: take the interface off the record, then delete the pair.        *)

(* Mutant: the default is not moved off the removed interface. *)
RemoveOnly(c) == \E k \in DOMAIN order :
    LET i == order[k] IN
    /\ Ready(c) /\ Len(order) > 1
    /\ order' = RemoveAt(order, k)
    /\ uplink' = [uplink EXCEPT ![i] = NoRouter]
    /\ ip' = [ip EXCEPT ![i] = 0]
    /\ egress' = [egress EXCEPT ![i] = NoCond]
    /\ ingress' = [ingress EXCEPT ![i] = NoCond]
    /\ Enter(c, Work("remove", i, NoRouter))
    /\ UNCHANGED <<routers, defaultVia, allocated, kernel, history>>

RemoveIface(c) == \E k \in DOMAIN order :
    LET i == order[k] IN
    /\ Ready(c) /\ Len(order) > 1
    /\ order' = RemoveAt(order, k)
    /\ defaultVia' = IF defaultVia = i THEN order'[1] ELSE defaultVia
    /\ lost' = (lost \/ defaultVia = i)
    /\ Enter(c, Work("remove", i, NoRouter))
    /\ uplink' = [uplink EXCEPT ![i] = NoRouter]
    /\ ip' = [ip EXCEPT ![i] = 0]
    /\ egress' = [egress EXCEPT ![i] = NoCond]
    /\ ingress' = [ingress EXCEPT ![i] = NoCond]
    /\ UNCHANGED <<routers, allocated, kernel, failed, stale>>

Unplug(c) ==
    LET i == call[c].i IN
    /\ Holds(c, "remove", "kernel")
    /\ kern' = [kern EXCEPT ![i] = Absent]
    /\ route' = FlushedOf(i)
    /\ Return(c)
    /\ UNCHANGED <<core, history>>

----------------------------------------------------------------------------
(* set_condition and clear_condition: copy the namespace of the gateway,   *)
(* then set the device's end, the gateway's end, and the record.           *)

BeginCondition(c) ==
    \E i \in Recorded, x \in Conds \cup {NoCond}, d \in Directions :
        /\ uplink[i] \in routers
        /\ Begin(c, [Work("condition", i, uplink[i]) EXCEPT !.c = x, !.dir = d])

SetEgress(c) ==
    LET o == call[c] IN
    /\ Waited(c, "condition")
    /\ kern' = IF o.dir # "ingress" THEN EgressSet(o.i, o.c) ELSE kern
    /\ Enter(c, o)
    /\ stale' = (stale \/ o.i \notin Recorded \/ o.r # uplink[o.i])
    /\ UNCHANGED <<core, route, lost, failed>>

SetIngress(c) ==
    LET o == call[c]
        rec(f, sides) == IF o.i \in Recorded /\ o.dir \in sides
                         THEN [f EXCEPT ![o.i] = o.c] ELSE f IN
    /\ Holds(c, "condition", "kernel")
    /\ kern' = IF o.dir # "egress" THEN IngressSet(o.i, o.r, o.c) ELSE kern
    /\ egress' = rec(egress, {"egress", "both"})
    /\ ingress' = rec(ingress, {"ingress", "both"})
    /\ Return(c)
    /\ UNCHANGED <<routers, order, uplink, ip, defaultVia, allocated, route, history>>

----------------------------------------------------------------------------
(* add_iface: record the interface with a fresh address, then wire it.     *)

(* Mutant: the name is not checked against the device's interfaces. *)
AddDuplicate(c) == \E i \in Ifaces, r \in routers :
    /\ Ready(c)
    /\ allocated < MaxAddrs
    /\ allocated' = allocated + 1
    /\ order' = Append(order, i)
    /\ uplink' = [uplink EXCEPT ![i] = r]
    /\ ip' = [ip EXCEPT ![i] = allocated + 1]
    /\ Enter(c, Work("add", i, r))
    /\ UNCHANGED <<routers, egress, ingress, defaultVia, kernel, history>>

AddIface(c) == \E i \in Ifaces \ Recorded, r \in routers :
    /\ Ready(c)
    /\ allocated < MaxAddrs
    /\ allocated' = allocated + 1
    /\ order' = Append(order, i)
    /\ uplink' = [uplink EXCEPT ![i] = r]
    /\ ip' = [ip EXCEPT ![i] = allocated + 1]
    /\ Enter(c, Work("add", i, r))
    /\ UNCHANGED <<routers, egress, ingress, defaultVia, kernel, history>>

WireAdded(c) ==
    LET o == call[c] IN
    /\ Holds(c, "add", "kernel")
    /\ kern' = [kern EXCEPT ![o.i] = Plugged(o.r, ip[o.i], NoCond)]
    /\ Return(c)
    /\ UNCHANGED <<core, route, history>>

----------------------------------------------------------------------------
(* Lab::remove_router: refused while a device is connected; otherwise the  *)
(* record goes, then the namespace, and with it every pair into it.        *)

Connected(r) == \E i \in Recorded : uplink[i] = r

RemoveRouter(r) ==
    /\ r \in routers /\ ~Connected(r)
    /\ routers' = routers \ {r}
    /\ kern' = [i \in Ifaces |-> IF kern[i].gw = r THEN Absent ELSE kern[i]]
    /\ route' = IF route.gw = r THEN NoRoute ELSE route
    /\ UNCHANGED <<order, uplink, ip, egress, ingress, defaultVia, allocated,
                   lock, call, history>>

Next ==
    \/ \E c \in Clients :
         \/ SetDefaultLookup(c) \/ SetDefaultRoute(c)
         \/ LinkDown(c) \/ BeginLinkUp(c) \/ LinkUp(c) \/ LinkUpRoute(c) \/ AddIp(c)
         \/ RenewIp(c) \/ ReplaceAddr(c)
         \/ Replug(c) \/ WireReplugged(c) \/ FinishReplug(c)
         \/ RemoveIface(c) \/ Unplug(c)
         \/ BeginCondition(c) \/ SetEgress(c) \/ SetIngress(c)
         \/ AddIface(c) \/ WireAdded(c)
    \/ \E r \in Routers : RemoveRouter(r)

Spec == Init /\ [][Next]_vars

----------------------------------------------------------------------------
Settled == lock = Free /\ ~failed /\ ~stale

(* A recorded interface's uplink switch belongs to a router of the lab:    *)
(* remove_router's check cannot be overtaken by a replug or an add that    *)
(* was already past its own, although remove_router takes no op mutex.     *)
UplinksExist == \A i \in Recorded : uplink[i] \in routers

(* Between operations, when none has failed half way or worked from a      *)
(* stale copy, the namespace is wired as the record says: every recorded   *)
(* interface plugged into its router with its address and egress condition, *)
(* nothing left of the others.  The ingress condition is the recorded one  *)
(* or, after a replug, none.                                               *)
KernelMatches == Settled => \A i \in Ifaces :
    IF i \in Recorded
    THEN /\ kern[i].gw = uplink[i] /\ kern[i].addr = ip[i]
         /\ kern[i].eg = egress[i] /\ kern[i].in \in {ingress[i], NoCond}
    ELSE kern[i] = Absent

(* Between such operations a default route is through the default          *)
(* interface and its router, and it is there while that interface is up,   *)
(* unless renew_ip or remove dropped it.                                   *)
RouteFollowsDefault == Settled =>
    /\ route \in {NoRoute, RouteVia(defaultVia, uplink[defaultVia])}
    /\ kern[defaultVia].up /\ ~lost => route # NoRoute

(* A removed interface's name is free again only once its pair is gone: no *)
(* pair is wired over another one.                                         *)
NoPairOverPair == [][\A i \in Ifaces :
    kern'[i].gw # kern[i].gw => NoRouter \in {kern[i].gw, kern'[i].gw}]_vars

----------------------------------------------------------------------------
(* What the documentation says and the code does not do. *)
============================================================================
