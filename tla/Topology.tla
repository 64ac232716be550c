----------------------------- MODULE Topology -----------------------------
(* The topology of a lab (core.rs, lab.rs, and the builders in router.rs    *)
(* and device.rs): nodes, names, switches, the IPv4 allocators, and the     *)
(* namespaces and routes that a build leaves in the kernel.  Every access   *)
(* to the core holds one mutex, but a build registers its node under it,    *)
(* sets the kernel up without it, and takes it again to publish the node:   *)
(* other tasks add and remove nodes in between.  A panic with the mutex     *)
(* held poisons it, and every later call panics too.                        *)
(* IPv6 pools follow the same steps with wider counters and are left out.   *)
EXTENDS Naturals, Sequences, FiniteSets

CONSTANTS
    Tasks,      \* concurrent callers
    Names,      \* names given to routers and devices
    Regions,    \* names given to regions
    Ifaces,     \* names given to interfaces
    Starts,     \* counters of the pools at first: Fresh, or after routers that
                \* were built before and are gone
    MaxOps      \* bound: calls, failing commands and dropped builders

ASSUME TopologyAssumption ==
    /\ MaxOps \in Nat
    /\ Starts \subseteq [private : Nat \ {0}, public : Nat \ {0}, ix : 10..255, region : {1}]

VARIABLES
    nextId,     \* NetworkCore.next_id
    pools,      \* next_private_subnet, next_public_subnet, next_ix_low, next_region_idx
    names,      \* nodes_by_name
    routers,    \* the routers by id
    switches,   \* the switches by id
    devices,    \* the devices by id
    regions,    \* the regions by name
    ns,         \* kernel: namespaces by node id, each with its /24 and /20 routes
    task,       \* what each caller is doing
    panic,      \* where a task panicked with the core locked
    shared,     \* names that two nodes had at a time
    left        \* calls that may still be made

coreVars == <<nextId, pools, names, routers, switches, devices, regions, shared>>
vars == <<nextId, pools, names, routers, switches, devices, regions, ns, task,
          panic, shared, left>>

-----------------------------------------------------------------------------
(* Addresses: 10.0.N.0/24 and 198.18.N.0/24 by their block and third octet. *)

NoNode == 0
RootNs == 0
Ix == 1
LastRegion == 16
FirstHost == 2
RegionFirstHost == 10
HostEnd == 255

Cidr(b, third) == [block |-> b, third |-> third]
NoCidr == Cidr("none", 0)
IxCidr == Cidr("public", 0)
Addr(c, h) == [net |-> c, host |-> h]
NoAddr == Addr(NoCidr, 0)

\* The counters of a new lab.
Fresh == [private |-> 1, public |-> 1, ix |-> 10, region |-> 1]

Put(f, k, v) == [x \in DOMAIN f \cup {k} |-> IF x = k THEN v ELSE f[x]]
Drop(f, k) == [x \in DOMAIN f \ {k} |-> f[x]]

SubName(n) == n \o "-sub"
RegionRouter(g) == "region_" \o g

\* A node and its switch have different names.
ASSUME NamesAssumption ==
    \A n \in Names \cup {RegionRouter(g) : g \in Regions} : SubName(n) # n

\* The names that live nodes have.
Carried == {routers[i].name : i \in DOMAIN routers} \cup {devices[i].name : i \in DOMAIN devices}
           \cup {switches[i].name : i \in DOMAIN switches}

RouterByName(n) == n \in DOMAIN names /\ names[n] \in DOMAIN routers
DeviceByName(n) == n \in DOMAIN names /\ names[n] \in DOMAIN devices

IdleTask == [at |-> "idle", id |-> NoNode, name |-> "none", region |-> "none",
             upstream |-> NoNode, pool |-> "none", iface |-> "none",
             net |-> NoCidr, addr |-> NoAddr]

Idle(t) == task[t].at = "idle"
Start(t, r) == /\ Idle(t) /\ panic = "none" /\ left > 0
               /\ left' = left - 1
               /\ task' = [task EXCEPT ![t] = r]
Call(t, at) == panic = "none" /\ task[t].at = at /\ UNCHANGED left
Goto(t, at) == task' = [task EXCEPT ![t].at = at]
Done(t) == task' = [task EXCEPT ![t] = IdleTask]

\* Lab::with_opts: the core has the IX switch and the root namespace exists.
Init ==
    /\ nextId = 2
    /\ pools \in Starts
    /\ names = [n \in {"ix"} |-> Ix]
    /\ switches = [i \in {Ix} |-> [name |-> "ix", cidr |-> IxCidr, owner |-> NoNode, next |-> FirstHost]]
    /\ routers = [i \in {} |-> NoNode] /\ devices = [i \in {} |-> NoNode]
    /\ regions = [g \in {} |-> NoNode]
    /\ ns = [i \in {RootNs} |-> {}]
    /\ task = [t \in Tasks |-> IdleTask]
    /\ panic = "none" /\ shared = {}
    /\ left = MaxOps

-----------------------------------------------------------------------------
(* Registration of routers.                                                 *)

\* A call of .region() makes the region's router the upstream.
Places ==
    {[region |-> "none", upstream |-> u] : u \in DOMAIN routers \cup {NoNode}}
    \cup {[region |-> g, upstream |-> regions[g].router] : g \in DOMAIN regions}

\* Lab::add_router refuses a name that a router has; nothing is registered.
AddRouter(t, n, p, where) ==
    /\ ~RouterByName(n)
    /\ Start(t, [IdleTask EXCEPT !.at = "router", !.name = n, !.pool = p,
                                 !.region = where.region, !.upstream = where.upstream])
    /\ UNCHANGED <<coreVars, ns, panic>>

RouterRec(n, g, p, s, c) ==
    [name |-> n, region |-> g, pool |-> p, downlink |-> s, cidr |-> c,
     uplink |-> NoNode, up |-> NoAddr, ready |-> FALSE]

SwitchRec(n, c, r, h) == [name |-> SubName(n), cidr |-> c, owner |-> r, next |-> h]

\* Mutant: a name that is mapped already keeps its id.
RegisterVacant(n) ==
    /\ nextId' = nextId + 2
    /\ names' = LET all == Put(Put(names, n, nextId), SubName(n), nextId + 1)
                IN [x \in DOMAIN all |-> IF x \in DOMAIN names THEN names[x] ELSE all[x]]
    /\ shared' = shared \cup ({n, SubName(n)} \cap Carried)

\* add_router and add_switch: two ids, two names, whoever had them before.
RegisterNames(n) ==
    /\ nextId' = nextId + 2
    /\ names' = Put(Put(names, n, nextId), SubName(n), nextId + 1)
    /\ shared' = shared \cup ({n, SubName(n)} \cap Carried)

\* A region's /24s go to its public routers; others share the lab's pools.
Regional(b) == b.pool = "public" /\ b.region \in DOMAIN regions
BlockFull(b) == Regional(b) /\ regions[b.region].next > 15
\* Mutant: the first /24 of a region is handed out, which its bridge has.
SubnetFromZero(b) ==
    IF Regional(b)
    THEN Cidr("public", regions[b.region].idx * 16 + regions[b.region].next - 1)
    ELSE Cidr(b.pool, pools[b.pool] % 256)

Subnet(b) ==
    IF Regional(b)
    THEN Cidr("public", (regions[b.region].idx * 16 + regions[b.region].next) % 256)
    ELSE Cidr(b.pool, pools[b.pool] % 256)
TakeSubnet(b) ==
    IF Regional(b) THEN /\ regions' = [regions EXCEPT ![b.region].next = @ + 1]
                        /\ UNCHANGED pools
    ELSE pools' = [pools EXCEPT ![b.pool] = @ + 1] /\ UNCHANGED regions

\* The switch above a router, or NoNode when the parent is gone or has none.
Above(b) == IF b.upstream = NoNode THEN Ix
            ELSE IF b.upstream \in DOMAIN routers THEN routers[b.upstream].downlink ELSE NoNode

HostsLeft(s) == s \in DOMAIN switches /\ switches[s].next < HostEnd
NextHost(s) == Addr(switches[s].cidr, switches[s].next)
TakeHost(s) == [switches EXCEPT ![s].next = @ + 1]

\* The region's pool is empty: the router has no downlink but its names.
BuildNoBlock(t) ==
    LET b == task[t] IN
    /\ Call(t, "router") /\ BlockFull(b)
    /\ RegisterNames(b.name)
    /\ routers' = Put(routers, nextId, RouterRec(b.name, b.region, b.pool, NoNode, NoCidr))
    /\ switches' = Put(switches, nextId + 1, SwitchRec(b.name, NoCidr, NoNode, FirstHost))
    /\ Done(t)
    /\ UNCHANGED <<pools, devices, regions, ns, panic>>

\* No address on the IX, or the parent is gone or full: an error, but the
\* router stays, with its subnet.
BuildNoUplink(t) ==
    LET b == task[t] IN
    /\ Call(t, "router") /\ ~BlockFull(b)
    /\ IF Above(b) = Ix THEN pools.ix = HostEnd ELSE ~HostsLeft(Above(b))
    /\ RegisterNames(b.name) /\ TakeSubnet(b)
    /\ routers' = Put(routers, nextId, RouterRec(b.name, b.region, b.pool, nextId + 1, Subnet(b)))
    /\ switches' = Put(switches, nextId + 1, SwitchRec(b.name, Subnet(b), nextId, FirstHost))
    /\ Done(t)
    /\ UNCHANGED <<devices, ns, panic>>

\* Registered with an address above; the snapshot for the setup unwraps the
\* switch above and its owner.
BuildConnected(t) ==
    LET b == task[t]
        s == Above(b)
        up == IF s = Ix THEN Addr(IxCidr, pools.ix) ELSE NextHost(s)
        owner == IF s = Ix THEN NoNode ELSE switches[s].owner
        rec == RouterRec(b.name, b.region, b.pool, nextId + 1, Subnet(b))
    IN
    /\ Call(t, "router") /\ ~BlockFull(b)
    /\ IF s = Ix THEN pools.ix < HostEnd ELSE HostsLeft(s)
    /\ RegisterNames(b.name)
    /\ IF Regional(b) THEN regions' = [regions EXCEPT ![b.region].next = @ + 1]
                      ELSE UNCHANGED regions
    /\ pools' = [(IF Regional(b) THEN pools ELSE [pools EXCEPT ![b.pool] = @ + 1])
                    EXCEPT !.ix = IF s = Ix THEN @ + 1 ELSE @]
    /\ routers' = Put(routers, nextId, [rec EXCEPT !.uplink = s, !.up = up])
    /\ switches' = Put(IF s = Ix THEN switches ELSE TakeHost(s), nextId + 1,
                       SwitchRec(b.name, Subnet(b), nextId, FirstHost))
    /\ panic' = IF s = Ix \/ owner \in DOMAIN routers THEN panic ELSE "upstream"
    /\ task' = [task EXCEPT ![t] = [b EXCEPT !.at = "create", !.id = nextId,
                                            !.upstream = owner, !.net = Subnet(b), !.addr = up]]
    /\ UNCHANGED <<devices, ns>>

\* Lab::add_region: its router has no region, its switch the first /24 of its
\* /20, its hosts start at .10, and its uplink is the IX.
RegionRec(g, third) == RouterRec(RegionRouter(g), "none", "public", nextId + 1, Cidr("public", third))

RegionRegistered(t, g, third) ==
    /\ g \notin DOMAIN regions /\ pools.region <= LastRegion
    /\ RegisterNames(RegionRouter(g))
    /\ switches' = Put(switches, nextId + 1,
                       SwitchRec(RegionRouter(g), Cidr("public", third), nextId, RegionFirstHost))
    /\ UNCHANGED <<devices, ns>>

\* idx * 16 wraps for region 16 in a build without overflow checks.
AddRegion(t, g) ==
    LET third == (pools.region * 16) % 256
        up == Addr(IxCidr, pools.ix)
    IN
    /\ pools.ix < HostEnd
    /\ Start(t, [IdleTask EXCEPT !.at = "create", !.id = nextId, !.name = RegionRouter(g),
                                 !.region = g, !.net = Cidr("public", third), !.addr = up])
    /\ RegionRegistered(t, g, third)
    /\ routers' = Put(routers, nextId, [RegionRec(g, third) EXCEPT !.uplink = Ix, !.up = up])
    /\ regions' = Put(regions, g, [idx |-> pools.region, router |-> nextId, next |-> 1])
    /\ pools' = [pools EXCEPT !.region = @ + 1, !.ix = @ + 1]
    /\ UNCHANGED panic

\* No address on the IX: the router stays, the region does not exist.
AddRegionNoAddress(t, g) ==
    LET third == (pools.region * 16) % 256 IN
    /\ pools.ix = HostEnd
    /\ Start(t, IdleTask)
    /\ RegionRegistered(t, g, third)
    /\ routers' = Put(routers, nextId, RegionRec(g, third))
    /\ pools' = [pools EXCEPT !.region = @ + 1]
    /\ UNCHANGED <<regions, panic>>

\* With overflow checks the computation panics under the mutex, after the
\* router got its name and before its switch exists.
AddRegionOverflow(t, g) ==
    /\ g \notin DOMAIN regions /\ pools.region = LastRegion
    /\ Start(t, IdleTask)
    /\ pools' = [pools EXCEPT !.region = @ + 1]
    /\ nextId' = nextId + 1
    /\ names' = Put(names, RegionRouter(g), nextId)
    /\ shared' = shared \cup ({RegionRouter(g)} \cap Carried)
    /\ routers' = Put(routers, nextId, RouterRec(RegionRouter(g), "none", "public", NoNode, NoCidr))
    /\ panic' = "region"
    /\ UNCHANGED <<switches, devices, regions, ns>>

-----------------------------------------------------------------------------
(* Setup of routers in the kernel, without the mutex.                       *)

IsRegion(t) == task[t].region \in DOMAIN regions /\ regions[task[t].region].router = task[t].id

\* create_named_netns
SetupCreate(t) ==
    /\ Call(t, "create")
    /\ ns' = Put(ns, task[t].id, {})
    /\ Goto(t, "uplink")
    /\ UNCHANGED <<coreVars, panic>>

\* The veth to the IX or to the parent needs both namespaces.
SetupUplink(t) ==
    /\ Call(t, "uplink")
    /\ {task[t].id, task[t].upstream} \subseteq DOMAIN ns
    /\ Goto(t, "routes")
    /\ UNCHANGED <<coreVars, ns, panic>>

\* add_route_v4(..).await.ok(): a prefix that has a route keeps it.
Route(third, len, via) == [third |-> third, len |-> len, via |-> via]
WithRoute(table, r) ==
    IF \E q \in table : q.third = r.third /\ q.len = r.len THEN table ELSE table \cup {r}

\* Mutant: no route in the namespace of a parent.
SetupRootRoutes(t) ==
    LET c == task[t].net IN
    /\ Call(t, "routes")
    /\ task[t].id \in DOMAIN ns
    /\ ns' = IF c.block = "public" /\ task[t].upstream = RootNs
             THEN [ns EXCEPT ![RootNs] = WithRoute(@, Route(c.third, 24, task[t].addr))]
             ELSE ns
    /\ Goto(t, IF IsRegion(t) THEN "aggregate" ELSE "publish")
    /\ UNCHANGED <<coreVars, panic>>

\* The bridge, then the way back to a public subnet: in the root namespace
\* for a router on the IX, in the parent's for a sub-router.
SetupRoutes(t) ==
    LET c == task[t].net IN
    /\ Call(t, "routes")
    /\ task[t].id \in DOMAIN ns
    /\ ns' = IF c.block = "public" /\ task[t].upstream \in DOMAIN ns
             THEN [ns EXCEPT ![task[t].upstream] = WithRoute(@, Route(c.third, 24, task[t].addr))]
             ELSE ns
    /\ Goto(t, IF IsRegion(t) THEN "aggregate" ELSE "publish")
    /\ UNCHANGED <<coreVars, panic>>

\* A namespace was removed, or a command failed: the records stay.
SetupFails(t) ==
    /\ panic = "none" /\ task[t].at \in {"uplink", "routes", "wire"}
    /\ IF task[t].at # "wire" /\ ~({task[t].id, task[t].upstream} \subseteq DOMAIN ns)
       THEN UNCHANGED left ELSE left > 0 /\ left' = left - 1
    /\ Done(t)
    /\ UNCHANGED <<coreVars, ns, panic>>

\* RouterAdded: the record is unwrapped under the mutex.
PublishRouter(t) ==
    /\ Call(t, "publish")
    /\ IF task[t].id \in DOMAIN routers
       THEN routers' = [routers EXCEPT ![task[t].id].ready = TRUE] /\ UNCHANGED panic
       ELSE panic' = "publish" /\ UNCHANGED routers
    /\ Done(t)
    /\ UNCHANGED <<nextId, pools, names, switches, devices, regions, shared, ns>>

\* add_region, phase 3: the /20 of the region in the root namespace.
\* region_base panics for region 16, here without the mutex.
PublishRegion(t) ==
    LET idx == regions[task[t].region].idx IN
    /\ Call(t, "aggregate")
    /\ IF idx = LastRegion THEN UNCHANGED <<ns, routers>>
       ELSE /\ ns' = [ns EXCEPT ![RootNs] = WithRoute(@, Route(idx * 16, 20, task[t].addr))]
            /\ routers' = IF task[t].id \notin DOMAIN routers THEN routers
                          ELSE [routers EXCEPT ![task[t].id].ready = TRUE]
    /\ Done(t)
    /\ UNCHANGED <<nextId, pools, names, switches, devices, regions, shared, panic>>

-----------------------------------------------------------------------------
(* Devices.  A device is registered when its builder is made, and gets its  *)
(* interfaces one call at a time.                                           *)

AddDevice(t, n) ==
    /\ ~DeviceByName(n)
    /\ Start(t, [IdleTask EXCEPT !.at = "device", !.name = n, !.id = nextId])
    /\ nextId' = nextId + 1
    /\ names' = Put(names, n, nextId)
    /\ shared' = shared \cup ({n} \cap Carried)
    /\ devices' = Put(devices, nextId, [name |-> n, ifaces |-> [i \in {} |-> NoNode]])
    /\ UNCHANGED <<pools, routers, switches, regions, ns, panic>>

Downlink(r) == IF r \in DOMAIN routers THEN routers[r].downlink ELSE NoNode

\* add_device_iface: the address, then an id, then the record.
AddIface(t, i, r) ==
    LET d == task[t].id IN
    /\ Call(t, "device") /\ HostsLeft(Downlink(r))
    /\ d \in DOMAIN devices /\ i \notin DOMAIN devices[d].ifaces
    /\ switches' = TakeHost(Downlink(r))
    /\ nextId' = nextId + 1
    /\ devices' = [devices EXCEPT ![d].ifaces =
                       Put(@, i, [sw |-> Downlink(r), ip |-> NextHost(Downlink(r))])]
    /\ UNCHANGED <<pools, names, routers, regions, shared, ns, task, panic>>

\* The device or the router is gone, the pool is empty or the name is taken:
\* the builder keeps the error, and what was allocated is spent.
AddIfaceFails(t, i, r) ==
    LET d == task[t].id IN
    /\ Call(t, "device")
    /\ d \in DOMAIN devices => i \in DOMAIN devices[d].ifaces \/ ~HostsLeft(Downlink(r))
    /\ IF HostsLeft(Downlink(r)) THEN switches' = TakeHost(Downlink(r)) /\ nextId' = nextId + 1
                                 ELSE UNCHANGED <<switches, nextId>>
    /\ Done(t)
    /\ UNCHANGED <<pools, names, routers, devices, regions, shared, ns, panic>>

\* A builder is dropped: the device stays registered.
Abandon(t) ==
    /\ panic = "none" /\ task[t].at = "device" /\ left > 0 /\ left' = left - 1
    /\ Done(t)
    /\ UNCHANGED <<coreVars, ns, panic>>

\* DeviceBuilder::build takes the snapshot: a missing switch or owner is an
\* error, the router of the owner is unwrapped.
BuildDevice(t) ==
    LET d == task[t].id
        used == {devices[d].ifaces[i].sw : i \in DOMAIN devices[d].ifaces}
        found == used \subseteq DOMAIN switches /\ \A s \in used : switches[s].owner # NoNode
    IN
    /\ Call(t, "device")
    /\ IF d \notin DOMAIN devices \/ ~found THEN Done(t) /\ UNCHANGED panic
       ELSE /\ Goto(t, "wire")
            /\ panic' = IF \A s \in used : switches[s].owner \in DOMAIN routers THEN panic ELSE "gateway"
    /\ UNCHANGED <<coreVars, ns>>

\* setup_device_async: the namespace, and veths to the gateways' namespaces.
SetupDevice(t) ==
    /\ Call(t, "wire")
    /\ ns' = Put(ns, task[t].id, {})
    /\ Goto(t, "announce")
    /\ UNCHANGED <<coreVars, panic>>

\* DeviceAdded: .expect("device just created") under the mutex.
PublishDevice(t) ==
    /\ Call(t, "announce")
    /\ panic' = IF task[t].id \in DOMAIN devices THEN panic ELSE "publish"
    /\ Done(t)
    /\ UNCHANGED <<coreVars, ns>>

-----------------------------------------------------------------------------
(* Removal, and the operations of devices that change what they refer to.   *)

Attached(s) == {d \in DOMAIN devices : \E i \in DOMAIN devices[d].ifaces : devices[d].ifaces[i].sw = s}

\* The name goes even when another node has it by now.
RemoveDevice(t, d) ==
    /\ Start(t, [IdleTask EXCEPT !.at = "close", !.id = d])
    /\ names' = Drop(names, devices[d].name)
    /\ devices' = Drop(devices, d)
    /\ UNCHANGED <<nextId, pools, routers, switches, regions, shared, ns, panic>>

\* Mutant: no look at the devices on the router's switch.
RemoveRouterUnasked(t, r) ==
    /\ Start(t, [IdleTask EXCEPT !.at = "close", !.id = r])
    /\ names' = Drop(names, routers[r].name)
    /\ routers' = Drop(routers, r)
    /\ switches' = Drop(switches, routers[r].downlink)
    /\ UNCHANGED <<nextId, pools, devices, regions, shared, ns, panic>>

\* Refused while a device is on its switch; sub-routers and regions are not
\* looked at, and the name of the switch stays.
RemoveRouter(t, r) ==
    /\ Start(t, [IdleTask EXCEPT !.at = "close", !.id = r])
    /\ Attached(routers[r].downlink) = {}
    /\ names' = Drop(names, routers[r].name)
    /\ routers' = Drop(routers, r)
    /\ switches' = Drop(switches, routers[r].downlink)
    /\ UNCHANGED <<nextId, pools, devices, regions, shared, ns, panic>>

\* netns.remove_worker, after the mutex was released.
CloseNamespace(t) ==
    /\ Call(t, "close")
    /\ ns' = Drop(ns, task[t].id)
    /\ Done(t)
    /\ UNCHANGED <<coreVars, panic>>

\* One operation at a time holds the device's op mutex.
OpFree(d) == \A t \in Tasks : ~(task[t].at = "replug" /\ task[t].id = d)

\* Mutant: the next address is looked at but only taken at the end.
ReplugPeek(t, d, i, r) ==
    /\ OpFree(d) /\ i \in DOMAIN devices[d].ifaces /\ HostsLeft(Downlink(r))
    /\ Start(t, [IdleTask EXCEPT !.at = "replug", !.id = d, !.iface = i, !.upstream = r,
                                 !.addr = NextHost(Downlink(r))])
    /\ UNCHANGED <<coreVars, ns, panic>>

ReplugPrepare(t, d, i, r) ==
    /\ OpFree(d) /\ i \in DOMAIN devices[d].ifaces /\ HostsLeft(Downlink(r))
    /\ Start(t, [IdleTask EXCEPT !.at = "replug", !.id = d, !.iface = i, !.upstream = r,
                                 !.addr = NextHost(Downlink(r))])
    /\ switches' = TakeHost(Downlink(r))
    /\ UNCHANGED <<nextId, pools, names, routers, devices, regions, shared, ns, panic>>

\* finish_replug_iface looks both up again: each may be gone.
ReplugFinish(t) ==
    LET d == task[t].id
        s == Downlink(task[t].upstream)
    IN
    /\ Call(t, "replug")
    /\ devices' = IF s = NoNode \/ d \notin DOMAIN devices \/ task[t].iface \notin DOMAIN devices[d].ifaces
                  THEN devices
                  ELSE [devices EXCEPT ![d].ifaces =
                           Put(@, task[t].iface, [sw |-> s, ip |-> task[t].addr])]
    /\ Done(t)
    /\ UNCHANGED <<nextId, pools, names, routers, switches, regions, shared, ns, panic>>

RenewIp(t, d, i) ==
    LET s == devices[d].ifaces[i].sw IN
    /\ OpFree(d) /\ HostsLeft(s)
    /\ Start(t, IdleTask)
    /\ switches' = TakeHost(s)
    /\ devices' = [devices EXCEPT ![d].ifaces = Put(@, i, [sw |-> s, ip |-> NextHost(s)])]
    /\ UNCHANGED <<nextId, pools, names, routers, regions, shared, ns, panic>>

RemoveIface(t, d, i) ==
    /\ OpFree(d) /\ DOMAIN devices[d].ifaces # {i}
    /\ Start(t, IdleTask)
    /\ devices' = [devices EXCEPT ![d].ifaces = Drop(@, i)]
    /\ UNCHANGED <<nextId, pools, names, routers, switches, regions, shared, ns, panic>>

\* prepare_link_regions and prepare_break_region_link unwrap both routers;
\* RegionLinks models the links.
LinkRegions(t, g, h) ==
    /\ g # h
    /\ Start(t, IdleTask)
    /\ panic' = IF {regions[g].router, regions[h].router} \subseteq DOMAIN routers THEN panic ELSE "region link"
    /\ UNCHANGED <<coreVars, ns>>

-----------------------------------------------------------------------------

BuildStep(t) == BuildNoBlock(t) \/ BuildNoUplink(t) \/ BuildConnected(t)
SetupStep(t) ==
    \/ SetupCreate(t) \/ SetupUplink(t) \/ SetupRoutes(t) \/ SetupFails(t)
    \/ PublishRouter(t) \/ PublishRegion(t)
DeviceStep(t) ==
    \/ \E i \in Ifaces, r \in DOMAIN routers : AddIface(t, i, r)
    \/ \E i \in Ifaces, r \in DOMAIN routers : AddIfaceFails(t, i, r)
    \/ Abandon(t) \/ BuildDevice(t) \/ SetupDevice(t) \/ PublishDevice(t)
CallStep(t) ==
    \/ \E n \in Names, p \in {"private", "public"}, w \in Places : AddRouter(t, n, p, w)
    \/ \E g \in Regions : AddRegion(t, g) \/ AddRegionNoAddress(t, g) \/ AddRegionOverflow(t, g)
    \/ \E n \in Names : AddDevice(t, n)
    \/ \E r \in DOMAIN routers : RemoveRouter(t, r)
    \/ \E g \in DOMAIN regions, h \in DOMAIN regions : LinkRegions(t, g, h)
    \/ \E d \in DOMAIN devices : RemoveDevice(t, d)
    \/ \E d \in DOMAIN devices, i \in Ifaces, r \in DOMAIN routers : ReplugPrepare(t, d, i, r)
    \/ \E d \in DOMAIN devices : \E i \in DOMAIN devices[d].ifaces : RenewIp(t, d, i) \/ RemoveIface(t, d, i)

Next == \E t \in Tasks :
    \/ CallStep(t) \/ BuildStep(t) \/ SetupStep(t) \/ DeviceStep(t)
    \/ CloseNamespace(t) \/ ReplugFinish(t)

Spec == Init /\ [][Next]_vars

-----------------------------------------------------------------------------
(* What must hold.                                                          *)

\* No allocator has wrapped or run into the block of another: 256 private
\* subnets, 15 public ones before 198.18.16.0, the first /24 of region 1, and
\* 15 regions.
InPools == pools.private <= 257 /\ pools.public <= 16 /\ pools.region <= LastRegion

\* Two switches never have the same subnet, whatever was removed in between:
\* routes of removed routers stay behind and must not catch a new one's
\* packets (core.rs:1364-1390, 1490-1507).
SubnetsDisjoint ==
    InPools => \A s, u \in DOMAIN switches :
        s # u /\ switches[s].cidr = switches[u].cidr => switches[s].cidr = NoCidr

Attachments ==
    {<<r, "uplink">> : r \in {x \in DOMAIN routers : routers[x].up # NoAddr}}
    \cup UNION {{<<d, i>> : i \in DOMAIN devices[d].ifaces} : d \in DOMAIN devices}
AddressOf(a) == IF a[1] \in DOMAIN routers THEN routers[a[1]].up ELSE devices[a[1]].ifaces[a[2]].ip

\* No two attachments have one address: an address is spent by a failed call
\* and by a replug, and never given out again (core.rs:1392-1406).
AddressesUnique ==
    InPools => \A a, b \in Attachments : AddressOf(a) = AddressOf(b) => a = b

\* Every interface is on a switch whose router exists, however removals,
\* builders and replugs interleave: the unwraps under the mutex at
\* router.rs:1209 and device.rs:776 cannot panic.
UnwrapsHold ==
    /\ panic \notin {"upstream", "gateway"}
    /\ \A d \in DOMAIN devices : \A i \in DOMAIN devices[d].ifaces :
           LET s == devices[d].ifaces[i].sw IN s \in DOMAIN switches /\ switches[s].owner \in DOMAIN routers

\* A node is found by its name unless the name was given to another node while
\* a node had it: to a router and a device, to the switch of a router, or by
\* two builders at once (lab.rs:900, lab.rs:937, core.rs:1219).
NamesResolve ==
    /\ \A r \in DOMAIN routers : routers[r].name \in shared \/ (RouterByName(routers[r].name) /\ names[routers[r].name] = r)
    /\ \A d \in DOMAIN devices : devices[d].name \in shared \/ (DeviceByName(devices[d].name) /\ names[devices[d].name] = d)

\* Longest prefix first; the lab's routes are /24s and /20s.
Via(n, third) ==
    LET at(len) == {r \in ns[n] : r.len = len /\ (r.third = third \/ (len = 20 /\ r.third <= third /\ third < r.third + 16))}
    IN IF n \notin DOMAIN ns THEN {}
       ELSE {r.via : r \in IF at(24) # {} THEN at(24) ELSE at(20)}

Live(r) == r \in DOMAIN routers /\ r \in DOMAIN ns /\ routers[r].ready

\* Packets for a public subnet find their router again: through the root
\* namespace for a router on the IX, and through the /20 and the namespace of
\* the region for a router in a region, whatever other routers came and went
\* (router.rs:1246-1255, router.rs:1298-1318, lab.rs:1113-1131).
PublicRouted ==
    InPools => \A r \in DOMAIN routers :
        LET third == routers[r].cidr.third
            q == switches[routers[r].uplink].owner
        IN Live(r) /\ routers[r].pool = "public" =>
            /\ routers[r].uplink = Ix => Via(RootNs, third) = {routers[r].up}
            /\ routers[r].region \in DOMAIN regions /\ routers[r].uplink \in DOMAIN switches
                  /\ q = regions[routers[r].region].router /\ Live(q) =>
                  Via(RootNs, third) = {routers[q].up} /\ Via(q, third) = {routers[r].up}
=============================================================================
