--------------------------- MODULE TopologyProofs ---------------------------
(***************************************************************************)
(* A lab, for any number of callers, names and calls, and any start of the *)
(* pools: no subnet and no address is given out twice, a node is found by  *)
(* its name, what the builders unwrap is there, and packets for a public   *)
(* subnet find their router.                                               *)
(***************************************************************************)
EXTENDS Topology, TLAPS

(* The tables hold records, and ids that were given out are below nextId.   *)

IsTask(r) == r = [at |-> r.at, id |-> r.id, name |-> r.name, region |-> r.region,
                  upstream |-> r.upstream, pool |-> r.pool, iface |-> r.iface,
                  net |-> r.net, addr |-> r.addr]
IsSwitch(s) == s = [name |-> s.name, cidr |-> s.cidr, owner |-> s.owner, next |-> s.next]
IsRouter(r) == r = [name |-> r.name, region |-> r.region, pool |-> r.pool,
                    downlink |-> r.downlink, cidr |-> r.cidr, uplink |-> r.uplink,
                    up |-> r.up, ready |-> r.ready]
IsDevice(d) == d = [name |-> d.name, ifaces |-> d.ifaces]
IsBlock(g) == g = [idx |-> g.idx, router |-> g.router, next |-> g.next]
Table(f) == f = [x \in DOMAIN f |-> f[x]]

TasksOk ==
    /\ task = [t \in Tasks |-> task[t]]
    /\ \A t \in Tasks : IsTask(task[t])
    /\ \A t \in Tasks : task[t].at = "router" =>
           task[t].pool \in {"private", "public"} /\ task[t].name \in Names
PoolsOk ==
    /\ pools = [private |-> pools.private, public |-> pools.public, ix |-> pools.ix,
                region |-> pools.region]
    /\ pools.private \in Nat /\ pools.public \in Nat /\ pools.ix \in Nat /\ pools.region \in Nat
    /\ pools.private > 0 /\ pools.public > 0 /\ pools.region > 0
RegionsOk ==
    /\ Table(regions)
    /\ \A g \in DOMAIN regions :
         /\ IsBlock(regions[g])
         /\ regions[g].idx \in Nat /\ 0 < regions[g].idx /\ regions[g].idx < pools.region
         /\ regions[g].next \in Nat /\ 0 < regions[g].next /\ regions[g].next <= 16
    /\ \A g, h \in DOMAIN regions : regions[g].idx = regions[h].idx => g = h
SwitchesOk ==
    /\ Table(switches)
    /\ \A s \in DOMAIN switches : IsSwitch(switches[s]) /\ s \in Nat /\ s < nextId
NodesOk ==
    /\ nextId \in Nat
    /\ Table(routers) /\ Table(devices)
    /\ \A r \in DOMAIN routers : IsRouter(routers[r]) /\ r \in Nat /\ r < nextId
    /\ \A d \in DOMAIN devices : IsDevice(devices[d]) /\ d \in Nat /\ d < nextId
    /\ DOMAIN routers \cap DOMAIN devices = {}

Shapes == TasksOk /\ PoolsOk /\ RegionsOk /\ SwitchesOk /\ NodesOk

-----------------------------------------------------------------------------

LEMMA ShapesInit == Init => Shapes
<1> SUFFICES ASSUME Init PROVE Shapes
    OBVIOUS
<1>1. TasksOk
    BY DEF Init, TasksOk, IsTask, IdleTask
<1>2. PoolsOk
    <2>1. pools \in [private : Nat \ {0}, public : Nat \ {0}, ix : 10..255, region : 1..17]
        BY TopologyAssumption DEF Init
    <2> QED
        BY <2>1 DEF PoolsOk
<1>3. RegionsOk
    BY DEF Init, RegionsOk, Table
<1>4. SwitchesOk
    BY DEF Init, SwitchesOk, Table, IsSwitch, Ix
<1>5. NodesOk
    BY DEF Init, NodesOk, Table
<1> QED
    BY <1>1, <1>2, <1>3, <1>4, <1>5 DEF Shapes

LEMMA TasksStep == Shapes /\ [Next]_vars => TasksOk'
<1> SUFFICES ASSUME Shapes, [Next]_vars PROVE TasksOk'
    OBVIOUS
<1> USE DEF Shapes, TasksOk, IsTask, IdleTask, Call, Start, Idle, Goto, Done,
    coreVars
<1>1. ASSUME NEW t \in Tasks, NEW n \in Names, NEW p \in {"private", "public"}, NEW w \in Places,
             AddRouter(t, n, p, w)
      PROVE  TasksOk'
    BY <1>1 DEF AddRouter
<1>2. ASSUME NEW t \in Tasks, NEW g \in Regions,
             AddRegion(t, g)
      PROVE  TasksOk'
    <2>1. PICK c, u : task' = [task EXCEPT ![t] = [IdleTask EXCEPT !.at = "create", !.id = nextId,
                 !.name = RegionRouter(g), !.region = g, !.net = c, !.addr = u]]
        BY <1>2 DEF AddRegion
    <2> QED
        BY <2>1
<1>3. ASSUME NEW t \in Tasks, NEW g \in Regions,
             AddRegionNoAddress(t, g)
      PROVE  TasksOk'
    BY <1>3 DEF AddRegionNoAddress
<1>4. ASSUME NEW t \in Tasks, NEW g \in Regions,
             AddRegionOverflow(t, g)
      PROVE  TasksOk'
    BY <1>4 DEF AddRegionOverflow
<1>5. ASSUME NEW t \in Tasks, NEW n \in Names,
             AddDevice(t, n)
      PROVE  TasksOk'
    BY <1>5 DEF AddDevice
<1>6. ASSUME NEW t \in Tasks, NEW r \in DOMAIN routers,
             RemoveRouter(t, r)
      PROVE  TasksOk'
    BY <1>6 DEF RemoveRouter
<1>7. ASSUME NEW t \in Tasks, NEW g \in DOMAIN regions, NEW h \in DOMAIN regions,
             LinkRegions(t, g, h)
      PROVE  TasksOk'
    BY <1>7 DEF LinkRegions
<1>8. ASSUME NEW t \in Tasks, NEW d \in DOMAIN devices,
             RemoveDevice(t, d)
      PROVE  TasksOk'
    BY <1>8 DEF RemoveDevice
<1>9. ASSUME NEW t \in Tasks, NEW d \in DOMAIN devices, NEW i \in Ifaces, NEW r \in DOMAIN routers,
             ReplugPrepare(t, d, i, r)
      PROVE  TasksOk'
    BY <1>9 DEF ReplugPrepare
<1>10. ASSUME NEW t \in Tasks, NEW d \in DOMAIN devices, NEW i \in DOMAIN devices[d].ifaces,
             RenewIp(t, d, i)
      PROVE  TasksOk'
    BY <1>10 DEF RenewIp
<1>11. ASSUME NEW t \in Tasks, NEW d \in DOMAIN devices, NEW i \in DOMAIN devices[d].ifaces,
             RemoveIface(t, d, i)
      PROVE  TasksOk'
    BY <1>11 DEF RemoveIface
<1>12. ASSUME NEW t \in Tasks,
             BuildNoBlock(t)
      PROVE  TasksOk'
    BY <1>12 DEF BuildNoBlock
<1>13. ASSUME NEW t \in Tasks,
             BuildNoUplink(t)
      PROVE  TasksOk'
    BY <1>13 DEF BuildNoUplink
<1>14. ASSUME NEW t \in Tasks,
             BuildConnected(t)
      PROVE  TasksOk'
    <2>1. PICK o, c, u : task' = [task EXCEPT ![t] = [task[t] EXCEPT !.at = "create", !.id = nextId,
                 !.upstream = o, !.net = c, !.addr = u]]
        BY <1>14 DEF BuildConnected
    <2>2. task'[t] = [task[t] EXCEPT !.at = "create", !.id = nextId, !.upstream = o, !.net = c, !.addr = u]
        BY <2>1
    <2>3. \A q \in Tasks : q # t => task'[q] = task[q]
        BY <2>1
    <2>4. task'[t].at = "create" /\ IsTask(task'[t])
        <3> HIDE DEF IsTask
        <3>1. PICK r : r = task[t]
            OBVIOUS
        <3>2. PICK new : new = task'[t]
            OBVIOUS
        <3>3. new = [r EXCEPT !.at = "create", !.id = nextId, !.upstream = o, !.net = c, !.addr = u]
            BY <2>2, <3>1, <3>2
        <3>4. IsTask(r)
            BY <3>1
        <3>5. new.at = "create" /\ IsTask(new)
            BY ONLY <3>3, <3>4 DEF IsTask
        <3> QED
            BY <3>2, <3>5
    <2>5. task' = [q \in Tasks |-> task'[q]]
        BY <2>1
    <2> QED
        BY <2>3, <2>4, <2>5
<1>15. ASSUME NEW t \in Tasks,
             SetupCreate(t)
      PROVE  TasksOk'
    BY <1>15 DEF SetupCreate
<1>16. ASSUME NEW t \in Tasks,
             SetupUplink(t)
      PROVE  TasksOk'
    BY <1>16 DEF SetupUplink
<1>17. ASSUME NEW t \in Tasks,
             SetupRoutes(t)
      PROVE  TasksOk'
    BY <1>17 DEF SetupRoutes
<1>18. ASSUME NEW t \in Tasks,
             SetupFails(t)
      PROVE  TasksOk'
    BY <1>18 DEF SetupFails
<1>19. ASSUME NEW t \in Tasks,
             PublishRouter(t)
      PROVE  TasksOk'
    BY <1>19 DEF PublishRouter
<1>20. ASSUME NEW t \in Tasks,
             PublishRegion(t)
      PROVE  TasksOk'
    BY <1>20 DEF PublishRegion
<1>21. ASSUME NEW t \in Tasks, NEW i \in Ifaces, NEW r \in DOMAIN routers,
             AddIface(t, i, r)
      PROVE  TasksOk'
    BY <1>21 DEF AddIface
<1>22. ASSUME NEW t \in Tasks, NEW i \in Ifaces, NEW r \in DOMAIN routers,
             AddIfaceFails(t, i, r)
      PROVE  TasksOk'
    BY <1>22 DEF AddIfaceFails
<1>23. ASSUME NEW t \in Tasks,
             Abandon(t)
      PROVE  TasksOk'
    BY <1>23 DEF Abandon
<1>24. ASSUME NEW t \in Tasks,
             BuildDevice(t)
      PROVE  TasksOk'
    <2>1. (task' = [task EXCEPT ![t] = IdleTask]) \/ (task' = [task EXCEPT ![t].at = "wire"])
        BY <1>24 DEF BuildDevice
    <2> QED
        BY <2>1
<1>25. ASSUME NEW t \in Tasks,
             SetupDevice(t)
      PROVE  TasksOk'
    BY <1>25 DEF SetupDevice
<1>26. ASSUME NEW t \in Tasks,
             PublishDevice(t)
      PROVE  TasksOk'
    BY <1>26 DEF PublishDevice
<1>27. ASSUME NEW t \in Tasks,
             CloseNamespace(t)
      PROVE  TasksOk'
    BY <1>27 DEF CloseNamespace
<1>28. ASSUME NEW t \in Tasks,
             ReplugFinish(t)
      PROVE  TasksOk'
    BY <1>28 DEF ReplugFinish
<1>29. CASE UNCHANGED vars
    BY <1>29 DEF vars
<1> QED
    BY <1>1, <1>2, <1>3, <1>4, <1>5, <1>6, <1>7, <1>8, <1>9, <1>10, <1>11,
       <1>12, <1>13, <1>14, <1>15, <1>16, <1>17, <1>18, <1>19, <1>20,
       <1>21, <1>22, <1>23, <1>24, <1>25, <1>26, <1>27, <1>28, <1>29 DEF
       Next, CallStep, BuildStep, SetupStep, DeviceStep

LEMMA PoolsStep == Shapes /\ [Next]_vars => PoolsOk'
<1> SUFFICES ASSUME Shapes, [Next]_vars PROVE PoolsOk'
    OBVIOUS
<1> USE DEF Shapes, PoolsOk, TasksOk, Call, Start, coreVars
<1>1. ASSUME NEW t \in Tasks, NEW n \in Names, NEW p \in {"private", "public"}, NEW w \in Places,
             AddRouter(t, n, p, w)
      PROVE  PoolsOk'
    BY <1>1 DEF AddRouter
<1>2. ASSUME NEW t \in Tasks, NEW g \in Regions,
             AddRegion(t, g)
      PROVE  PoolsOk'
    <2>1. pools' = [pools EXCEPT !.region = @ + 1, !.ix = @ + 1]
        BY <1>2 DEF AddRegion
    <2>2. pools' = [private |-> pools.private, public |-> pools.public, ix |-> pools.ix + 1,
                    region |-> pools.region + 1]
        BY <2>1
    <2> QED
        BY <2>2
<1>3. ASSUME NEW t \in Tasks, NEW g \in Regions,
             AddRegionNoAddress(t, g)
      PROVE  PoolsOk'
    BY <1>3 DEF AddRegionNoAddress, RegionRegistered
<1>4. ASSUME NEW t \in Tasks, NEW g \in Regions,
             AddRegionOverflow(t, g)
      PROVE  PoolsOk'
    BY <1>4 DEF AddRegionOverflow
<1>5. ASSUME NEW t \in Tasks, NEW n \in Names,
             AddDevice(t, n)
      PROVE  PoolsOk'
    BY <1>5 DEF AddDevice
<1>6. ASSUME NEW t \in Tasks, NEW r \in DOMAIN routers,
             RemoveRouter(t, r)
      PROVE  PoolsOk'
    BY <1>6 DEF RemoveRouter
<1>7. ASSUME NEW t \in Tasks, NEW g \in DOMAIN regions, NEW h \in DOMAIN regions,
             LinkRegions(t, g, h)
      PROVE  PoolsOk'
    BY <1>7 DEF LinkRegions
<1>8. ASSUME NEW t \in Tasks, NEW d \in DOMAIN devices,
             RemoveDevice(t, d)
      PROVE  PoolsOk'
    BY <1>8 DEF RemoveDevice
<1>9. ASSUME NEW t \in Tasks, NEW d \in DOMAIN devices, NEW i \in Ifaces, NEW r \in DOMAIN routers,
             ReplugPrepare(t, d, i, r)
      PROVE  PoolsOk'
    BY <1>9 DEF ReplugPrepare
<1>10. ASSUME NEW t \in Tasks, NEW d \in DOMAIN devices, NEW i \in DOMAIN devices[d].ifaces,
             RenewIp(t, d, i) \/ RemoveIface(t, d, i)
      PROVE  PoolsOk'
    BY <1>10 DEF RenewIp, RemoveIface
<1>11. ASSUME NEW t \in Tasks,
             BuildNoBlock(t) \/ SetupCreate(t) \/ SetupUplink(t) \/
             SetupRoutes(t) \/ SetupFails(t) \/ PublishRouter(t) \/
             PublishRegion(t) \/ Abandon(t) \/ BuildDevice(t) \/
             SetupDevice(t) \/ PublishDevice(t) \/ CloseNamespace(t) \/
             ReplugFinish(t)
      PROVE  PoolsOk'
    BY <1>11 DEF BuildNoBlock, SetupCreate, SetupUplink, SetupRoutes,
       SetupFails, PublishRouter, PublishRegion, Abandon, BuildDevice,
       SetupDevice, PublishDevice, CloseNamespace, ReplugFinish
<1>12. ASSUME NEW t \in Tasks,
             BuildNoUplink(t)
      PROVE  PoolsOk'
    BY <1>12 DEF BuildNoUplink, TakeSubnet
<1>13. ASSUME NEW t \in Tasks,
             BuildConnected(t)
      PROVE  PoolsOk'
    BY <1>13 DEF BuildConnected
<1>14. ASSUME NEW t \in Tasks, NEW i \in Ifaces, NEW r \in DOMAIN routers,
             AddIface(t, i, r) \/ AddIfaceFails(t, i, r)
      PROVE  PoolsOk'
    BY <1>14 DEF AddIface, AddIfaceFails
<1>15. CASE UNCHANGED vars
    BY <1>15 DEF vars
<1> QED
    BY <1>1, <1>2, <1>3, <1>4, <1>5, <1>6, <1>7, <1>8, <1>9, <1>10, <1>11,
       <1>12, <1>13, <1>14, <1>15 DEF Next, CallStep, BuildStep,
       SetupStep, DeviceStep

LEMMA RegionsStep == Shapes /\ [Next]_vars => RegionsOk'
<1> SUFFICES ASSUME Shapes, [Next]_vars PROVE RegionsOk'
    OBVIOUS
<1> USE DEF Shapes, PoolsOk, RegionsOk, IsBlock, Table, Put, TasksOk, Call, Start,
    coreVars
<1>1. ASSUME NEW t \in Tasks, NEW n \in Names, NEW p \in {"private", "public"}, NEW w \in Places,
             AddRouter(t, n, p, w)
      PROVE  RegionsOk'
    BY <1>1 DEF AddRouter
<1>2. ASSUME NEW t \in Tasks, NEW g \in Regions,
             AddRegion(t, g)
      PROVE  RegionsOk'
    BY <1>2 DEF AddRegion, RegionRegistered
<1>3. ASSUME NEW t \in Tasks, NEW g \in Regions,
             AddRegionNoAddress(t, g)
      PROVE  RegionsOk'
    BY <1>3 DEF AddRegionNoAddress, RegionRegistered
<1>4. ASSUME NEW t \in Tasks, NEW g \in Regions,
             AddRegionOverflow(t, g)
      PROVE  RegionsOk'
    BY <1>4 DEF AddRegionOverflow
<1>5. ASSUME NEW t \in Tasks, NEW n \in Names,
             AddDevice(t, n)
      PROVE  RegionsOk'
    BY <1>5 DEF AddDevice
<1>6. ASSUME NEW t \in Tasks, NEW r \in DOMAIN routers,
             RemoveRouter(t, r)
      PROVE  RegionsOk'
    BY <1>6 DEF RemoveRouter
<1>7. ASSUME NEW t \in Tasks, NEW g \in DOMAIN regions, NEW h \in DOMAIN regions,
             LinkRegions(t, g, h)
      PROVE  RegionsOk'
    <2>1. UNCHANGED <<regions, pools>>
        BY <1>7 DEF LinkRegions
    <2> QED
        BY <2>1
<1>8. ASSUME NEW t \in Tasks, NEW d \in DOMAIN devices,
             RemoveDevice(t, d)
      PROVE  RegionsOk'
    BY <1>8 DEF RemoveDevice
<1>9. ASSUME NEW t \in Tasks, NEW d \in DOMAIN devices, NEW i \in Ifaces, NEW r \in DOMAIN routers,
             ReplugPrepare(t, d, i, r)
      PROVE  RegionsOk'
    BY <1>9 DEF ReplugPrepare
<1>10. ASSUME NEW t \in Tasks, NEW d \in DOMAIN devices, NEW i \in DOMAIN devices[d].ifaces,
             RenewIp(t, d, i) \/ RemoveIface(t, d, i)
      PROVE  RegionsOk'
    BY <1>10 DEF RenewIp, RemoveIface
<1>11. ASSUME NEW t \in Tasks,
             BuildNoBlock(t) \/ SetupCreate(t) \/ SetupUplink(t) \/
             SetupRoutes(t) \/ SetupFails(t) \/ PublishRouter(t) \/
             PublishRegion(t) \/ Abandon(t) \/ BuildDevice(t) \/
             SetupDevice(t) \/ PublishDevice(t) \/ CloseNamespace(t) \/
             ReplugFinish(t)
      PROVE  RegionsOk'
    BY <1>11 DEF BuildNoBlock, SetupCreate, SetupUplink, SetupRoutes,
       SetupFails, PublishRouter, PublishRegion, Abandon, BuildDevice,
       SetupDevice, PublishDevice, CloseNamespace, ReplugFinish
<1>12. ASSUME NEW t \in Tasks,
             BuildNoUplink(t)
      PROVE  RegionsOk'
    BY <1>12 DEF BuildNoUplink, TakeSubnet, BlockFull, Regional
<1>13. ASSUME NEW t \in Tasks,
             BuildConnected(t)
      PROVE  RegionsOk'
    BY <1>13 DEF BuildConnected, BlockFull, Regional
<1>14. ASSUME NEW t \in Tasks, NEW i \in Ifaces, NEW r \in DOMAIN routers,
             AddIface(t, i, r) \/ AddIfaceFails(t, i, r)
      PROVE  RegionsOk'
    BY <1>14 DEF AddIface, AddIfaceFails
<1>15. CASE UNCHANGED vars
    BY <1>15 DEF vars
<1> QED
    BY <1>1, <1>2, <1>3, <1>4, <1>5, <1>6, <1>7, <1>8, <1>9, <1>10, <1>11,
       <1>12, <1>13, <1>14, <1>15 DEF Next, CallStep, BuildStep,
       SetupStep, DeviceStep

\* The switches after an allocation from one and the registration of another.
LEMMA SwitchesPut ==
    ASSUME Shapes, NEW old, NEW rec, IsSwitch(rec), switches' = Put(old, nextId + 1, rec),
           nextId' = nextId + 2, DOMAIN old = DOMAIN switches,
           Table(old), \A s \in DOMAIN old : IsSwitch(old[s])
    PROVE  SwitchesOk'
<1>1. /\ DOMAIN switches' = DOMAIN old \cup {nextId + 1}
      /\ Table(switches')
      /\ \A s \in DOMAIN switches' : switches'[s] = IF s = nextId + 1 THEN rec ELSE old[s]
    BY DEF Put, Table
<1>2. /\ nextId \in Nat
      /\ \A s \in DOMAIN switches : s \in Nat /\ s < nextId
    BY DEF Shapes, SwitchesOk, NodesOk
<1>3. \A s \in DOMAIN switches' : IsSwitch(switches'[s])
    BY <1>1
<1>4. \A s \in DOMAIN switches' : s \in Nat /\ s < nextId'
    BY <1>1, <1>2
<1> QED
    BY <1>1, <1>3, <1>4 DEF SwitchesOk, Table, IsSwitch

LEMMA SwitchesConnected ==
    ASSUME Shapes, NEW t \in Tasks, BuildConnected(t)
    PROVE  SwitchesOk'
<1> DEFINE b == task[t]
           up == Above(b)
           old == IF up = Ix THEN switches ELSE TakeHost(up)
           rec == SwitchRec(b.name, Subnet(b), nextId, FirstHost)
<1>1. switches' = Put(old, nextId + 1, rec) /\ nextId' = nextId + 2 /\ (up = Ix \/ HostsLeft(up))
    BY DEF BuildConnected, RegisterNames
<1>2. Table(switches) /\ \A s \in DOMAIN switches : IsSwitch(switches[s])
    BY DEF Shapes, SwitchesOk
<1>3. IsSwitch(rec)
    BY DEF IsSwitch, SwitchRec
<1>4. DOMAIN old = DOMAIN switches /\ Table(old) /\ \A s \in DOMAIN old : IsSwitch(old[s])
    <2>1. CASE up = Ix
        BY <1>2, <2>1
    <2>2. CASE up # Ix
        BY <1>1, <1>2, <2>2 DEF TakeHost, HostsLeft, Table, IsSwitch
    <2> QED
        BY <2>1, <2>2
<1> HIDE DEF old, rec
<1> QED
    BY <1>1, <1>3, <1>4, SwitchesPut

LEMMA SwitchesStep == Shapes /\ [Next]_vars => SwitchesOk'
<1> SUFFICES ASSUME Shapes, [Next]_vars PROVE SwitchesOk'
    OBVIOUS
<1> USE DEF Shapes, SwitchesOk, NodesOk, SwitchRec, TakeHost, HostsLeft, IsSwitch,
    Table, Put, Drop, Call, Start, coreVars
<1>1. ASSUME NEW t \in Tasks, NEW n \in Names, NEW p \in {"private", "public"}, NEW w \in Places,
             AddRouter(t, n, p, w)
      PROVE  SwitchesOk'
    BY <1>1 DEF AddRouter
<1>2. ASSUME NEW t \in Tasks, NEW g \in Regions,
             AddRegion(t, g)
      PROVE  SwitchesOk'
    BY <1>2 DEF AddRegion, RegionRegistered, RegisterNames
<1>3. ASSUME NEW t \in Tasks, NEW g \in Regions,
             AddRegionNoAddress(t, g)
      PROVE  SwitchesOk'
    BY <1>3 DEF AddRegionNoAddress, RegionRegistered, RegisterNames
<1>4. ASSUME NEW t \in Tasks, NEW g \in Regions,
             AddRegionOverflow(t, g)
      PROVE  SwitchesOk'
    BY <1>4 DEF AddRegionOverflow
<1>5. ASSUME NEW t \in Tasks, NEW n \in Names,
             AddDevice(t, n)
      PROVE  SwitchesOk'
    BY <1>5 DEF AddDevice
<1>6. ASSUME NEW t \in Tasks, NEW r \in DOMAIN routers,
             RemoveRouter(t, r)
      PROVE  SwitchesOk'
    BY <1>6 DEF RemoveRouter
<1>7. ASSUME NEW t \in Tasks, NEW g \in DOMAIN regions, NEW h \in DOMAIN regions,
             LinkRegions(t, g, h)
      PROVE  SwitchesOk'
    BY <1>7 DEF LinkRegions
<1>8. ASSUME NEW t \in Tasks, NEW d \in DOMAIN devices,
             RemoveDevice(t, d)
      PROVE  SwitchesOk'
    BY <1>8 DEF RemoveDevice
<1>9. ASSUME NEW t \in Tasks, NEW d \in DOMAIN devices, NEW i \in Ifaces, NEW r \in DOMAIN routers,
             ReplugPrepare(t, d, i, r)
      PROVE  SwitchesOk'
    BY <1>9 DEF ReplugPrepare
<1>10. ASSUME NEW t \in Tasks, NEW d \in DOMAIN devices, NEW i \in DOMAIN devices[d].ifaces,
             RenewIp(t, d, i)
      PROVE  SwitchesOk'
    BY <1>10 DEF RenewIp
<1>11. ASSUME NEW t \in Tasks, NEW d \in DOMAIN devices, NEW i \in DOMAIN devices[d].ifaces,
             RemoveIface(t, d, i)
      PROVE  SwitchesOk'
    BY <1>11 DEF RemoveIface
<1>12. ASSUME NEW t \in Tasks,
             BuildNoBlock(t)
      PROVE  SwitchesOk'
    BY <1>12 DEF BuildNoBlock, RegisterNames
<1>13. ASSUME NEW t \in Tasks,
             BuildNoUplink(t)
      PROVE  SwitchesOk'
    BY <1>13 DEF BuildNoUplink, RegisterNames
<1>14. ASSUME NEW t \in Tasks,
             BuildConnected(t)
      PROVE  SwitchesOk'
    BY <1>14, SwitchesConnected
<1>15. ASSUME NEW t \in Tasks,
             SetupCreate(t) \/ SetupUplink(t) \/ SetupRoutes(t) \/
             SetupFails(t) \/ PublishRouter(t) \/ PublishRegion(t) \/
             Abandon(t) \/ BuildDevice(t) \/ SetupDevice(t) \/
             PublishDevice(t) \/ CloseNamespace(t) \/ ReplugFinish(t)
      PROVE  SwitchesOk'
    <2>1. UNCHANGED <<switches, nextId>>
        BY <1>15 DEF SetupCreate, SetupUplink, SetupRoutes, SetupFails,
               PublishRouter, PublishRegion, Abandon, BuildDevice,
               SetupDevice, PublishDevice, CloseNamespace, ReplugFinish
    <2> QED
        BY <2>1
<1>16. ASSUME NEW t \in Tasks, NEW i \in Ifaces, NEW r \in DOMAIN routers,
             AddIface(t, i, r)
      PROVE  SwitchesOk'
    <2>1. PICK s \in DOMAIN switches : switches' = TakeHost(s)
        BY <1>16 DEF AddIface
    <2>2. nextId' = nextId + 1
        BY <1>16 DEF AddIface
    <2>3. DOMAIN switches' = DOMAIN switches /\ Table(switches)'
        BY <2>1
    <2>4. \A q \in DOMAIN switches : IsSwitch(switches'[q])
        BY <2>1
    <2> QED
        BY <2>2, <2>3, <2>4
<1>17. ASSUME NEW t \in Tasks, NEW i \in Ifaces, NEW r \in DOMAIN routers,
             AddIfaceFails(t, i, r)
      PROVE  SwitchesOk'
    BY <1>17 DEF AddIfaceFails
<1>18. CASE UNCHANGED vars
    BY <1>18 DEF vars
<1> QED
    BY <1>1, <1>2, <1>3, <1>4, <1>5, <1>6, <1>7, <1>8, <1>9, <1>10, <1>11,
       <1>12, <1>13, <1>14, <1>15, <1>16, <1>17, <1>18 DEF Next, CallStep,
       BuildStep, SetupStep, DeviceStep

\* A router or a device is entered under the next id, or replaced.
LEMMA RouterEntered ==
    ASSUME NodesOk, NEW rec, IsRouter(rec), routers' = Put(routers, nextId, rec), devices' = devices,
           nextId' = nextId + 1 \/ nextId' = nextId + 2
    PROVE  NodesOk'
BY DEF NodesOk, Table, Put

LEMMA DeviceReplaced ==
    ASSUME NodesOk, NEW d \in DOMAIN devices, NEW rec,
           devices' = [devices EXCEPT ![d] = rec], IsDevice(rec),
           routers' = routers, nextId' = nextId \/ nextId' = nextId + 1
    PROVE  NodesOk'
<1>1. /\ DOMAIN devices' = DOMAIN devices
      /\ \A e \in DOMAIN devices : devices'[e] = devices[e] \/ devices'[e] = rec
    OBVIOUS
<1>2. Table(devices)'
    BY DEF NodesOk, Table
<1> QED
    BY <1>1, <1>2 DEF NodesOk

LEMMA RouterRaised ==
    ASSUME NEW rec, IsRouter(rec), NEW s, NEW u, NEW new, new = [rec EXCEPT !.uplink = s, !.up = u]
    PROVE  IsRouter(new)
BY DEF IsRouter

LEMMA RouterRecords ==
    \A n, g, p, s, c : IsRouter(RouterRec(n, g, p, s, c))
BY DEF IsRouter, RouterRec

LEMMA NodesStep == Shapes /\ [Next]_vars => NodesOk'
<1> SUFFICES ASSUME Shapes, [Next]_vars PROVE NodesOk'
    OBVIOUS
<1> USE DEF Shapes, Call, Start, coreVars
<1>1. ASSUME NEW t \in Tasks, NEW n \in Names, NEW p \in {"private", "public"}, NEW w \in Places,
             AddRouter(t, n, p, w)
      PROVE  NodesOk'
    BY <1>1 DEF AddRouter, NodesOk, IsRouter, IsDevice, Table, Put, Drop
<1>2. ASSUME NEW t \in Tasks, NEW g \in Regions,
             AddRegion(t, g)
      PROVE  NodesOk'
    <2>1. routers' = Put(routers, nextId,
                   [RegionRec(g, (pools.region * 16) % 256)
                       EXCEPT !.uplink = Ix, !.up = Addr(IxCidr, pools.ix)])
        BY <1>2 DEF AddRegion
    <2>2. IsRouter([RegionRec(g, (pools.region * 16) % 256)
                       EXCEPT !.uplink = Ix, !.up = Addr(IxCidr, pools.ix)])
        BY ZenonT(30), RouterRecords, RouterRaised DEF RegionRec
    <2>3. devices' = devices /\ nextId' = nextId + 2
        BY <1>2 DEF AddRegion, RegionRegistered, RegisterNames
    <2> QED
        BY <2>1, <2>2, <2>3, RouterEntered
<1>3. ASSUME NEW t \in Tasks, NEW g \in Regions,
             AddRegionNoAddress(t, g)
      PROVE  NodesOk'
    <2>1. routers' = Put(routers, nextId, RegionRec(g, (pools.region * 16) % 256))
        BY <1>3 DEF AddRegionNoAddress
    <2>2. IsRouter(RegionRec(g, (pools.region * 16) % 256))
        BY ZenonT(30), RouterRecords, RouterRaised DEF RegionRec
    <2>3. devices' = devices /\ nextId' = nextId + 2
        BY <1>3 DEF AddRegionNoAddress, RegionRegistered, RegisterNames
    <2> QED
        BY <2>1, <2>2, <2>3, RouterEntered
<1>4. ASSUME NEW t \in Tasks, NEW g \in Regions,
             AddRegionOverflow(t, g)
      PROVE  NodesOk'
    <2>1. routers' = Put(routers, nextId, RouterRec(RegionRouter(g), "none", "public", NoNode, NoCidr))
        BY <1>4 DEF AddRegionOverflow
    <2>2. IsRouter(RouterRec(RegionRouter(g), "none", "public", NoNode, NoCidr))
        BY RouterRecords, RouterRaised DEF RegionRec
    <2>3. devices' = devices /\ nextId' = nextId + 1
        BY <1>4 DEF AddRegionOverflow
    <2> QED
        BY <2>1, <2>2, <2>3, RouterEntered
<1>5. ASSUME NEW t \in Tasks, NEW n \in Names,
             AddDevice(t, n)
      PROVE  NodesOk'
    BY <1>5 DEF AddDevice, NodesOk, IsRouter, IsDevice, Table, Put, Drop
<1>6. ASSUME NEW t \in Tasks, NEW r \in DOMAIN routers,
             RemoveRouter(t, r)
      PROVE  NodesOk'
    BY <1>6 DEF RemoveRouter, NodesOk, IsRouter, IsDevice, Table, Put,
       Drop
<1>7. ASSUME NEW t \in Tasks, NEW g \in DOMAIN regions, NEW h \in DOMAIN regions,
             LinkRegions(t, g, h)
      PROVE  NodesOk'
    BY <1>7 DEF LinkRegions, NodesOk, IsRouter, IsDevice, Table, Put,
       Drop
<1>8. ASSUME NEW t \in Tasks, NEW d \in DOMAIN devices,
             RemoveDevice(t, d)
      PROVE  NodesOk'
    BY <1>8 DEF RemoveDevice, NodesOk, IsRouter, IsDevice, Table, Put,
       Drop
<1>9. ASSUME NEW t \in Tasks, NEW d \in DOMAIN devices, NEW i \in Ifaces, NEW r \in DOMAIN routers,
             ReplugPrepare(t, d, i, r)
      PROVE  NodesOk'
    BY <1>9 DEF ReplugPrepare, NodesOk, IsRouter, IsDevice, Table, Put,
       Drop
<1>10. ASSUME NEW t \in Tasks, NEW d \in DOMAIN devices, NEW i \in DOMAIN devices[d].ifaces,
             RenewIp(t, d, i)
      PROVE  NodesOk'
    BY ZenonT(30), <1>10 DEF RenewIp, NodesOk, IsRouter, IsDevice, Table, Put, Drop
<1>11. ASSUME NEW t \in Tasks, NEW d \in DOMAIN devices, NEW i \in DOMAIN devices[d].ifaces,
             RemoveIface(t, d, i)
      PROVE  NodesOk'
    BY ZenonT(30), <1>11 DEF RemoveIface, NodesOk, IsRouter, IsDevice, Table, Put,
       Drop
<1>12. ASSUME NEW t \in Tasks,
             BuildNoBlock(t)
      PROVE  NodesOk'
    <2>1. routers' = Put(routers, nextId,
                   RouterRec(task[t].name, task[t].region, task[t].pool, NoNode, NoCidr))
        BY <1>12 DEF BuildNoBlock
    <2>2. IsRouter(RouterRec(task[t].name, task[t].region, task[t].pool, NoNode, NoCidr))
        BY RouterRecords, RouterRaised DEF RegionRec
    <2>3. devices' = devices /\ nextId' = nextId + 2
        BY <1>12 DEF BuildNoBlock, RegisterNames
    <2> QED
        BY <2>1, <2>2, <2>3, RouterEntered
<1>13. ASSUME NEW t \in Tasks,
             BuildNoUplink(t)
      PROVE  NodesOk'
    <2>1. routers' = Put(routers, nextId,
                   RouterRec(task[t].name, task[t].region, task[t].pool, nextId + 1, Subnet(task[t])))
        BY <1>13 DEF BuildNoUplink
    <2>2. IsRouter(RouterRec(task[t].name, task[t].region, task[t].pool, nextId + 1, Subnet(task[t])))
        BY RouterRecords, RouterRaised DEF RegionRec
    <2>3. devices' = devices /\ nextId' = nextId + 2
        BY <1>13 DEF BuildNoUplink, RegisterNames
    <2> QED
        BY <2>1, <2>2, <2>3, RouterEntered
<1>14. ASSUME NEW t \in Tasks,
             BuildConnected(t)
      PROVE  NodesOk'
    <2>1. PICK s, u : routers' = Put(routers, nextId,
                    [RouterRec(task[t].name, task[t].region, task[t].pool,
                          nextId + 1, Subnet(task[t])) EXCEPT !.uplink = s, !.up = u])
        BY <1>14 DEF BuildConnected
    <2>2. IsRouter([RouterRec(task[t].name, task[t].region, task[t].pool,
                          nextId + 1, Subnet(task[t])) EXCEPT !.uplink = s, !.up = u])
        BY RouterRecords, RouterRaised
    <2>3. devices' = devices /\ nextId' = nextId + 2
        BY <1>14 DEF BuildConnected, RegisterNames
    <2> QED
        BY <2>1, <2>2, <2>3, RouterEntered
<1>15. ASSUME NEW t \in Tasks,
             SetupCreate(t) \/ SetupUplink(t) \/ SetupRoutes(t) \/
             SetupFails(t) \/ Abandon(t) \/ BuildDevice(t) \/
             SetupDevice(t) \/ PublishDevice(t) \/ CloseNamespace(t)
      PROVE  NodesOk'
    BY <1>15 DEF SetupCreate, SetupUplink, SetupRoutes, SetupFails,
       Abandon, BuildDevice, SetupDevice, PublishDevice, CloseNamespace,
       NodesOk, IsRouter, IsDevice, Table, Put, Drop
<1>16. ASSUME NEW t \in Tasks,
             PublishRouter(t)
      PROVE  NodesOk'
    BY <1>16 DEF PublishRouter, NodesOk, IsRouter, IsDevice, Table, Put,
       Drop
<1>17. ASSUME NEW t \in Tasks,
             PublishRegion(t)
      PROVE  NodesOk'
    BY <1>17 DEF PublishRegion, NodesOk, IsRouter, IsDevice, Table, Put,
       Drop
<1>18. ASSUME NEW t \in Tasks, NEW i \in Ifaces, NEW r \in DOMAIN routers,
             AddIface(t, i, r)
      PROVE  NodesOk'
    <2>1. task[t].id \in DOMAIN devices /\ UNCHANGED routers /\ nextId' = nextId + 1
        BY <1>18 DEF AddIface
    <2>2. PICK ifs : devices' = [devices EXCEPT ![task[t].id].ifaces = ifs]
        BY <1>18 DEF AddIface
    <2>3. IsDevice([devices[task[t].id] EXCEPT !.ifaces = ifs])
        BY <2>1 DEF NodesOk, IsDevice
    <2> QED
        BY <2>1, <2>2, <2>3, DeviceReplaced
<1>19. ASSUME NEW t \in Tasks, NEW i \in Ifaces, NEW r \in DOMAIN routers,
             AddIfaceFails(t, i, r)
      PROVE  NodesOk'
    BY <1>19 DEF AddIfaceFails, NodesOk, IsRouter, IsDevice, Table, Put,
       Drop
<1>20. ASSUME NEW t \in Tasks,
             ReplugFinish(t)
      PROVE  NodesOk'
    BY ZenonT(30), <1>20 DEF ReplugFinish, NodesOk, IsRouter, IsDevice, Table, Put,
       Drop
<1>21. CASE UNCHANGED vars
    BY <1>21 DEF vars, NodesOk, Table
<1> QED
    BY <1>1, <1>2, <1>3, <1>4, <1>5, <1>6, <1>7, <1>8, <1>9, <1>10, <1>11,
       <1>12, <1>13, <1>14, <1>15, <1>16, <1>17, <1>18, <1>19, <1>20,
       <1>21 DEF Next, CallStep, BuildStep, SetupStep, DeviceStep

LEMMA ShapesStep == Shapes /\ [Next]_vars => Shapes'
BY TasksStep, PoolsStep, RegionsStep, SwitchesStep, NodesStep DEF Shapes

-----------------------------------------------------------------------------
(* The subnets that were given out so far: the IX, the private and public   *)
(* ones that the counters have passed, and in the block of region k the     *)
(* first and those below its own counter.                                   *)

Given(c) ==
    \/ c = IxCidr
    \/ c.block = "private" /\ IF c.third = 0 THEN pools.private = 257
                              ELSE c.third \in Nat /\ c.third < pools.private
    \/ c.block = "public" /\ c.third \in Nat /\ 0 < c.third /\ c.third < pools.public
    \/ /\ c.block = "public"
       /\ \E k \in 1..15, o \in 0..15 :
             /\ c.third = 16 * k + o /\ k < pools.region
             /\ o # 0 => \E g \in DOMAIN regions : regions[g].idx = k /\ o < regions[g].next

SubnetsInv ==
    InPools =>
        /\ \A c : (\E s \in DOMAIN switches : switches[s].cidr = c) => c = NoCidr \/ Given(c)
        /\ \A s, u \in DOMAIN switches :
               s # u /\ switches[s].cidr = switches[u].cidr => switches[s].cidr = NoCidr

LEMMA SubnetsInit == Init => SubnetsInv
BY DEF Init, SubnetsInv, Given

(* Counters only grow, so what was given out stays given out.               *)
Grows ==
    /\ pools.private <= pools'.private /\ pools.public <= pools'.public /\ pools.region <= pools'.region
    /\ \A g \in DOMAIN regions :
           /\ g \in DOMAIN regions' /\ regions'[g].idx = regions[g].idx
           /\ regions[g].next <= regions'[g].next

LEMMA Octets ==
    /\ \A n \in 1..255 : n % 256 = n
    /\ 256 % 256 = 0
    /\ \A k \in 1..15, o \in 1..15 : (k * 16 + o) % 256 = 16 * k + o
    /\ \A k \in 1..15 : (k * 16) % 256 = 16 * k + 0
OBVIOUS

LEMMA GivenStays ==
    ASSUME Shapes, Shapes', Grows, InPools', NEW c, Given(c)
    PROVE  InPools /\ Given(c)'
<1>0. /\ pools.private \in Nat /\ pools.public \in Nat /\ pools.region \in Nat
      /\ pools'.private \in Nat /\ pools'.public \in Nat /\ pools'.region \in Nat
      /\ pools.private <= pools'.private /\ pools.public <= pools'.public /\ pools.region <= pools'.region
    BY DEF Shapes, PoolsOk, Grows
<1>1. InPools
    BY <1>0 DEF InPools, LastRegion
<1>2. CASE c = IxCidr
    BY <1>1, <1>2 DEF Given, IxCidr, Cidr
<1>3. CASE c.block = "private" /\ IF c.third = 0 THEN pools.private = 257
                              ELSE c.third \in Nat /\ c.third < pools.private
    BY <1>0, <1>1, <1>3 DEF Given, InPools
<1>4. CASE c.block = "public" /\ c.third \in Nat /\ 0 < c.third /\ c.third < pools.public
    <2>1. c.third < pools'.public
        BY <1>0, <1>4
    <2> QED
        BY <1>1, <1>4, <2>1 DEF Given
<1>5. ASSUME c.block = "public", NEW k \in 1..15, NEW o \in 0..15,
             c.third = 16 * k + o, k < pools.region,
             o # 0 => \E g \in DOMAIN regions : regions[g].idx = k /\ o < regions[g].next
      PROVE  Given(c)'
    <2>1. k < pools'.region
        BY <1>0, <1>5
    <2>2. o # 0 => \E g \in DOMAIN regions' : regions'[g].idx = k /\ o < regions'[g].next
        BY <1>5 DEF Grows, Shapes, RegionsOk
    <2> QED
        BY <1>5, <2>1, <2>2 DEF Given
<1> QED
    BY <1>1, <1>2, <1>3, <1>4, <1>5 DEF Given

(* What a step does to the subnets: the counters grow, and at most one      *)
(* switch is new, whose subnet was not given out before.                    *)
NewSwitch(id, c) ==
    \A s \in DOMAIN switches' :
        \/ s = id /\ switches'[s].cidr = c
        \/ s # id /\ s \in DOMAIN switches /\ switches'[s].cidr = switches[s].cidr
Allocates ==
    /\ Grows
    /\ \E id, c : NewSwitch(id, c) /\ (InPools' => c = NoCidr \/ (~Given(c) /\ Given(c)'))

LEMMA OneMore ==
    ASSUME Shapes, Shapes', SubnetsInv, Allocates
    PROVE  SubnetsInv'
<1> SUFFICES ASSUME InPools'
             PROVE  (/\ \A e : (\E s \in DOMAIN switches : switches[s].cidr = e) => e = NoCidr \/ Given(e)
                     /\ \A s, u \in DOMAIN switches :
                         s # u /\ switches[s].cidr = switches[u].cidr => switches[s].cidr = NoCidr)'
    BY DEF SubnetsInv
<1>0. PICK id, c : NewSwitch(id, c) /\ (c = NoCidr \/ (~Given(c) /\ Given(c)'))
    BY DEF Allocates
<1>1. InPools
    BY DEF InPools, Allocates, Grows, Shapes, PoolsOk, LastRegion
<1>2. \A s \in DOMAIN switches' : s # id => switches'[s].cidr = NoCidr \/ Given(switches'[s].cidr)
    BY <1>0, <1>1 DEF SubnetsInv, NewSwitch
<1>3. ASSUME NEW e, NEW s \in DOMAIN switches', switches'[s].cidr = e, e # NoCidr
      PROVE  Given(e)'
    <2>1. CASE s = id
        BY <1>0, <1>3, <2>1 DEF NewSwitch
    <2>2. CASE s # id
        <3>1. Given(e)
            BY <1>2, <1>3, <2>2
        <3> QED
            BY <3>1, GivenStays DEF Allocates
    <2> QED
        BY <2>1, <2>2
<1>4. ASSUME NEW s \in DOMAIN switches', NEW u \in DOMAIN switches', s # u,
             switches'[s].cidr = switches'[u].cidr
      PROVE  switches'[s].cidr = NoCidr
    <2>1. CASE s # id /\ u # id
        BY <1>0, <1>1, <1>4, <2>1 DEF SubnetsInv, NewSwitch
    <2>2. CASE s = id \/ u = id
        BY <1>0, <1>2, <1>4, <2>2 DEF NewSwitch
    <2> QED
        BY <2>1, <2>2
<1> QED
    BY <1>3, <1>4 DEF NoCidr, Cidr

LEMMA NoneMore ==
    ASSUME Shapes, Grows,
           \A s \in DOMAIN switches' : s \in DOMAIN switches /\ switches'[s].cidr = switches[s].cidr
    PROVE  Allocates
<1>1. nextId \notin DOMAIN switches
    BY DEF Shapes, NodesOk, SwitchesOk
<1>2. NewSwitch(nextId, NoCidr)
    BY <1>1 DEF NewSwitch
<1> QED
    BY <1>2 DEF Allocates

(* The subnets that are handed out.                                         *)
LEMMA NewSubnet ==
    ASSUME Shapes, Shapes', InPools', NEW b, ~BlockFull(b), b.pool \in {"private", "public"},
           IF Regional(b) THEN /\ regions' = [regions EXCEPT ![b.region].next = @ + 1]
                               /\ pools'.region = pools.region /\ pools'.public = pools.public
                          ELSE pools'[b.pool] = pools[b.pool] + 1
    PROVE  \A c : c = Subnet(b) => ~Given(c) /\ Given(c)'
<1> SUFFICES ASSUME NEW c, c = Subnet(b) PROVE ~Given(c) /\ Given(c)'
    OBVIOUS
<1>0. /\ pools'.private <= 257 /\ pools'.public <= 16 /\ pools'.region <= 16
      /\ pools.private \in Nat \ {0} /\ pools.public \in Nat \ {0} /\ pools.region \in Nat
    BY DEF InPools, LastRegion, Shapes, PoolsOk
<1>1. CASE Regional(b)
    <2>1. PICK g \in DOMAIN regions : g = b.region
        BY <1>1 DEF Regional
    <2>2. regions[g].next <= 15 /\ pools.region <= 16 /\ pools'.region = pools.region
        BY <1>0, <1>1, <2>1 DEF BlockFull, Shapes, RegionsOk
    <2>3. regions[g].idx \in 1..15 /\ regions[g].next \in 1..15
        BY <1>0, <2>2 DEF Shapes, RegionsOk
    <2>4. PICK k \in 1..15, o \in 1..15 : k = regions[g].idx /\ o = regions[g].next
        BY <2>3
    <2>5. c = [block |-> "public", third |-> (k * 16 + o) % 256]
        BY <1>1, <2>1, <2>4 DEF Subnet, Cidr
    <2>6. c.block = "public" /\ c.third = 16 * k + o
        BY <2>5, Octets
    <2>7. ASSUME NEW i \in 1..15, NEW j \in 0..15, c.third = 16 * i + j PROVE i = k /\ j = o
        BY SMTT(30), <2>6, <2>7
    <2>8. \A h \in DOMAIN regions : regions[h].idx = k => h = g
        BY <2>4 DEF Shapes, RegionsOk
    <2>9. c # IxCidr /\ c.block # "private" /\ ~(c.third < pools.public)
        <3>1. pools.public <= 16 /\ 16 * k + o > 16
            BY <1>0, <1>1
        <3> QED
            BY <1>0, <2>6, <3>1 DEF IxCidr, Cidr
    <2>10. ~Given(c)
        <3>1. \A h \in DOMAIN regions : ~(regions[h].idx = k /\ o < regions[h].next)
            BY <2>4, <2>8
        <3>2. o # 0
            BY <2>4
        <3> QED
            BY ZenonT(40), <2>4, <2>7, <2>9, <3>1, <3>2 DEF Given
    <2>11. regions'[g].idx = k /\ o < regions'[g].next /\ k < pools'.region /\ g \in DOMAIN regions'
        <3>1. regions' = [regions EXCEPT ![g].next = @ + 1] /\ IsBlock(regions[g])
            BY <1>1, <2>1 DEF Shapes, RegionsOk
        <3>2. k < pools.region
            BY <2>4 DEF Shapes, RegionsOk
        <3> QED
            BY <2>2, <2>4, <3>1, <3>2 DEF IsBlock
    <2>12. Given(c)'
        BY <2>6, <2>11 DEF Given
    <2> QED
        BY <2>10, <2>12
<1>2. CASE ~Regional(b) /\ b.pool = "private"
    <2>1. c = [block |-> "private", third |-> pools.private % 256]
        BY <1>2 DEF Subnet, Cidr
    <2>2. pools'.private = pools.private + 1 /\ pools.private \in 1..256
        BY <1>0, <1>2
    <2>3. c.block = "private" /\ c # IxCidr
             /\ c.third = IF pools.private = 256 THEN 0 ELSE pools.private
        BY <2>1, <2>2, Octets DEF IxCidr, Cidr
    <2> QED
        BY <2>2, <2>3 DEF Given
<1>3. CASE ~Regional(b) /\ b.pool = "public"
    <2>1. c = [block |-> "public", third |-> pools.public % 256]
        BY <1>3 DEF Subnet, Cidr
    <2>2. pools'.public = pools.public + 1 /\ pools.public \in 1..15
        BY <1>0, <1>3
    <2>3. c.block = "public" /\ c # IxCidr /\ c.third = pools.public
        BY <2>1, <2>2, Octets DEF IxCidr, Cidr
    <2>4. \A k \in 1..15, o \in 0..15 : c.third # 16 * k + o
        BY <2>2, <2>3
    <2>5. ~Given(c)
        <3>1. c.block # "private" /\ ~(c.third < pools.public)
            BY <2>2, <2>3
        <3> QED
            BY ZenonT(40), <2>3, <2>4, <3>1 DEF Given
    <2>6. Given(c)'
        BY <2>2, <2>3 DEF Given
    <2> QED
        BY <2>5, <2>6
<1> QED
    BY <1>1, <1>2, <1>3

LEMMA NewBlock ==
    ASSUME Shapes, Shapes', InPools', pools'.region = pools.region + 1, pools'.public = pools.public,
           NEW c, c = Cidr("public", (pools.region * 16) % 256)
    PROVE  ~Given(c) /\ Given(c)'
<1>1. pools.region \in 1..15 /\ pools.public \in Nat /\ pools.public <= 16
    BY DEF InPools, LastRegion, Shapes, PoolsOk
<1>2. PICK k \in 1..15 : k = pools.region
    BY <1>1
<1>3. c = [block |-> "public", third |-> (k * 16) % 256]
    BY <1>2 DEF Cidr
<1>4. c.block = "public" /\ c.third = 16 * k + 0
    BY <1>3, Octets
<1>5. c # IxCidr /\ c.block # "private" /\ ~(c.third < pools.public)
    BY <1>1, <1>4 DEF IxCidr, Cidr
<1>6. ASSUME NEW i \in 1..15, NEW j \in 0..15, c.third = 16 * i + j PROVE i = k
    BY <1>4, <1>6
<1>7. ~Given(c)
    <2>1. ASSUME NEW i \in 1..15, NEW j \in 0..15, c.third = 16 * i + j
          PROVE  ~(i < pools.region)
        <3>1. i = k
            BY <1>6, <2>1
        <3> QED
            BY <1>1, <1>2, <3>1
    <2> QED
        BY <1>5, <2>1 DEF Given
<1>8. k < pools'.region
    BY <1>1, <1>2
<1>9. Given(c)'
    <2>1. \E i \in 1..15, j \in 0..15 : c.third = 16 * i + j /\ i < pools'.region /\ j = 0
        BY <1>4, <1>8
    <2> QED
        BY <1>4, <2>1 DEF Given
<1> QED
    BY <1>7, <1>9

LEMMA Quiet ==
    ASSUME Shapes, pools' = pools, regions' = regions PROVE Grows
BY DEF Shapes, PoolsOk, RegionsOk, Grows

LEMMA AllocStep == Shapes /\ Shapes' /\ [Next]_vars => Allocates
<1> SUFFICES ASSUME Shapes, Shapes', [Next]_vars PROVE Allocates
    OBVIOUS
<1> USE DEF Call, Start, coreVars
<1>1. ASSUME NEW t \in Tasks, NEW n \in Names, NEW p \in {"private", "public"}, NEW w \in Places,
             AddRouter(t, n, p, w)
      PROVE  Allocates
    <2>1. UNCHANGED <<switches, pools, regions>>
        BY <1>1 DEF AddRouter
    <2> QED
        BY <2>1, Quiet, NoneMore
<1>2. ASSUME NEW t \in Tasks, NEW g \in Regions,
             AddRegion(t, g)
      PROVE  Allocates
    <2>1. PICK c : c = Cidr("public", (pools.region * 16) % 256)
        OBVIOUS
    <2>2. \A s \in DOMAIN switches' :
              \/ s = nextId + 1 /\ switches'[s].cidr = c
              \/ s # nextId + 1 /\ s \in DOMAIN switches /\ switches'[s].cidr = switches[s].cidr
        BY <1>2, <2>1 DEF AddRegion, RegionRegistered, Put, SwitchRec, Shapes,
           SwitchesOk, NodesOk
    <2>3. /\ pools'.region = pools.region + 1 /\ pools'.public = pools.public
          /\ pools'.private = pools.private
        BY <1>2 DEF AddRegion, Shapes, PoolsOk
    <2>4. Grows
        <3>1. \A h \in DOMAIN regions : h \in DOMAIN regions' /\ regions'[h] = regions[h]
            BY <1>2 DEF AddRegion, RegionRegistered, Put
        <3> QED
            BY <2>3, <3>1 DEF Grows, Shapes, PoolsOk, RegionsOk
    <2>5. InPools' => ~Given(c) /\ Given(c)'
        BY <2>1, <2>3, NewBlock
    <2> QED
        BY ZenonT(40), <2>2, <2>4, <2>5 DEF Allocates, NewSwitch
<1>3. ASSUME NEW t \in Tasks, NEW g \in Regions,
             AddRegionNoAddress(t, g)
      PROVE  Allocates
    <2>1. PICK c : c = Cidr("public", (pools.region * 16) % 256)
        OBVIOUS
    <2>2. \A s \in DOMAIN switches' :
              \/ s = nextId + 1 /\ switches'[s].cidr = c
              \/ s # nextId + 1 /\ s \in DOMAIN switches /\ switches'[s].cidr = switches[s].cidr
        BY <1>3, <2>1 DEF AddRegionNoAddress, RegionRegistered, Put, SwitchRec,
           Shapes, SwitchesOk, NodesOk
    <2>3. /\ pools'.region = pools.region + 1 /\ pools'.public = pools.public
          /\ pools'.private = pools.private
        BY <1>3 DEF AddRegionNoAddress, Shapes, PoolsOk
    <2>4. Grows
        <3>1. regions' = regions
            BY <1>3 DEF AddRegionNoAddress
        <3> QED
            BY <2>3, <3>1 DEF Grows, Shapes, PoolsOk, RegionsOk
    <2>5. InPools' => ~Given(c) /\ Given(c)'
        BY <2>1, <2>3, NewBlock
    <2> QED
        BY ZenonT(40), <2>2, <2>4, <2>5 DEF Allocates, NewSwitch
<1>4. ASSUME NEW t \in Tasks, NEW g \in Regions,
             AddRegionOverflow(t, g)
      PROVE  Allocates
    <2>1. UNCHANGED <<switches, regions>> /\ pools' = [pools EXCEPT !.region = @ + 1]
        BY <1>4 DEF AddRegionOverflow
    <2>2. Grows
        BY <2>1 DEF Grows, Shapes, PoolsOk, RegionsOk
    <2> QED
        BY <2>1, <2>2, NoneMore
<1>5. ASSUME NEW t \in Tasks, NEW n \in Names,
             AddDevice(t, n)
      PROVE  Allocates
    <2>1. UNCHANGED <<switches, pools, regions>>
        BY <1>5 DEF AddDevice
    <2> QED
        BY <2>1, Quiet, NoneMore
<1>6. ASSUME NEW t \in Tasks, NEW r \in DOMAIN routers,
             RemoveRouter(t, r)
      PROVE  Allocates
    <2>1. UNCHANGED <<pools, regions>>
        BY <1>6 DEF RemoveRouter
    <2>2. \A s \in DOMAIN switches' : s \in DOMAIN switches /\ switches'[s].cidr = switches[s].cidr
        BY <1>6 DEF RemoveRouter, TakeHost, HostsLeft, Drop, Shapes, SwitchesOk,
           IsSwitch
    <2> QED
        BY <2>1, <2>2, Quiet, NoneMore
<1>7. ASSUME NEW t \in Tasks, NEW g \in DOMAIN regions, NEW h \in DOMAIN regions,
             LinkRegions(t, g, h)
      PROVE  Allocates
    <2>1. UNCHANGED <<switches, pools, regions>>
        BY <1>7 DEF LinkRegions
    <2> QED
        BY <2>1, Quiet, NoneMore
<1>8. ASSUME NEW t \in Tasks, NEW d \in DOMAIN devices,
             RemoveDevice(t, d)
      PROVE  Allocates
    <2>1. UNCHANGED <<switches, pools, regions>>
        BY <1>8 DEF RemoveDevice
    <2> QED
        BY <2>1, Quiet, NoneMore
<1>9. ASSUME NEW t \in Tasks, NEW d \in DOMAIN devices, NEW i \in Ifaces, NEW r \in DOMAIN routers,
             ReplugPrepare(t, d, i, r)
      PROVE  Allocates
    <2>1. UNCHANGED <<pools, regions>>
        BY <1>9 DEF ReplugPrepare
    <2>2. \A s \in DOMAIN switches' : s \in DOMAIN switches /\ switches'[s].cidr = switches[s].cidr
        BY <1>9 DEF ReplugPrepare, TakeHost, HostsLeft, Drop, Shapes, SwitchesOk,
           IsSwitch
    <2> QED
        BY <2>1, <2>2, Quiet, NoneMore
<1>10. ASSUME NEW t \in Tasks, NEW d \in DOMAIN devices, NEW i \in DOMAIN devices[d].ifaces,
             RenewIp(t, d, i)
      PROVE  Allocates
    <2>1. UNCHANGED <<pools, regions>>
        BY <1>10 DEF RenewIp
    <2>2. PICK u : HostsLeft(u) /\ switches' = TakeHost(u)
        BY <1>10 DEF RenewIp
    <2>3. \A s \in DOMAIN switches' : s \in DOMAIN switches /\ switches'[s].cidr = switches[s].cidr
        BY <2>2 DEF TakeHost, HostsLeft, Shapes, SwitchesOk, IsSwitch
    <2> QED
        BY <2>1, <2>3, Quiet, NoneMore
<1>11. ASSUME NEW t \in Tasks, NEW d \in DOMAIN devices, NEW i \in DOMAIN devices[d].ifaces,
             RemoveIface(t, d, i)
      PROVE  Allocates
    <2>1. UNCHANGED <<switches, pools, regions>>
        BY <1>11 DEF RemoveIface
    <2> QED
        BY <2>1, Quiet, NoneMore
<1>12. ASSUME NEW t \in Tasks,
             BuildNoBlock(t)
      PROVE  Allocates
    <2>1. \A s \in DOMAIN switches' :
              \/ s = nextId + 1 /\ switches'[s].cidr = NoCidr
              \/ s # nextId + 1 /\ s \in DOMAIN switches /\ switches'[s].cidr = switches[s].cidr
        BY <1>12 DEF BuildNoBlock, Put, SwitchRec, Shapes, SwitchesOk, NodesOk
    <2>2. Grows
        BY <1>12, Quiet DEF BuildNoBlock
    <2> QED
        BY <2>1, <2>2 DEF Allocates, NewSwitch
<1>13. ASSUME NEW t \in Tasks,
             BuildNoUplink(t)
      PROVE  Allocates
    <2>1. task[t].pool \in {"private", "public"} /\ ~BlockFull(task[t])
        BY <1>13 DEF BuildNoUplink, Shapes, TasksOk
    <2>2. IF Regional(task[t])
          THEN /\ regions' = [regions EXCEPT ![task[t].region].next = @ + 1]
               /\ pools'.region = pools.region /\ pools'.public = pools.public /\ pools'.private = pools.private
          ELSE /\ regions' = regions /\ pools'.region = pools.region
               /\ pools'[task[t].pool] = pools[task[t].pool] + 1
               /\ pools'.public = pools.public \/ pools'.public = pools.public + 1
               /\ pools'.private = pools.private \/ pools'.private = pools.private + 1
        BY <1>13, <2>1 DEF BuildNoUplink, Shapes, PoolsOk, TakeSubnet
    <2>3. Grows
        <3>1. /\ pools.private <= pools'.private /\ pools.public <= pools'.public
              /\ pools.region <= pools'.region
            BY <2>2 DEF Shapes, PoolsOk
        <3>2. CASE Regional(task[t])
            BY <2>2, <3>1, <3>2 DEF Grows, Regional, Shapes, RegionsOk, IsBlock,
               Table
        <3>3. CASE ~Regional(task[t])
            BY <2>2, <3>1, <3>3 DEF Grows, Shapes, RegionsOk
        <3> QED
            BY <3>2, <3>3
    <2>4. \A s \in DOMAIN switches' :
              \/ s = nextId + 1 /\ switches'[s].cidr = Subnet(task[t])
              \/ s # nextId + 1 /\ s \in DOMAIN switches /\ switches'[s].cidr = switches[s].cidr
        BY <1>13 DEF BuildNoUplink, Put, SwitchRec, Shapes, SwitchesOk, NodesOk
    <2>5. InPools' => \A c : c = Subnet(task[t]) => ~Given(c) /\ Given(c)'
        BY <2>1, <2>2, NewSubnet
    <2>6. PICK c : c = Subnet(task[t])
        OBVIOUS
    <2> QED
        BY ZenonT(40), <2>3, <2>4, <2>5, <2>6 DEF Allocates, NewSwitch
<1>14. ASSUME NEW t \in Tasks,
             BuildConnected(t)
      PROVE  Allocates
    <2>1. task[t].pool \in {"private", "public"} /\ ~BlockFull(task[t])
        BY <1>14 DEF BuildConnected, Shapes, TasksOk
    <2>2. IF Regional(task[t])
          THEN /\ regions' = [regions EXCEPT ![task[t].region].next = @ + 1]
               /\ pools'.region = pools.region /\ pools'.public = pools.public /\ pools'.private = pools.private
          ELSE /\ regions' = regions /\ pools'.region = pools.region
               /\ pools'[task[t].pool] = pools[task[t].pool] + 1
               /\ pools'.public = pools.public \/ pools'.public = pools.public + 1
               /\ pools'.private = pools.private \/ pools'.private = pools.private + 1
        BY <1>14, <2>1 DEF BuildConnected, Shapes, PoolsOk
    <2>3. Grows
        <3>1. /\ pools.private <= pools'.private /\ pools.public <= pools'.public
              /\ pools.region <= pools'.region
            BY <2>2 DEF Shapes, PoolsOk
        <3>2. CASE Regional(task[t])
            BY <2>2, <3>1, <3>2 DEF Grows, Regional, Shapes, RegionsOk, IsBlock,
               Table
        <3>3. CASE ~Regional(task[t])
            BY <2>2, <3>1, <3>3 DEF Grows, Shapes, RegionsOk
        <3> QED
            BY <3>2, <3>3
    <2>4. \A s \in DOMAIN switches' :
              \/ s = nextId + 1 /\ switches'[s].cidr = Subnet(task[t])
              \/ s # nextId + 1 /\ s \in DOMAIN switches /\ switches'[s].cidr = switches[s].cidr
        <3> DEFINE up == Above(task[t])
                   old == IF up = Ix THEN switches ELSE TakeHost(up)
        <3>1. /\ switches' = Put(old, nextId + 1,
                                 SwitchRec(task[t].name, Subnet(task[t]), nextId, FirstHost))
              /\ up = Ix \/ HostsLeft(up)
            BY <1>14 DEF BuildConnected
        <3>2. nextId + 1 \notin DOMAIN switches
            BY DEF Shapes, SwitchesOk, NodesOk
        <3>3. /\ DOMAIN old = DOMAIN switches
              /\ \A s \in DOMAIN switches : old[s].cidr = switches[s].cidr
            BY <3>1 DEF TakeHost, HostsLeft, Shapes, SwitchesOk, IsSwitch
        <3> HIDE DEF old, up
        <3> QED
            BY <3>1, <3>2, <3>3 DEF Put, SwitchRec
    <2>5. InPools' => \A c : c = Subnet(task[t]) => ~Given(c) /\ Given(c)'
        BY <2>1, <2>2, NewSubnet
    <2>6. PICK c : c = Subnet(task[t])
        OBVIOUS
    <2> QED
        BY ZenonT(40), <2>3, <2>4, <2>5, <2>6 DEF Allocates, NewSwitch
<1>15. ASSUME NEW t \in Tasks,
             SetupCreate(t) \/ SetupUplink(t) \/ SetupRoutes(t) \/
             SetupFails(t) \/ PublishRouter(t) \/ PublishRegion(t) \/
             Abandon(t) \/ BuildDevice(t) \/ SetupDevice(t) \/
             PublishDevice(t) \/ CloseNamespace(t) \/ ReplugFinish(t)
      PROVE  Allocates
    <2>1. UNCHANGED <<switches, pools, regions>>
        BY <1>15 DEF SetupCreate, SetupUplink, SetupRoutes,
           SetupFails, PublishRouter, PublishRegion, Abandon,
           BuildDevice, SetupDevice, PublishDevice,
           CloseNamespace, ReplugFinish
    <2> QED
        BY <2>1, Quiet, NoneMore
<1>16. ASSUME NEW t \in Tasks, NEW i \in Ifaces, NEW r \in DOMAIN routers,
             AddIface(t, i, r)
      PROVE  Allocates
    <2>1. UNCHANGED <<pools, regions>>
        BY <1>16 DEF AddIface
    <2>2. \A s \in DOMAIN switches' : s \in DOMAIN switches /\ switches'[s].cidr = switches[s].cidr
        BY <1>16 DEF AddIface, TakeHost, HostsLeft, Drop, Shapes, SwitchesOk,
           IsSwitch
    <2> QED
        BY <2>1, <2>2, Quiet, NoneMore
<1>17. ASSUME NEW t \in Tasks, NEW i \in Ifaces, NEW r \in DOMAIN routers,
             AddIfaceFails(t, i, r)
      PROVE  Allocates
    <2>1. UNCHANGED <<pools, regions>>
        BY <1>17 DEF AddIfaceFails
    <2>2. \A s \in DOMAIN switches' : s \in DOMAIN switches /\ switches'[s].cidr = switches[s].cidr
        BY <1>17 DEF AddIfaceFails, TakeHost, HostsLeft, Drop, Shapes, SwitchesOk,
           IsSwitch
    <2> QED
        BY <2>1, <2>2, Quiet, NoneMore
<1>18. CASE UNCHANGED vars
    <2>1. UNCHANGED <<switches, pools, regions>>
        BY <1>18 DEF vars
    <2> QED
        BY <2>1, Quiet, NoneMore
<1> QED
    BY <1>1, <1>2, <1>3, <1>4, <1>5, <1>6, <1>7, <1>8, <1>9, <1>10, <1>11,
       <1>12, <1>13, <1>14, <1>15, <1>16, <1>17, <1>18 DEF Next, CallStep,
       BuildStep, SetupStep, DeviceStep

LEMMA SubnetsStep == Shapes /\ Shapes' /\ SubnetsInv /\ [Next]_vars => SubnetsInv'
BY AllocStep, OneMore

LEMMA SubnetsAlways == Spec => [](Shapes /\ SubnetsInv)
<1>1. Init => Shapes /\ SubnetsInv
    BY ShapesInit, SubnetsInit
<1>2. Shapes /\ SubnetsInv /\ [Next]_vars => (Shapes /\ SubnetsInv)'
    BY ShapesStep, SubnetsStep
<1> QED
    BY <1>1, <1>2, PTL DEF Spec

(* No two switches have one subnet while the pools last, whatever was       *)
(* removed in between and however calls overlap (core.rs:1364-1390,         *)
(* core.rs:1490-1507).                                                      *)
THEOREM DisjointSubnets == Spec => []SubnetsDisjoint
<1>1. SubnetsInv => SubnetsDisjoint
    BY DEF SubnetsInv, SubnetsDisjoint
<1> QED
    BY SubnetsAlways, <1>1, PTL

-----------------------------------------------------------------------------
(* Names.  A name that only one node has maps to that node.                 *)

NamesInv ==
    /\ \A r \in DOMAIN routers :
           routers[r].name \in shared \/ (routers[r].name \in DOMAIN names /\ names[routers[r].name] = r)
    /\ \A d \in DOMAIN devices :
           devices[d].name \in shared \/ (devices[d].name \in DOMAIN names /\ names[devices[d].name] = d)

LEMMA NamesInit == Init => NamesInv
BY DEF Init, NamesInv

\* The nodes and their names stay.
LEMMA SameNodes ==
    ASSUME NamesInv, UNCHANGED <<names, shared>>,
           DOMAIN routers' = DOMAIN routers, DOMAIN devices' = DOMAIN devices,
           \A r \in DOMAIN routers : routers'[r].name = routers[r].name,
           \A d \in DOMAIN devices : devices'[d].name = devices[d].name
    PROVE  NamesInv'
BY DEF NamesInv

\* A name moves to a new node: if a node had it, two have it from then on.
Moved(n) ==
    /\ shared \subseteq shared'
    /\ n \in DOMAIN names' /\ names'[n] = nextId
    /\ \A x \in DOMAIN names :
          x \in DOMAIN names' /\ (names'[x] = names[x] \/ x \notin Carried \/ x \in shared')

LEMMA Registered ==
    ASSUME NEW n \in Names \cup {RegionRouter(g) : g \in Regions}, RegisterNames(n)
    PROVE  Moved(n)
<1>1. SubName(n) # n
    BY NamesAssumption
<1> QED
    BY <1>1 DEF RegisterNames, Moved, Put

LEMMA RegisteredDevice ==
    ASSUME NEW n, names' = Put(names, n, nextId), shared' = shared \cup ({n} \cap Carried)
    PROVE  Moved(n)
BY DEF Moved, Put

LEMMA NewRouter ==
    ASSUME NodesOk, NamesInv, NEW n, Moved(n), devices' = devices,
           \A r \in DOMAIN routers' :
               \/ r = nextId /\ routers'[r].name = n
               \/ r \in DOMAIN routers /\ routers'[r].name = routers[r].name
    PROVE  NamesInv'
<1>1. \A r \in DOMAIN routers : routers[r].name \in Carried
    BY DEF Carried
<1>2. \A d \in DOMAIN devices : devices[d].name \in Carried
    BY DEF Carried
<1> QED
    BY <1>1, <1>2 DEF NamesInv, Moved

LEMMA NewDevice ==
    ASSUME NodesOk, NamesInv, NEW n, Moved(n), routers' = routers,
           \A d \in DOMAIN devices' :
               \/ d = nextId /\ devices'[d].name = n
               \/ d \in DOMAIN devices /\ devices'[d].name = devices[d].name
    PROVE  NamesInv'
<1>1. \A r \in DOMAIN routers : routers[r].name \in Carried
    BY DEF Carried
<1>2. \A d \in DOMAIN devices : devices[d].name \in Carried
    BY DEF Carried
<1> QED
    BY <1>1, <1>2 DEF NamesInv, Moved

LEMMA NamesStep == Shapes /\ Shapes' /\ NamesInv /\ [Next]_vars => NamesInv'
<1> SUFFICES ASSUME Shapes /\ Shapes' /\ NamesInv, [Next]_vars PROVE NamesInv'
    OBVIOUS
<1> USE DEF Call, Start, coreVars
<1>1. ASSUME NEW t \in Tasks, NEW n \in Names, NEW p \in {"private", "public"}, NEW w \in Places,
             AddRouter(t, n, p, w)
      PROVE  NamesInv'
    <2>1. UNCHANGED <<names, shared, routers, devices>>
        BY <1>1 DEF AddRouter
    <2> QED
        BY <2>1, SameNodes
<1>2. ASSUME NEW t \in Tasks, NEW g \in Regions,
             AddRegion(t, g)
      PROVE  NamesInv'
    <2>1. Moved(RegionRouter(g))
        BY <1>2, Registered DEF AddRegion, RegionRegistered
    <2>2. devices' = devices /\ \A r \in DOMAIN routers' :
               \/ r = nextId /\ routers'[r].name = RegionRouter(g)
               \/ r \in DOMAIN routers /\ routers'[r].name = routers[r].name
        BY <1>2 DEF AddRegion, RegionRegistered, Put, RouterRec, RegionRec
    <2> QED
        BY <2>1, <2>2, NewRouter DEF Shapes
<1>3. ASSUME NEW t \in Tasks, NEW g \in Regions,
             AddRegionNoAddress(t, g)
      PROVE  NamesInv'
    <2>1. Moved(RegionRouter(g))
        BY <1>3, Registered DEF AddRegionNoAddress, RegionRegistered
    <2>2. devices' = devices /\ \A r \in DOMAIN routers' :
               \/ r = nextId /\ routers'[r].name = RegionRouter(g)
               \/ r \in DOMAIN routers /\ routers'[r].name = routers[r].name
        BY <1>3 DEF AddRegionNoAddress, RegionRegistered, Put, RouterRec, RegionRec
    <2> QED
        BY <2>1, <2>2, NewRouter DEF Shapes
<1>4. ASSUME NEW t \in Tasks, NEW g \in Regions,
             AddRegionOverflow(t, g)
      PROVE  NamesInv'
    <2>1. Moved(RegionRouter(g))
        BY <1>4, RegisteredDevice DEF AddRegionOverflow
    <2>2. devices' = devices /\ \A r \in DOMAIN routers' :
               \/ r = nextId /\ routers'[r].name = RegionRouter(g)
               \/ r \in DOMAIN routers /\ routers'[r].name = routers[r].name
        BY <1>4 DEF AddRegionOverflow, Put, RouterRec, RegionRec
    <2> QED
        BY <2>1, <2>2, NewRouter DEF Shapes
<1>5. ASSUME NEW t \in Tasks, NEW n \in Names,
             AddDevice(t, n)
      PROVE  NamesInv'
    <2>1. Moved(n)
        BY <1>5, RegisteredDevice DEF AddDevice
    <2>2. routers' = routers /\ \A d \in DOMAIN devices' :
               \/ d = nextId /\ devices'[d].name = n
               \/ d \in DOMAIN devices /\ devices'[d].name = devices[d].name
        BY <1>5 DEF AddDevice, Put
    <2> QED
        BY <2>1, <2>2, NewDevice DEF Shapes
<1>6. ASSUME NEW t \in Tasks, NEW r \in DOMAIN routers,
             RemoveRouter(t, r)
      PROVE  NamesInv'
    BY <1>6 DEF RemoveRouter, NamesInv, Drop, Shapes, NodesOk
<1>7. ASSUME NEW t \in Tasks, NEW g \in DOMAIN regions, NEW h \in DOMAIN regions,
             LinkRegions(t, g, h)
      PROVE  NamesInv'
    <2>1. UNCHANGED <<names, shared, routers, devices>>
        BY <1>7 DEF LinkRegions
    <2> QED
        BY <2>1, SameNodes
<1>8. ASSUME NEW t \in Tasks, NEW d \in DOMAIN devices,
             RemoveDevice(t, d)
      PROVE  NamesInv'
    BY <1>8 DEF RemoveDevice, NamesInv, Drop, Shapes, NodesOk
<1>9. ASSUME NEW t \in Tasks, NEW d \in DOMAIN devices, NEW i \in Ifaces, NEW r \in DOMAIN routers,
             ReplugPrepare(t, d, i, r)
      PROVE  NamesInv'
    <2>1. UNCHANGED <<names, shared, routers, devices>>
        BY <1>9 DEF ReplugPrepare
    <2> QED
        BY <2>1, SameNodes
<1>10. ASSUME NEW t \in Tasks, NEW d \in DOMAIN devices, NEW i \in DOMAIN devices[d].ifaces,
             RenewIp(t, d, i)
      PROVE  NamesInv'
    <2>1. DOMAIN devices' = DOMAIN devices /\ \A e \in DOMAIN devices : devices'[e].name = devices[e].name
        BY <1>10 DEF RenewIp, Shapes, NodesOk, IsDevice, Table
    <2>2. UNCHANGED <<names, shared, routers>>
        BY <1>10 DEF RenewIp
    <2> QED
        BY <2>1, <2>2, SameNodes
<1>11. ASSUME NEW t \in Tasks, NEW d \in DOMAIN devices, NEW i \in DOMAIN devices[d].ifaces,
             RemoveIface(t, d, i)
      PROVE  NamesInv'
    <2>1. DOMAIN devices' = DOMAIN devices /\ \A e \in DOMAIN devices : devices'[e].name = devices[e].name
        BY <1>11 DEF RemoveIface, Shapes, NodesOk, IsDevice, Table
    <2>2. UNCHANGED <<names, shared, routers>>
        BY <1>11 DEF RemoveIface
    <2> QED
        BY <2>1, <2>2, SameNodes
<1>12. ASSUME NEW t \in Tasks,
             BuildNoBlock(t)
      PROVE  NamesInv'
    <2>1. task[t].name \in Names
        BY <1>12 DEF BuildNoBlock, Shapes, TasksOk
    <2>2. Moved(task[t].name)
        BY <1>12, <2>1, Registered DEF BuildNoBlock
    <2>3. devices' = devices /\ \A r \in DOMAIN routers' :
               \/ r = nextId /\ routers'[r].name = task[t].name
               \/ r \in DOMAIN routers /\ routers'[r].name = routers[r].name
        BY <1>12 DEF BuildNoBlock, Put, RouterRec
    <2> QED
        BY <2>2, <2>3, NewRouter DEF Shapes
<1>13. ASSUME NEW t \in Tasks,
             BuildNoUplink(t)
      PROVE  NamesInv'
    <2>1. task[t].name \in Names
        BY <1>13 DEF BuildNoUplink, Shapes, TasksOk
    <2>2. Moved(task[t].name)
        BY <1>13, <2>1, Registered DEF BuildNoUplink
    <2>3. devices' = devices /\ \A r \in DOMAIN routers' :
               \/ r = nextId /\ routers'[r].name = task[t].name
               \/ r \in DOMAIN routers /\ routers'[r].name = routers[r].name
        BY <1>13 DEF BuildNoUplink, Put, RouterRec
    <2> QED
        BY <2>2, <2>3, NewRouter DEF Shapes
<1>14. ASSUME NEW t \in Tasks,
             BuildConnected(t)
      PROVE  NamesInv'
    <2>1. task[t].name \in Names
        BY <1>14 DEF BuildConnected, Shapes, TasksOk
    <2>2. Moved(task[t].name)
        BY <1>14, <2>1, Registered DEF BuildConnected
    <2>3. devices' = devices /\ \A r \in DOMAIN routers' :
               \/ r = nextId /\ routers'[r].name = task[t].name
               \/ r \in DOMAIN routers /\ routers'[r].name = routers[r].name
        BY <1>14 DEF BuildConnected, Put, RouterRec
    <2> QED
        BY <2>2, <2>3, NewRouter DEF Shapes
<1>15. ASSUME NEW t \in Tasks,
             SetupCreate(t) \/ SetupUplink(t) \/ SetupRoutes(t) \/
             SetupFails(t) \/ Abandon(t) \/ BuildDevice(t) \/
             SetupDevice(t) \/ PublishDevice(t) \/ CloseNamespace(t)
      PROVE  NamesInv'
    <2>1. UNCHANGED <<names, shared, routers, devices>>
        BY <1>15 DEF SetupCreate, SetupUplink, SetupRoutes,
           SetupFails, Abandon, BuildDevice, SetupDevice,
           PublishDevice, CloseNamespace
    <2> QED
        BY <2>1, SameNodes
<1>16. ASSUME NEW t \in Tasks,
             PublishRouter(t)
      PROVE  NamesInv'
    <2>1. DOMAIN routers' = DOMAIN routers /\ \A r \in DOMAIN routers : routers'[r].name = routers[r].name
        BY <1>16 DEF PublishRouter, Shapes, NodesOk, IsRouter, Table
    <2>2. UNCHANGED <<names, shared, devices>>
        BY <1>16 DEF PublishRouter
    <2> QED
        BY <2>1, <2>2, SameNodes
<1>17. ASSUME NEW t \in Tasks,
             PublishRegion(t)
      PROVE  NamesInv'
    <2>1. DOMAIN routers' = DOMAIN routers /\ \A r \in DOMAIN routers : routers'[r].name = routers[r].name
        BY <1>17 DEF PublishRegion, Shapes, NodesOk, IsRouter, Table
    <2>2. UNCHANGED <<names, shared, devices>>
        BY <1>17 DEF PublishRegion
    <2> QED
        BY <2>1, <2>2, SameNodes
<1>18. ASSUME NEW t \in Tasks, NEW i \in Ifaces, NEW r \in DOMAIN routers,
             AddIface(t, i, r)
      PROVE  NamesInv'
    <2>1. DOMAIN devices' = DOMAIN devices /\ \A e \in DOMAIN devices : devices'[e].name = devices[e].name
        BY <1>18 DEF AddIface, Shapes, NodesOk, IsDevice, Table
    <2>2. UNCHANGED <<names, shared, routers>>
        BY <1>18 DEF AddIface
    <2> QED
        BY <2>1, <2>2, SameNodes
<1>19. ASSUME NEW t \in Tasks, NEW i \in Ifaces, NEW r \in DOMAIN routers,
             AddIfaceFails(t, i, r)
      PROVE  NamesInv'
    <2>1. UNCHANGED <<names, shared, routers, devices>>
        BY <1>19 DEF AddIfaceFails
    <2> QED
        BY <2>1, SameNodes
<1>20. ASSUME NEW t \in Tasks,
             ReplugFinish(t)
      PROVE  NamesInv'
    <2>1. DOMAIN devices' = DOMAIN devices /\ \A e \in DOMAIN devices : devices'[e].name = devices[e].name
        <3>1. CASE devices' = devices
            BY <3>1
        <3>2. CASE devices' # devices
            <4>1. PICK e, c : e \in DOMAIN devices /\ devices' = [devices EXCEPT ![e].ifaces = c]
                BY <1>20, <3>2 DEF ReplugFinish
            <4> QED
                BY <4>1 DEF Shapes, NodesOk, IsDevice
        <3> QED
            BY <3>1, <3>2
    <2>2. UNCHANGED <<names, shared, routers>>
        BY <1>20 DEF ReplugFinish
    <2> QED
        BY <2>1, <2>2, SameNodes
<1>21. CASE UNCHANGED vars
    <2>1. UNCHANGED <<names, shared, routers, devices>>
        BY <1>21 DEF vars
    <2> QED
        BY <2>1, SameNodes
<1> QED
    BY <1>1, <1>2, <1>3, <1>4, <1>5, <1>6, <1>7, <1>8, <1>9, <1>10, <1>11,
       <1>12, <1>13, <1>14, <1>15, <1>16, <1>17, <1>18, <1>19, <1>20,
       <1>21 DEF Next, CallStep, BuildStep, SetupStep, DeviceStep

LEMMA NamesAlways == Spec => [](Shapes /\ NamesInv)
<1>1. Init => Shapes /\ NamesInv
    BY ShapesInit, NamesInit
<1>2. Shapes /\ NamesInv /\ [Next]_vars => (Shapes /\ NamesInv)'
    BY ShapesStep, NamesStep
<1> QED
    BY <1>1, <1>2, PTL DEF Spec

(* A node is found by its name unless two nodes had it at a time            *)
(* (lab.rs:900, lab.rs:937, core.rs:1219), whatever is removed and however  *)
(* builders interleave.                                                     *)
THEOREM NodesFound == Spec => []NamesResolve
<1>1. NamesInv => NamesResolve
    BY DEF NamesInv, NamesResolve, RouterByName, DeviceByName
<1> QED
    BY NamesAlways, <1>1, PTL

-----------------------------------------------------------------------------
(* Wiring.  A switch that has an owner is the downlink of a live router,    *)
(* and the other way round; every interface is on such a switch.            *)

SwitchesWired ==
    /\ nextId > 0
    /\ Ix \in DOMAIN switches /\ switches[Ix].owner = NoNode /\ switches[Ix].cidr = IxCidr
    /\ \A s \in DOMAIN switches :
         /\ s # NoNode /\ switches[s].next \in Nat
         /\ switches[s].owner # NoNode =>
              /\ switches[s].owner \in DOMAIN routers
              /\ routers[switches[s].owner].downlink = s
              /\ switches[s].cidr # NoCidr
    /\ \A r \in DOMAIN routers :
         /\ r # NoNode
         /\ routers[r].downlink # NoNode =>
              routers[r].downlink \in DOMAIN switches /\ switches[routers[r].downlink].owner = r
IfacesWired ==
    \A d \in DOMAIN devices : \A i \in DOMAIN devices[d].ifaces :
        /\ devices[d].ifaces[i].sw \in DOMAIN switches
        /\ switches[devices[d].ifaces[i].sw].owner # NoNode
NoUnwrap == panic \notin {"upstream", "gateway"}

WiredInv == SwitchesWired /\ IfacesWired /\ NoUnwrap

LEMMA WiredInit == Init => WiredInv
BY DEF Init, WiredInv, SwitchesWired, IfacesWired, NoUnwrap, NoNode, Ix, FirstHost

(* What a step does to the switches: it keeps them, counting hosts, or      *)
(* enters one, or removes one with the router it belongs to.                *)

SwitchKept(s) ==
    /\ s \in DOMAIN switches
    /\ switches'[s].cidr = switches[s].cidr /\ switches'[s].owner = switches[s].owner
    /\ switches'[s].next = switches[s].next \/ switches'[s].next = switches[s].next + 1
RouterKept(r) ==
    /\ r \in DOMAIN routers
    /\ routers'[r].downlink = routers[r].downlink /\ routers'[r].up = routers[r].up
IfaceKept(d, i) ==
    /\ d \in DOMAIN devices /\ i \in DOMAIN devices[d].ifaces
    /\ devices'[d].ifaces[i] = devices[d].ifaces[i]

SameCore ==
    /\ DOMAIN switches' = DOMAIN switches /\ DOMAIN routers' = DOMAIN routers
    /\ \A s \in DOMAIN switches : SwitchKept(s)
    /\ \A r \in DOMAIN routers : RouterKept(r)
    /\ nextId' = nextId \/ nextId' = nextId + 1
\* A router is entered with a switch or, when it has no subnet, apart from it.
NewCore(r, s) ==
    /\ nextId' = nextId + 2
    /\ DOMAIN switches' = DOMAIN switches \cup {nextId + 1}
    /\ \A q \in DOMAIN switches : SwitchKept(q)
    /\ switches'[nextId + 1] = s
    /\ DOMAIN routers' = DOMAIN routers \cup {nextId}
    /\ \A q \in DOMAIN routers : RouterKept(q)
    /\ routers'[nextId] = r
    /\ s.next \in Nat
    /\ \/ r.downlink = NoNode /\ s.owner = NoNode
       \/ r.downlink = nextId + 1 /\ s.owner = nextId /\ s.cidr # NoCidr

LEMMA SameCoreWired == Shapes /\ SwitchesWired /\ SameCore => SwitchesWired'
BY DEF Shapes, NodesOk, SwitchesWired, SameCore, SwitchKept, RouterKept, Ix, NoNode

LEMMA NewCoreWired ==
    ASSUME Shapes, SwitchesWired, NEW r, NEW s, NewCore(r, s)
    PROVE  SwitchesWired'
<1>1. nextId \in Nat /\ nextId > 0 /\ Ix < nextId
    BY DEF Shapes, NodesOk, SwitchesOk, SwitchesWired
<1>2. nextId \notin DOMAIN routers /\ nextId + 1 \notin DOMAIN switches
    BY <1>1 DEF Shapes, NodesOk, SwitchesOk
<1>3. /\ nextId' > 0
      /\ Ix \in DOMAIN switches' /\ switches'[Ix].owner = NoNode /\ switches'[Ix].cidr = IxCidr
    BY <1>1 DEF NewCore, SwitchKept, SwitchesWired
<1>4. ASSUME NEW q \in DOMAIN switches'
      PROVE  /\ q # NoNode /\ switches'[q].next \in Nat
             /\ switches'[q].owner # NoNode =>
                  /\ switches'[q].owner \in DOMAIN routers'
                  /\ routers'[switches'[q].owner].downlink = q
                  /\ switches'[q].cidr # NoCidr
    <2>1. CASE q \in DOMAIN switches
        BY <1>2, <2>1 DEF NewCore, SwitchKept, RouterKept, SwitchesWired
    <2>2. CASE q = nextId + 1
        BY <1>1, <1>2, <2>2 DEF NewCore, NoNode
    <2> QED
        BY <2>1, <2>2 DEF NewCore
<1>5. ASSUME NEW q \in DOMAIN routers'
      PROVE  /\ q # NoNode
             /\ routers'[q].downlink # NoNode =>
                  routers'[q].downlink \in DOMAIN switches' /\ switches'[routers'[q].downlink].owner = q
    <2>1. CASE q \in DOMAIN routers
        BY <1>2, <2>1 DEF NewCore, SwitchKept, RouterKept, SwitchesWired
    <2>2. CASE q = nextId
        BY <1>1, <1>2, <2>2 DEF NewCore, NoNode
    <2> QED
        BY <2>1, <2>2 DEF NewCore
<1> QED
    BY <1>3, <1>4, <1>5 DEF SwitchesWired

\* The router of a region without a subnet has no switch.
LoneRouter ==
    /\ nextId' = nextId + 1 /\ switches' = switches
    /\ DOMAIN routers' = DOMAIN routers \cup {nextId}
    /\ \A q \in DOMAIN routers : RouterKept(q)
    /\ routers'[nextId].downlink = NoNode /\ routers'[nextId].up = NoAddr

LEMMA LoneRouterWired == Shapes /\ SwitchesWired /\ LoneRouter => SwitchesWired'
<1> SUFFICES ASSUME Shapes, SwitchesWired, LoneRouter PROVE SwitchesWired'
    OBVIOUS
<1>1. nextId \in Nat /\ nextId > 0 /\ nextId \notin DOMAIN routers
    BY DEF Shapes, NodesOk, SwitchesWired
<1> QED
    BY <1>1 DEF SwitchesWired, LoneRouter, RouterKept, NoNode

\* A router goes with the switch that is its downlink.
RouterGone(r) ==
    /\ r \in DOMAIN routers
    /\ nextId' = nextId
    /\ DOMAIN switches' = DOMAIN switches \ {routers[r].downlink}
    /\ \A q \in DOMAIN switches' : SwitchKept(q)
    /\ DOMAIN routers' = DOMAIN routers \ {r}
    /\ \A q \in DOMAIN routers' : RouterKept(q)

LEMMA RouterGoneWired ==
    ASSUME Shapes, SwitchesWired, NEW r, RouterGone(r)
    PROVE  SwitchesWired'
<1>1. routers[r].downlink # Ix
    BY DEF RouterGone, SwitchesWired, NoNode, Ix
<1>2. \A s \in DOMAIN switches' : switches[s].owner # r
    BY DEF RouterGone, SwitchesWired
<1> QED
    BY <1>1, <1>2 DEF SwitchesWired, RouterGone, SwitchKept, RouterKept

CoreMoves ==
    \/ SameCore \/ LoneRouter
    \/ \E r, s : NewCore(r, s)
    \/ \E r : RouterGone(r) /\ Attached(routers[r].downlink) = {}

LEMMA SameCoreWhen ==
    ASSUME UNCHANGED <<switches, routers>>, nextId' = nextId \/ nextId' = nextId + 1,
           Shapes, SwitchesWired
    PROVE  SameCore
BY DEF SameCore, SwitchKept, RouterKept, Shapes, NodesOk

LEMMA HostTaken ==
    ASSUME Shapes, SwitchesWired, NEW s \in DOMAIN switches, switches' = TakeHost(s),
           routers' = routers, nextId' = nextId \/ nextId' = nextId + 1
    PROVE  SameCore
<1>1. DOMAIN switches' = DOMAIN switches /\ \A q \in DOMAIN switches : IsSwitch(switches[q])
    BY DEF TakeHost, Shapes, SwitchesOk
<1>2. switches'[s].next = switches[s].next + 1 /\ switches'[s].cidr = switches[s].cidr
        /\ switches'[s].owner = switches[s].owner
    BY <1>1 DEF TakeHost, IsSwitch
<1>3. \A q \in DOMAIN switches : q # s => switches'[q] = switches[q]
    BY DEF TakeHost
<1> QED
    BY <1>1, <1>2, <1>3 DEF SameCore, SwitchKept, RouterKept

\* A router is entered with its switch.
LEMMA NewCoreWhen ==
    ASSUME Shapes, SwitchesWired, NEW n, NEW old, NEW rec, NEW srec,
           old = switches \/ \E s \in DOMAIN switches : old = TakeHost(s),
           RegisterNames(n), routers' = Put(routers, nextId, rec),
           switches' = Put(old, nextId + 1, srec),
           srec.next \in Nat,
           \/ rec.downlink = NoNode /\ srec.owner = NoNode
           \/ rec.downlink = nextId + 1 /\ srec.owner = nextId /\ srec.cidr # NoCidr
    PROVE  NewCore(rec, srec)
<1>1. nextId \notin DOMAIN routers /\ nextId + 1 \notin DOMAIN switches /\ nextId' = nextId + 2
    BY DEF Shapes, NodesOk, SwitchesOk, RegisterNames
<1>2. /\ DOMAIN old = DOMAIN switches
      /\ \A q \in DOMAIN switches :
            /\ old[q].cidr = switches[q].cidr /\ old[q].owner = switches[q].owner
            /\ old[q].next = switches[q].next \/ old[q].next = switches[q].next + 1
    <2>1. CASE old = switches
        BY <2>1
    <2>2. ASSUME NEW s \in DOMAIN switches, old = TakeHost(s)
          PROVE  <1>2!1 /\ <1>2!2
        BY <2>2 DEF TakeHost, Shapes, SwitchesOk, IsSwitch
    <2> QED
        BY <2>1, <2>2
<1>3. /\ DOMAIN switches' = DOMAIN switches \cup {nextId + 1}
      /\ switches'[nextId + 1] = srec
      /\ \A q \in DOMAIN switches : switches'[q] = old[q]
    BY <1>1, <1>2 DEF Put
<1>4. /\ DOMAIN routers' = DOMAIN routers \cup {nextId}
      /\ routers'[nextId] = rec
      /\ \A q \in DOMAIN routers : routers'[q] = routers[q]
    BY <1>1 DEF Put
<1> QED
    BY <1>1, <1>2, <1>3, <1>4 DEF NewCore, SwitchKept, RouterKept

LEMMA SubnetReal ==
    ASSUME Shapes, NEW t \in Tasks, task[t].at = "router"
    PROVE  Subnet(task[t]) # NoCidr
<1>1. task[t].pool \in {"private", "public"}
    BY DEF Shapes, TasksOk
<1>2. \A k : Cidr("private", k) # NoCidr /\ Cidr("public", k) # NoCidr
    BY DEF Cidr, NoCidr
<1> QED
    BY <1>1, <1>2 DEF Subnet

\* Where a device gets its address: a switch that a live router owns.
LEMMA OwnedDownlink ==
    ASSUME SwitchesWired, NEW r, Downlink(r) # NoNode
    PROVE  /\ r \in DOMAIN routers /\ Downlink(r) = routers[r].downlink
           /\ Downlink(r) \in DOMAIN switches /\ switches[Downlink(r)].owner = r
           /\ Downlink(r) # Ix /\ r # NoNode /\ switches[Downlink(r)].cidr # NoCidr
<1>1. r \in DOMAIN routers /\ Downlink(r) = routers[r].downlink
    BY DEF Downlink
<1> QED
    BY <1>1 DEF SwitchesWired, Ix, NoNode

LEMMA HostsOwned ==
    ASSUME SwitchesWired, NEW s, HostsLeft(s)
    PROVE  s \in DOMAIN switches /\ s # NoNode
BY DEF SwitchesWired, HostsLeft

LEMMA CoreStep == Shapes /\ SwitchesWired /\ IfacesWired /\ [Next]_vars => CoreMoves
<1> SUFFICES ASSUME Shapes, SwitchesWired, IfacesWired, [Next]_vars PROVE CoreMoves
    OBVIOUS
<1> USE DEF Call, Start, coreVars
<1>1. ASSUME NEW t \in Tasks, NEW n \in Names, NEW p \in {"private", "public"}, NEW w \in Places,
             AddRouter(t, n, p, w)
      PROVE  CoreMoves
    BY <1>1, SameCoreWhen DEF CoreMoves, AddRouter
<1>2. ASSUME NEW t \in Tasks, NEW g \in Regions,
             AddRegion(t, g)
      PROVE  CoreMoves
    <2> DEFINE third == (pools.region * 16) % 256
               rec == [RegionRec(g, third) EXCEPT !.uplink = Ix, !.up = Addr(IxCidr, pools.ix)]
               srec == SwitchRec(RegionRouter(g), Cidr("public", third), nextId, RegionFirstHost)
    <2>1. /\ RegisterNames(RegionRouter(g)) /\ routers' = Put(routers, nextId, rec)
          /\ switches' = Put(switches, nextId + 1, srec)
        BY <1>2 DEF AddRegion, RegionRegistered
    <2>2. rec.downlink = nextId + 1 /\ srec.owner = nextId /\ srec.next \in Nat /\ srec.cidr # NoCidr
        BY DEF RegionRec, RouterRec, SwitchRec, RegionFirstHost, Cidr, NoCidr
    <2> HIDE DEF rec, srec
    <2>3. NewCore(rec, srec)
        BY <2>1, <2>2, NewCoreWhen
    <2> QED
        BY <2>3 DEF CoreMoves
<1>3. ASSUME NEW t \in Tasks, NEW g \in Regions,
             AddRegionNoAddress(t, g)
      PROVE  CoreMoves
    <2> DEFINE third == (pools.region * 16) % 256
               rec == RegionRec(g, third)
               srec == SwitchRec(RegionRouter(g), Cidr("public", third), nextId, RegionFirstHost)
    <2>1. /\ RegisterNames(RegionRouter(g)) /\ routers' = Put(routers, nextId, rec)
          /\ switches' = Put(switches, nextId + 1, srec)
        BY <1>3 DEF AddRegionNoAddress, RegionRegistered
    <2>2. rec.downlink = nextId + 1 /\ srec.owner = nextId /\ srec.next \in Nat /\ srec.cidr # NoCidr
        BY DEF RegionRec, RouterRec, SwitchRec, RegionFirstHost, Cidr, NoCidr
    <2> HIDE DEF rec, srec
    <2>3. NewCore(rec, srec)
        BY <2>1, <2>2, NewCoreWhen
    <2> QED
        BY <2>3 DEF CoreMoves
<1>4. ASSUME NEW t \in Tasks, NEW g \in Regions,
             AddRegionOverflow(t, g)
      PROVE  CoreMoves
    <2>1. nextId \notin DOMAIN routers
        BY DEF Shapes, NodesOk
    <2>2. LoneRouter
        BY <1>4, <2>1 DEF AddRegionOverflow, LoneRouter, RouterKept, Put, RouterRec
    <2> QED
        BY <2>2 DEF CoreMoves
<1>5. ASSUME NEW t \in Tasks, NEW n \in Names,
             AddDevice(t, n)
      PROVE  CoreMoves
    BY <1>5, SameCoreWhen DEF CoreMoves, AddDevice
<1>6. ASSUME NEW t \in Tasks, NEW r \in DOMAIN routers,
             RemoveRouter(t, r)
      PROVE  CoreMoves
    <2>1. RouterGone(r)
        BY <1>6 DEF RemoveRouter, RouterGone, SwitchKept, RouterKept, Drop
    <2>2. Attached(routers[r].downlink) = {}
        BY <1>6 DEF RemoveRouter
    <2> QED
        BY <2>1, <2>2 DEF CoreMoves
<1>7. ASSUME NEW t \in Tasks, NEW g \in DOMAIN regions, NEW h \in DOMAIN regions,
             LinkRegions(t, g, h)
      PROVE  CoreMoves
    <2>1. UNCHANGED <<switches, routers, nextId>>
        BY <1>7 DEF LinkRegions
    <2> QED
        BY <2>1, SameCoreWhen DEF CoreMoves
<1>8. ASSUME NEW t \in Tasks, NEW d \in DOMAIN devices,
             RemoveDevice(t, d)
      PROVE  CoreMoves
    BY <1>8, SameCoreWhen DEF CoreMoves, RemoveDevice
<1>9. ASSUME NEW t \in Tasks, NEW d \in DOMAIN devices, NEW i \in Ifaces, NEW r \in DOMAIN routers,
             ReplugPrepare(t, d, i, r)
      PROVE  CoreMoves
    <2>1. Downlink(r) \in DOMAIN switches /\ switches' = TakeHost(Downlink(r)) /\ UNCHANGED <<routers, nextId>>
        BY <1>9, HostsOwned DEF ReplugPrepare
    <2> QED
        BY <2>1, HostTaken DEF CoreMoves
<1>10. ASSUME NEW t \in Tasks, NEW d \in DOMAIN devices, NEW i \in DOMAIN devices[d].ifaces,
             RenewIp(t, d, i)
      PROVE  CoreMoves
    <2>1. PICK s \in DOMAIN switches : switches' = TakeHost(s)
        BY <1>10, HostsOwned DEF RenewIp
    <2>2. UNCHANGED <<routers, nextId>>
        BY <1>10 DEF RenewIp
    <2> QED
        BY <2>1, <2>2, HostTaken DEF CoreMoves
<1>11. ASSUME NEW t \in Tasks, NEW d \in DOMAIN devices, NEW i \in DOMAIN devices[d].ifaces,
             RemoveIface(t, d, i)
      PROVE  CoreMoves
    BY <1>11, SameCoreWhen DEF CoreMoves, RemoveIface
<1>12. ASSUME NEW t \in Tasks,
             BuildNoBlock(t)
      PROVE  CoreMoves
    <2> DEFINE b == task[t]
               rec == RouterRec(b.name, b.region, b.pool, NoNode, NoCidr)
               srec == SwitchRec(b.name, NoCidr, NoNode, FirstHost)
    <2>1. /\ RegisterNames(b.name) /\ routers' = Put(routers, nextId, rec)
          /\ switches' = Put(switches, nextId + 1, srec)
        BY <1>12 DEF BuildNoBlock
    <2>2. rec.downlink = NoNode /\ srec.owner = NoNode /\ srec.next \in Nat
        BY DEF RouterRec, SwitchRec, FirstHost
    <2> HIDE DEF rec, srec
    <2>3. NewCore(rec, srec)
        BY <2>1, <2>2, NewCoreWhen
    <2> QED
        BY <2>3 DEF CoreMoves
<1>13. ASSUME NEW t \in Tasks,
             BuildNoUplink(t)
      PROVE  CoreMoves
    <2> DEFINE b == task[t]
               rec == RouterRec(b.name, b.region, b.pool, nextId + 1, Subnet(b))
               srec == SwitchRec(b.name, Subnet(b), nextId, FirstHost)
    <2>1. /\ RegisterNames(b.name) /\ routers' = Put(routers, nextId, rec)
          /\ switches' = Put(switches, nextId + 1, srec) /\ b.at = "router"
        BY <1>13 DEF BuildNoUplink
    <2>2. rec.downlink = nextId + 1 /\ srec.owner = nextId /\ srec.next \in Nat /\ srec.cidr # NoCidr
        BY <2>1, SubnetReal DEF RouterRec, SwitchRec, FirstHost
    <2> HIDE DEF rec, srec
    <2>3. NewCore(rec, srec)
        BY <2>1, <2>2, NewCoreWhen
    <2> QED
        BY <2>3 DEF CoreMoves
<1>14. ASSUME NEW t \in Tasks,
             BuildConnected(t)
      PROVE  CoreMoves
    <2> DEFINE b == task[t]
               srec == SwitchRec(b.name, Subnet(b), nextId, FirstHost)
               old == IF Above(b) = Ix THEN switches ELSE TakeHost(Above(b))
    <2>1. PICK s, u : routers' = Put(routers, nextId,
                [RouterRec(b.name, b.region, b.pool, nextId + 1, Subnet(b)) EXCEPT !.uplink = s, !.up = u])
        BY <1>14 DEF BuildConnected
    <2> DEFINE rec == [RouterRec(b.name, b.region, b.pool, nextId + 1, Subnet(b)) EXCEPT !.uplink = s, !.up = u]
    <2>2. /\ RegisterNames(b.name) /\ routers' = Put(routers, nextId, rec)
          /\ switches' = Put(old, nextId + 1, srec) /\ b.at = "router"
        BY <1>14, <2>1 DEF BuildConnected
    <2>3. rec.downlink = nextId + 1 /\ srec.owner = nextId /\ srec.next \in Nat /\ srec.cidr # NoCidr
        BY <2>2, SubnetReal DEF RouterRec, SwitchRec, FirstHost
    <2>4. old = switches \/ \E q \in DOMAIN switches : old = TakeHost(q)
        BY <1>14, HostsOwned DEF BuildConnected
    <2> HIDE DEF rec, srec, old
    <2>5. NewCore(rec, srec)
        BY <2>2, <2>3, <2>4, NewCoreWhen
    <2> QED
        BY <2>5 DEF CoreMoves
<1>15. ASSUME NEW t \in Tasks,
             SetupCreate(t) \/ SetupUplink(t) \/ SetupRoutes(t) \/
             SetupFails(t) \/ Abandon(t) \/ BuildDevice(t) \/
             SetupDevice(t) \/ PublishDevice(t) \/ CloseNamespace(t) \/ ReplugFinish(t)
      PROVE  CoreMoves
    <2>1. UNCHANGED <<switches, routers, nextId>>
        BY <1>15 DEF SetupCreate, SetupUplink, SetupRoutes, SetupFails, Abandon,
           BuildDevice,
           SetupDevice, PublishDevice, CloseNamespace, ReplugFinish
    <2> QED
        BY <2>1, SameCoreWhen DEF CoreMoves
<1>16. ASSUME NEW t \in Tasks,
             PublishRouter(t) \/ PublishRegion(t)
      PROVE  CoreMoves
    <2>1. UNCHANGED <<switches, nextId>>
        BY <1>16 DEF PublishRouter, PublishRegion
    <2>2. routers' = routers \/ routers' = [routers EXCEPT ![task[t].id].ready = TRUE]
        BY <1>16 DEF PublishRouter, PublishRegion
    <2>3. /\ DOMAIN routers' = DOMAIN routers
          /\ \A r \in DOMAIN routers : RouterKept(r)
        BY <2>2 DEF Shapes, NodesOk, IsRouter, RouterKept
    <2> QED
        BY <2>1, <2>3 DEF CoreMoves, SameCore, SwitchKept, Shapes, NodesOk
<1>17. ASSUME NEW t \in Tasks, NEW i \in Ifaces, NEW r \in DOMAIN routers,
             AddIface(t, i, r)
      PROVE  CoreMoves
    <2>1. /\ Downlink(r) \in DOMAIN switches /\ switches' = TakeHost(Downlink(r))
          /\ UNCHANGED routers /\ nextId' = nextId + 1
        BY <1>17, HostsOwned DEF AddIface
    <2> QED
        BY <2>1, HostTaken DEF CoreMoves
<1>18. ASSUME NEW t \in Tasks, NEW i \in Ifaces, NEW r \in DOMAIN routers,
             AddIfaceFails(t, i, r)
      PROVE  CoreMoves
    <2>1. UNCHANGED routers
        BY <1>18 DEF AddIfaceFails
    <2>2. CASE HostsLeft(Downlink(r))
        BY <1>18, <2>1, <2>2, HostsOwned, HostTaken DEF AddIfaceFails, CoreMoves
    <2>3. CASE ~HostsLeft(Downlink(r))
        BY <1>18, <2>1, <2>3, SameCoreWhen DEF AddIfaceFails, CoreMoves
    <2> QED
        BY <2>2, <2>3
<1>19. CASE UNCHANGED vars
    BY <1>19, SameCoreWhen DEF CoreMoves, vars
<1> QED
    BY <1>1, <1>2, <1>3, <1>4, <1>5, <1>6, <1>7, <1>8, <1>9, <1>10, <1>11,
       <1>12, <1>13, <1>14, <1>15, <1>16, <1>17, <1>18, <1>19 DEF Next, CallStep,
       BuildStep, SetupStep, DeviceStep

LEMMA SwitchesWiredStep == Shapes /\ SwitchesWired /\ IfacesWired /\ [Next]_vars => SwitchesWired'
BY CoreStep, SameCoreWired, NewCoreWired, LoneRouterWired, RouterGoneWired DEF
   CoreMoves

(* What a step does to the interfaces of devices: none is new, or one is on *)
(* a switch that has an owner.                                              *)

IfacesKept == \A d \in DOMAIN devices' : \A i \in DOMAIN devices'[d].ifaces : IfaceKept(d, i)
IfaceGiven(D, I, s, a) ==
    /\ s \in DOMAIN switches /\ s \in DOMAIN switches'
    /\ switches[s].owner # NoNode /\ switches'[s].owner # NoNode
    /\ \A d \in DOMAIN devices' : \A i \in DOMAIN devices'[d].ifaces :
           IfaceKept(d, i) \/ (d = D /\ i = I /\ devices'[d].ifaces[i] = [sw |-> s, ip |-> a])
\* The replugs that are under way keep their addresses.
ReplugKept(t) == task'[t].at = "replug" => task[t].at = "replug" /\ task'[t].addr = task[t].addr
ReplugsKept == \A t \in Tasks : ReplugKept(t)
UpsKept == \A r \in DOMAIN routers' :
               routers'[r].up # NoAddr => r \in DOMAIN routers /\ routers'[r].up = routers[r].up
IfaceMoves ==
    \/ IfacesKept
    \/ \E d, i, s : HostsLeft(s) /\ switches' = TakeHost(s) /\ IfaceGiven(d, i, s, NextHost(s))
                    /\ pools' = pools /\ UpsKept /\ ReplugsKept
    \/ \E t \in Tasks : \E d, i, s :
           task[t].at = "replug" /\ task' = [task EXCEPT ![t] = IdleTask]
           /\ UNCHANGED <<switches, pools>> /\ UpsKept /\ IfaceGiven(d, i, s, task[t].addr)

LEMMA IfacesKeptWhen == devices' = devices => IfacesKept
BY DEF IfacesKept, IfaceKept

LEMMA IfacePut ==
    ASSUME NodesOk, NEW d \in DOMAIN devices, NEW i, NEW s \in DOMAIN switches, NEW a,
           devices' = [devices EXCEPT ![d].ifaces = Put(@, i, [sw |-> s, ip |-> a])],
           s \in DOMAIN switches', switches[s].owner # NoNode, switches'[s].owner # NoNode
    PROVE  IfaceGiven(d, i, s, a)
<1>1. IsDevice(devices[d]) /\ DOMAIN devices' = DOMAIN devices
    BY DEF NodesOk
<1>2. devices'[d].ifaces = Put(devices[d].ifaces, i, [sw |-> s, ip |-> a])
    BY <1>1 DEF IsDevice
<1>3. \A e \in DOMAIN devices : e # d => devices'[e] = devices[e]
    OBVIOUS
<1> QED
    BY <1>1, <1>2, <1>3 DEF IfaceGiven, IfaceKept, Put

LEMMA SwitchesSame ==
    ASSUME Shapes, NEW s \in DOMAIN switches, NEW q \in DOMAIN switches, switches' = TakeHost(s)
    PROVE  q \in DOMAIN switches' /\ switches'[q].owner = switches[q].owner
BY DEF TakeHost, Shapes, SwitchesOk, IsSwitch

LEMMA IfacesStep == Shapes /\ SwitchesWired /\ IfacesWired /\ [Next]_vars => IfaceMoves
<1> SUFFICES ASSUME Shapes, SwitchesWired, IfacesWired, [Next]_vars PROVE IfaceMoves
    OBVIOUS
<1> USE DEF Call, Start, coreVars
<1>1. ASSUME NEW t \in Tasks, NEW n \in Names, NEW p \in {"private", "public"}, NEW w \in Places,
             AddRouter(t, n, p, w)
      PROVE  IfaceMoves
    BY <1>1, IfacesKeptWhen DEF IfaceMoves, AddRouter
<1>2. ASSUME NEW t \in Tasks, NEW g \in Regions,
             AddRegion(t, g) \/ AddRegionNoAddress(t, g) \/ AddRegionOverflow(t, g)
      PROVE  IfaceMoves
    BY <1>2, IfacesKeptWhen DEF IfaceMoves, AddRegion, AddRegionNoAddress,
       AddRegionOverflow,
       RegionRegistered
<1>3. ASSUME NEW t \in Tasks, NEW n \in Names,
             AddDevice(t, n)
      PROVE  IfaceMoves
    <2>1. nextId \notin DOMAIN devices
        BY DEF Shapes, NodesOk
    <2>2. devices' = Put(devices, nextId, [name |-> n, ifaces |-> [i \in {} |-> NoNode]])
        BY <1>3 DEF AddDevice
    <2>3. IfacesKept
        BY <2>1, <2>2 DEF IfacesKept, IfaceKept, Put
    <2> QED
        BY <2>3 DEF IfaceMoves
<1>4. ASSUME NEW t \in Tasks, NEW r \in DOMAIN routers,
             RemoveRouter(t, r)
      PROVE  IfaceMoves
    BY <1>4, IfacesKeptWhen DEF IfaceMoves, RemoveRouter
<1>5. ASSUME NEW t \in Tasks, NEW g \in DOMAIN regions, NEW h \in DOMAIN regions,
             LinkRegions(t, g, h)
      PROVE  IfaceMoves
    <2>1. devices' = devices
        BY <1>5 DEF LinkRegions
    <2> QED
        BY <2>1, IfacesKeptWhen DEF IfaceMoves
<1>6. ASSUME NEW t \in Tasks, NEW d \in DOMAIN devices,
             RemoveDevice(t, d)
      PROVE  IfaceMoves
    BY <1>6 DEF IfaceMoves, IfacesKept, IfaceKept, RemoveDevice, Drop
<1>7. ASSUME NEW t \in Tasks, NEW d \in DOMAIN devices, NEW i \in Ifaces, NEW r \in DOMAIN routers,
             ReplugPrepare(t, d, i, r)
      PROVE  IfaceMoves
    BY <1>7, IfacesKeptWhen DEF IfaceMoves, ReplugPrepare
<1>8. ASSUME NEW t \in Tasks, NEW d \in DOMAIN devices, NEW i \in DOMAIN devices[d].ifaces,
             RenewIp(t, d, i)
      PROVE  IfaceMoves
    <2>1. PICK s : s = devices[d].ifaces[i].sw
        OBVIOUS
    <2>2. /\ HostsLeft(s) /\ switches' = TakeHost(s)
          /\ devices' = [devices EXCEPT ![d].ifaces = Put(@, i, [sw |-> s, ip |-> NextHost(s)])]
          /\ UNCHANGED <<routers, pools>>
        BY <1>8, <2>1 DEF RenewIp
    <2>3. s \in DOMAIN switches /\ switches[s].owner # NoNode
        BY <2>1 DEF IfacesWired
    <2>4. s \in DOMAIN switches' /\ switches'[s].owner # NoNode
        BY <2>2, <2>3, SwitchesSame
    <2>5. IfaceGiven(d, i, s, NextHost(s))
        BY <2>2, <2>3, <2>4, IfacePut DEF Shapes
    <2>6. ReplugsKept
        BY <1>8 DEF RenewIp, ReplugsKept, ReplugKept, IdleTask, Shapes, TasksOk
    <2> QED
        BY <2>2, <2>5, <2>6 DEF IfaceMoves, UpsKept
<1>9. ASSUME NEW t \in Tasks, NEW d \in DOMAIN devices, NEW i \in DOMAIN devices[d].ifaces,
             RemoveIface(t, d, i)
      PROVE  IfaceMoves
    <2>1. devices' = [devices EXCEPT ![d].ifaces = Drop(@, i)]
        BY <1>9 DEF RemoveIface
    <2>2. IsDevice(devices[d]) /\ DOMAIN devices' = DOMAIN devices
        BY <2>1 DEF Shapes, NodesOk
    <2>3. devices'[d].ifaces = Drop(devices[d].ifaces, i)
        BY <2>1, <2>2 DEF IsDevice
    <2>4. \A e \in DOMAIN devices : e # d => devices'[e] = devices[e]
        BY <2>1
    <2>5. IfacesKept
        BY <2>2, <2>3, <2>4 DEF IfacesKept, IfaceKept, Drop
    <2> QED
        BY <2>5 DEF IfaceMoves
<1>10. ASSUME NEW t \in Tasks,
             BuildNoBlock(t) \/ BuildNoUplink(t) \/ BuildConnected(t) \/
             SetupCreate(t) \/ SetupUplink(t) \/ SetupRoutes(t) \/
             SetupFails(t) \/ PublishRouter(t) \/ PublishRegion(t) \/ Abandon(t) \/ BuildDevice(t) \/
             SetupDevice(t) \/ PublishDevice(t) \/ CloseNamespace(t)
      PROVE  IfaceMoves
    <2>1. devices' = devices
        BY <1>10 DEF BuildNoBlock, BuildNoUplink, BuildConnected, SetupCreate,
           SetupUplink, SetupRoutes,
           SetupFails, PublishRouter, PublishRegion, Abandon, BuildDevice,
           SetupDevice, PublishDevice, CloseNamespace
    <2> QED
        BY <2>1, IfacesKeptWhen DEF IfaceMoves
<1>11. ASSUME NEW t \in Tasks, NEW i \in Ifaces, NEW r \in DOMAIN routers,
             AddIface(t, i, r)
      PROVE  IfaceMoves
    <2>1. PICK s : s = Downlink(r)
        OBVIOUS
    <2>2. PICK d \in DOMAIN devices :
          /\ HostsLeft(s) /\ switches' = TakeHost(s)
          /\ devices' = [devices EXCEPT ![d].ifaces = Put(@, i, [sw |-> s, ip |-> NextHost(s)])]
          /\ UNCHANGED <<routers, pools, task>>
        BY <1>11, <2>1 DEF AddIface
    <2>3. s \in DOMAIN switches /\ switches[s].owner # NoNode
        BY <2>1, <2>2, HostsOwned, OwnedDownlink
    <2>4. s \in DOMAIN switches' /\ switches'[s].owner # NoNode
        BY <2>2, <2>3, SwitchesSame
    <2>5. IfaceGiven(d, i, s, NextHost(s))
        BY <2>2, <2>3, <2>4, IfacePut DEF Shapes
    <2>6. ReplugsKept
        BY <2>2 DEF ReplugsKept, ReplugKept
    <2> QED
        BY <2>2, <2>5, <2>6 DEF IfaceMoves, UpsKept
<1>12. ASSUME NEW t \in Tasks, NEW i \in Ifaces, NEW r \in DOMAIN routers,
             AddIfaceFails(t, i, r)
      PROVE  IfaceMoves
    BY <1>12, IfacesKeptWhen DEF IfaceMoves, AddIfaceFails
<1>13. ASSUME NEW t \in Tasks,
             ReplugFinish(t)
      PROVE  IfaceMoves
    <2>1. PICK s, d, i : s = Downlink(task[t].upstream) /\ d = task[t].id /\ i = task[t].iface
        OBVIOUS
    <2>2. /\ task[t].at = "replug" /\ task' = [task EXCEPT ![t] = IdleTask]
          /\ UNCHANGED <<switches, pools, routers>>
        BY <1>13 DEF ReplugFinish, Done
    <2>3. CASE devices' = devices
        BY <2>3, IfacesKeptWhen DEF IfaceMoves
    <2>4. CASE devices' # devices
        <3>1. /\ s # NoNode /\ d \in DOMAIN devices
              /\ devices' = [devices EXCEPT ![d].ifaces = Put(@, i, [sw |-> s, ip |-> task[t].addr])]
            BY <1>13, <2>1, <2>4 DEF ReplugFinish
        <3>2. s \in DOMAIN switches /\ switches[s].owner # NoNode
            BY <2>1, <3>1, OwnedDownlink
        <3>3. IfaceGiven(d, i, s, task[t].addr)
            BY <2>2, <3>1, <3>2, IfacePut DEF Shapes
        <3> QED
            BY <2>2, <3>3 DEF IfaceMoves, UpsKept
    <2> QED
        BY <2>3, <2>4
<1>14. CASE UNCHANGED vars
    BY <1>14, IfacesKeptWhen DEF IfaceMoves, vars
<1> QED
    BY <1>1, <1>2, <1>3, <1>4, <1>5, <1>6, <1>7, <1>8, <1>9, <1>10, <1>11,
       <1>12, <1>13, <1>14 DEF Next, CallStep, BuildStep, SetupStep, DeviceStep

LEMMA IfacesWiredStep ==
    Shapes /\ SwitchesWired /\ IfacesWired /\ [Next]_vars => IfacesWired'
<1> SUFFICES ASSUME Shapes, SwitchesWired, IfacesWired, [Next]_vars PROVE IfacesWired'
    OBVIOUS
<1>1. ASSUME NEW d \in DOMAIN devices, NEW i \in DOMAIN devices[d].ifaces,
             NEW s, s = devices[d].ifaces[i].sw,
             NEW e \in DOMAIN devices', NEW j \in DOMAIN devices'[e].ifaces, IfaceKept(d, i),
             devices'[e].ifaces[j].sw = s
      PROVE  s \in DOMAIN switches' /\ switches'[s].owner # NoNode
    <2>1. s \in DOMAIN switches /\ switches[s].owner # NoNode /\ s # NoNode
        BY <1>1 DEF IfacesWired, SwitchesWired
    <2>2. CASE SameCore
        BY <2>1, <2>2 DEF SameCore, SwitchKept
    <2>3. CASE LoneRouter
        BY <2>1, <2>3 DEF LoneRouter
    <2>4. ASSUME NEW r, NEW q, NewCore(r, q)
          PROVE  s \in DOMAIN switches' /\ switches'[s].owner # NoNode
        BY <2>1, <2>4 DEF NewCore, SwitchKept
    <2>5. ASSUME NEW r, RouterGone(r), Attached(routers[r].downlink) = {}
          PROVE  s \in DOMAIN switches' /\ switches'[s].owner # NoNode
        <3>1. s # routers[r].downlink
            BY <1>1, <2>5 DEF Attached
        <3> QED
            BY <2>1, <2>5, <3>1 DEF RouterGone, SwitchKept
    <2> QED
        BY <2>2, <2>3, <2>4, <2>5, CoreStep DEF CoreMoves
<1>2. ASSUME NEW e \in DOMAIN devices', NEW j \in DOMAIN devices'[e].ifaces
      PROVE  /\ devices'[e].ifaces[j].sw \in DOMAIN switches'
             /\ switches'[devices'[e].ifaces[j].sw].owner # NoNode
    <2>1. CASE IfaceKept(e, j)
        BY <1>1, <1>2, <2>1 DEF IfaceKept
    <2>2. ASSUME NEW d, NEW i, NEW s, NEW a, IfaceGiven(d, i, s, a), ~IfaceKept(e, j)
          PROVE  /\ devices'[e].ifaces[j].sw \in DOMAIN switches'
                 /\ switches'[devices'[e].ifaces[j].sw].owner # NoNode
        BY <1>2, <2>2 DEF IfaceGiven
    <2>3. CASE ~IfaceKept(e, j)
        BY <2>2, <2>3, IfacesStep DEF IfaceMoves, IfacesKept
    <2> QED
        BY <2>1, <2>3
<1> QED
    BY <1>2 DEF IfacesWired

LEMMA NoUnwrapStep ==
    Shapes /\ WiredInv /\ [Next]_vars => NoUnwrap'
<1> SUFFICES ASSUME Shapes, SwitchesWired, IfacesWired, NoUnwrap, [Next]_vars PROVE NoUnwrap'
    BY DEF WiredInv
<1>1. ASSUME NEW t \in Tasks, BuildConnected(t)
      PROVE  NoUnwrap'
    <2>1. CASE Above(task[t]) = Ix
        BY <1>1, <2>1 DEF BuildConnected, NoUnwrap
    <2>2. CASE Above(task[t]) # Ix
        <3>1. HostsLeft(Above(task[t])) /\ Above(task[t]) = Downlink(task[t].upstream)
            BY <1>1, <2>2 DEF BuildConnected, Above, Downlink
        <3>2. switches[Above(task[t])].owner \in DOMAIN routers
            BY <3>1, HostsOwned, OwnedDownlink
        <3> QED
            BY <1>1, <2>2, <3>2 DEF BuildConnected, NoUnwrap
    <2> QED
        BY <2>1, <2>2
<1>2. ASSUME NEW t \in Tasks, BuildDevice(t)
      PROVE  NoUnwrap'
    <2> DEFINE d == task[t].id
               used == {devices[d].ifaces[i].sw : i \in DOMAIN devices[d].ifaces}
    <2>1. CASE d \in DOMAIN devices
        <3>1. \A s \in used : switches[s].owner \in DOMAIN routers
            BY <2>1 DEF IfacesWired, SwitchesWired
        <3> QED
            BY <1>2, <3>1 DEF BuildDevice, NoUnwrap
    <2>2. CASE d \notin DOMAIN devices
        BY <1>2, <2>2 DEF BuildDevice, NoUnwrap
    <2> QED
        BY <2>1, <2>2
<1>3. ASSUME NEW t \in Tasks, CallStep(t)
      PROVE  NoUnwrap'
    <2>1. panic' = panic \/ panic' = "region" \/ panic' = "region link"
        <3>1. ASSUME NEW g \in Regions, AddRegion(t, g) \/ AddRegionNoAddress(t, g) \/ AddRegionOverflow(t, g)
              PROVE  panic' = panic \/ panic' = "region"
            BY <3>1 DEF AddRegion, AddRegionNoAddress, AddRegionOverflow
        <3>2. ASSUME NEW g \in DOMAIN regions, NEW h \in DOMAIN regions, LinkRegions(t, g, h)
              PROVE  panic' = panic \/ panic' = "region link"
            BY <3>2 DEF LinkRegions
        <3>3. ASSUME NEW d \in DOMAIN devices,
                     \/ \E i \in Ifaces, r \in DOMAIN routers : ReplugPrepare(t, d, i, r)
                     \/ \E i \in DOMAIN devices[d].ifaces : RenewIp(t, d, i) \/ RemoveIface(t, d, i)
              PROVE  panic' = panic
            BY <3>3 DEF ReplugPrepare, RenewIp, RemoveIface
        <3>4. ASSUME NEW n \in Names, NEW p \in {"private", "public"}, NEW w \in Places,
                     AddRouter(t, n, p, w)
              PROVE  panic' = panic
            BY <3>4 DEF AddRouter
        <3>5. ASSUME \/ \E n \in Names : AddDevice(t, n)
                     \/ \E r \in DOMAIN routers : RemoveRouter(t, r)
                     \/ \E d \in DOMAIN devices : RemoveDevice(t, d)
              PROVE  panic' = panic
            BY <3>5 DEF AddDevice, RemoveRouter, RemoveDevice
        <3> QED
            BY <1>3, <3>1, <3>2, <3>3, <3>4, <3>5 DEF CallStep
    <2> QED
        BY <2>1 DEF NoUnwrap
<1>4. ASSUME NEW t \in Tasks, BuildNoBlock(t) \/ BuildNoUplink(t) \/ SetupStep(t)
      PROVE  NoUnwrap'
    <2>1. panic' = panic \/ panic' = "publish"
        BY <1>4 DEF BuildNoBlock, BuildNoUplink, SetupStep, SetupCreate,
           SetupUplink, SetupRoutes,
           SetupFails, PublishRouter, PublishRegion
    <2> QED
        BY <2>1 DEF NoUnwrap
<1>5. ASSUME NEW t \in Tasks,
             \/ \E i \in Ifaces, r \in DOMAIN routers : AddIface(t, i, r) \/ AddIfaceFails(t, i, r)
             \/ Abandon(t) \/ SetupDevice(t) \/ PublishDevice(t) \/ CloseNamespace(t) \/ ReplugFinish(t)
      PROVE  NoUnwrap'
    <2>1. panic' = panic \/ panic' = "publish"
        BY <1>5 DEF AddIface, AddIfaceFails, Abandon, SetupDevice, PublishDevice,
           CloseNamespace,
           ReplugFinish
    <2> QED
        BY <2>1 DEF NoUnwrap
<1>6. CASE UNCHANGED vars
    BY <1>6 DEF vars, NoUnwrap
<1> QED
    BY <1>1, <1>2, <1>3, <1>4, <1>5, <1>6 DEF Next, BuildStep, DeviceStep

LEMMA WiredAlways == Spec => [](Shapes /\ WiredInv)
<1>1. Init => Shapes /\ WiredInv
    BY ShapesInit, WiredInit
<1>2. Shapes /\ WiredInv /\ [Next]_vars => (Shapes /\ WiredInv)'
    BY ShapesStep, SwitchesWiredStep, IfacesWiredStep, NoUnwrapStep DEF WiredInv
<1> QED
    BY <1>1, <1>2, PTL DEF Spec

(* Every interface is on a switch whose router exists, and a build finds    *)
(* the switch above and its owner, however removals, builders and replugs   *)
(* interleave: the unwraps under the mutex cannot panic (router.rs:1209,    *)
(* device.rs:776).                                                          *)
THEOREM UnwrapsSafe == Spec => []UnwrapsHold
<1>1. WiredInv => UnwrapsHold
    BY DEF WiredInv, SwitchesWired, IfacesWired, NoUnwrap, UnwrapsHold
<1> QED
    BY WiredAlways, <1>1, PTL

-----------------------------------------------------------------------------
(* Addresses.  An address is held by the uplink of a router, by an          *)
(* interface of a device, or by a replug that is under way; it was counted  *)
(* by the switch it belongs to, or by the pool of the IX.                   *)

UpHeld(x, a) == x \in DOMAIN routers /\ routers[x].up = a /\ a # NoAddr
IfaceHeld(x, i, a) ==
    x \in DOMAIN devices /\ i \in DOMAIN devices[x].ifaces /\ devices[x].ifaces[i].ip = a
ReplugHeld(x, a) == x \in Tasks /\ task[x].at = "replug" /\ task[x].addr = a
Holds(k, x, i, a) ==
    \/ k = "router" /\ i = "none" /\ UpHeld(x, a)
    \/ k = "device" /\ IfaceHeld(x, i, a)
    \/ k = "replug" /\ i = "none" /\ ReplugHeld(x, a)
Spent(a) ==
    /\ a.host \in Nat /\ a.net # NoCidr /\ Given(a.net)
    /\ a.net = IxCidr => a.host < pools.ix
    /\ \A s \in DOMAIN switches : s # Ix /\ switches[s].cidr = a.net => a.host < switches[s].next
HeldInv ==
    InPools =>
        /\ \A k, x, i, a : Holds(k, x, i, a) => Spent(a)
        /\ \A k, x, i, l, y, j, a :
               Holds(k, x, i, a) /\ Holds(l, y, j, a) => k = l /\ x = y /\ i = j

LEMMA HeldInit == Init => HeldInv
<1> SUFFICES ASSUME Init PROVE HeldInv
    OBVIOUS
<1>1. /\ DOMAIN routers = {} /\ DOMAIN devices = {}
      /\ \A t \in Tasks : task[t].at = "idle"
    BY DEF Init, IdleTask
<1>2. \A k, x, i, a : ~Holds(k, x, i, a)
    BY <1>1 DEF Holds, UpHeld, IfaceHeld, ReplugHeld
<1> QED
    BY <1>2 DEF HeldInv

LEMMA IxStep == Shapes /\ [Next]_vars => pools.ix <= pools'.ix
<1> SUFFICES ASSUME Shapes, [Next]_vars PROVE pools.ix <= pools'.ix
    OBVIOUS
<1>0. pools.ix \in Nat /\ pools = [private |-> pools.private, public |-> pools.public,
                                   ix |-> pools.ix, region |-> pools.region]
    BY DEF Shapes, PoolsOk
<1> USE DEF Call, Start, coreVars
<1>1. ASSUME NEW t \in Tasks, CallStep(t)
      PROVE  pools.ix <= pools'.ix
    <2>1. ASSUME NEW g \in Regions, AddRegion(t, g)
          PROVE  pools.ix <= pools'.ix
        BY <1>0, <2>1 DEF AddRegion
    <2>2. ASSUME NEW g \in Regions, AddRegionNoAddress(t, g) \/ AddRegionOverflow(t, g)
          PROVE  pools.ix <= pools'.ix
        BY <1>0, <2>2 DEF AddRegionNoAddress, AddRegionOverflow
    <2>3. ASSUME NEW g \in DOMAIN regions, NEW h \in DOMAIN regions, LinkRegions(t, g, h)
          PROVE  pools' = pools
        BY <2>3 DEF LinkRegions
    <2>4. ASSUME NEW d \in DOMAIN devices,
                 \/ \E i \in Ifaces, r \in DOMAIN routers : ReplugPrepare(t, d, i, r)
                 \/ \E i \in DOMAIN devices[d].ifaces : RenewIp(t, d, i) \/ RemoveIface(t, d, i)
          PROVE  pools' = pools
        BY <2>4 DEF ReplugPrepare, RenewIp, RemoveIface
    <2>5. ASSUME NEW n \in Names, NEW p \in {"private", "public"}, NEW w \in Places,
                 AddRouter(t, n, p, w)
          PROVE  pools' = pools
        BY <2>5 DEF AddRouter
    <2>6. ASSUME \/ \E n \in Names : AddDevice(t, n)
                 \/ \E r \in DOMAIN routers : RemoveRouter(t, r)
                 \/ \E d \in DOMAIN devices : RemoveDevice(t, d)
          PROVE  pools' = pools
        BY <2>6 DEF AddDevice, RemoveRouter, RemoveDevice
    <2> QED
        BY <1>0, <1>1, <2>1, <2>2, <2>3, <2>4, <2>5, <2>6 DEF CallStep
<1>2. ASSUME NEW t \in Tasks, BuildNoUplink(t)
      PROVE  pools.ix <= pools'.ix
    <2>1. task[t].pool \in {"private", "public"}
        BY <1>2 DEF BuildNoUplink, Shapes, TasksOk
    <2> QED
        BY <1>0, <1>2, <2>1 DEF BuildNoUplink, TakeSubnet
<1>3. ASSUME NEW t \in Tasks, BuildConnected(t)
      PROVE  pools.ix <= pools'.ix
    <2>1. task[t].pool \in {"private", "public"}
        BY <1>3 DEF BuildConnected, Shapes, TasksOk
    <2> QED
        BY <1>0, <1>3, <2>1 DEF BuildConnected
<1>4. ASSUME NEW t \in Tasks, BuildNoBlock(t) \/ SetupStep(t) \/ CloseNamespace(t) \/ ReplugFinish(t)
      PROVE  pools' = pools
    BY <1>4 DEF BuildNoBlock, SetupStep, SetupCreate, SetupUplink, SetupRoutes,
       SetupFails,
       PublishRouter, PublishRegion, CloseNamespace, ReplugFinish
<1>5. ASSUME NEW t \in Tasks, DeviceStep(t)
      PROVE  pools' = pools
    BY <1>5 DEF DeviceStep, AddIface, AddIfaceFails, Abandon, BuildDevice,
       SetupDevice, PublishDevice
<1>6. CASE UNCHANGED vars
    BY <1>0, <1>6 DEF vars
<1> QED
    BY <1>0, <1>1, <1>2, <1>3, <1>4, <1>5, <1>6 DEF Next, BuildStep

LEMMA PoolsBefore == Shapes /\ Shapes' /\ Grows /\ InPools' => InPools
BY DEF Shapes, PoolsOk, Grows, InPools, LastRegion

(* What is spent stays spent: counters grow, and a new switch has a subnet  *)
(* that nobody had.                                                         *)
LEMMA SpentStays ==
    ASSUME Shapes, Shapes', Allocates, CoreMoves, pools.ix <= pools'.ix, InPools',
           NEW a, Spent(a), \A s \in DOMAIN switches : switches[s].next \in Nat
    PROVE  Spent(a)'
<1>1. PICK id, c : NewSwitch(id, c) /\ (c = NoCidr \/ (~Given(c) /\ Given(c)'))
    BY DEF Allocates
<1>2. \A s \in DOMAIN switches' : switches'[s].cidr = a.net =>
          s \in DOMAIN switches /\ switches[s].cidr = a.net
    BY <1>1 DEF NewSwitch, Spent
<1>3. \A s \in DOMAIN switches' : s \in DOMAIN switches =>
          switches'[s].next = switches[s].next \/ switches'[s].next = switches[s].next + 1
    BY DEF CoreMoves, SameCore, NewCore, LoneRouter, RouterGone, SwitchKept
<1>4. Given(a.net)'
    <2>1. PICK n : n = a.net
        OBVIOUS
    <2>2. Given(n)'
        BY <2>1, GivenStays DEF Spent, Allocates
    <2> QED
        BY <2>1, <2>2
<1>5. pools.ix \in Nat /\ pools'.ix \in Nat
    BY DEF Shapes, PoolsOk
<1>6. ASSUME NEW s \in DOMAIN switches', s # Ix, switches'[s].cidr = a.net
      PROVE  a.host < switches'[s].next
    <2>1. s \in DOMAIN switches /\ a.host < switches[s].next /\ a.host \in Nat /\ switches[s].next \in Nat
        BY <1>2, <1>6 DEF Spent
    <2> QED
        BY <1>3, <2>1
<1> QED
    BY <1>4, <1>5, <1>6 DEF Spent

\* An address that is given out now.
Fresh1(a) == InPools' => ~Spent(a) /\ Spent(a)'

LEMMA HostFresh ==
    ASSUME Shapes, Shapes', SwitchesWired, SubnetsInv, Allocates,
           NEW s \in DOMAIN switches, switches[s].owner # NoNode, s \in DOMAIN switches',
           switches'[s].cidr = switches[s].cidr, switches'[s].next = switches[s].next + 1,
           NEW a, a = NextHost(s)
    PROVE  Fresh1(a)
<1> SUFFICES ASSUME InPools' PROVE ~Spent(a) /\ Spent(a)'
    BY DEF Fresh1
<1> DEFINE n == switches[s].cidr
<1>1. InPools /\ SubnetsInv'
    BY PoolsBefore, OneMore DEF Allocates
<1>2. a.net = n /\ a.host = switches[s].next /\ a.host \in Nat
    BY DEF NextHost, Addr, SwitchesWired
<1>3. n # NoCidr /\ s # Ix
    BY DEF SwitchesWired
<1>4. n # IxCidr
    BY <1>1, <1>3 DEF SubnetsInv, SwitchesWired
<1>5. Given(n) /\ Given(n)'
    <2>1. PICK c : c = n
        OBVIOUS
    <2>2. Given(c)
        BY <1>1, <1>3, <2>1 DEF SubnetsInv
    <2>3. Given(c)'
        BY <2>2, GivenStays DEF Allocates
    <2>4. switches'[s].cidr = c
        BY <2>1
    <2> QED
        BY <1>2, <2>1, <2>2, <2>3
<1>6. ~Spent(a)
    BY <1>2, <1>3 DEF Spent
<1>7. \A u \in DOMAIN switches' : switches'[u].cidr = n => u = s
    BY <1>1, <1>3 DEF SubnetsInv
<1>8. Spent(a)'
    BY <1>2, <1>3, <1>4, <1>5, <1>7 DEF Spent
<1> QED
    BY <1>6, <1>8

LEMMA IxHostFresh ==
    ASSUME Shapes, Shapes', SwitchesWired', SubnetsInv, Allocates, pools'.ix = pools.ix + 1,
           NEW a, a = Addr(IxCidr, pools.ix)
    PROVE  Fresh1(a)
<1> SUFFICES ASSUME InPools' PROVE ~Spent(a) /\ Spent(a)'
    BY DEF Fresh1
<1>1. SubnetsInv'
    BY OneMore
<1>2. a.net = IxCidr /\ a.host = pools.ix /\ a.host \in Nat /\ IxCidr # NoCidr
    BY DEF Addr, Shapes, PoolsOk, IxCidr, NoCidr, Cidr
<1>3. Given(IxCidr)'
    BY DEF Given
<1>4. \A s \in DOMAIN switches' : switches'[s].cidr = IxCidr => s = Ix
    BY <1>1, <1>2 DEF SubnetsInv, SwitchesWired
<1> QED
    BY <1>2, <1>3, <1>4 DEF Spent

(* What a step does to uplinks and replugs: none is new, or one router has  *)
(* a new address, or one replug.                                            *)
UpGiven(a) == \A r \in DOMAIN routers' : routers'[r].up # NoAddr =>
                  \/ r \in DOMAIN routers /\ routers'[r].up = routers[r].up
                  \/ r = nextId /\ routers'[r].up = a
ReplugGiven(t, a) ==
    /\ \A u \in Tasks : u # t => ReplugKept(u)
    /\ task'[t].at = "replug" => task'[t].addr = a
RestMoves ==
    \/ UpsKept /\ ReplugsKept
    \/ \E a : Fresh1(a) /\ UpGiven(a) /\ ReplugsKept
    \/ \E t \in Tasks : \E a : Fresh1(a) /\ UpsKept /\ ReplugGiven(t, a)

LEMMA RestSame == UNCHANGED <<routers, task>> => UpsKept /\ ReplugsKept
BY DEF UpsKept, ReplugsKept, ReplugKept

\* A task that does not replug starts or ends something else.
LEMMA TaskOther ==
    ASSUME Shapes, NEW t \in Tasks, NEW rec, rec.at # "replug", task' = [task EXCEPT ![t] = rec]
    PROVE  ReplugsKept
BY DEF ReplugsKept, ReplugKept, Shapes, TasksOk

LEMMA TaskOn ==
    ASSUME Shapes, NEW t \in Tasks, NEW at, at # "replug", task' = [task EXCEPT ![t].at = at]
    PROVE  ReplugsKept
<1>1. \A u \in Tasks : u # t => task'[u] = task[u]
    BY DEF Shapes, TasksOk
<1>2. task'[t].at = at
    BY DEF Shapes, TasksOk, IsTask
<1> QED
    BY <1>1, <1>2 DEF ReplugsKept, ReplugKept

LEMMA UpsSame == routers' = routers => UpsKept
BY DEF UpsKept

\* A new router without an uplink.
LEMMA UpsNone ==
    ASSUME NodesOk, NEW rec, rec.up = NoAddr, routers' = Put(routers, nextId, rec)
    PROVE  UpsKept
BY DEF NodesOk, UpsKept, Put

LEMMA UpsNew ==
    ASSUME NodesOk, NEW rec, NEW a, rec.up = a, routers' = Put(routers, nextId, rec)
    PROVE  UpGiven(a)
BY DEF NodesOk, UpGiven, Put

LEMMA RestStep ==
    ASSUME Shapes, Shapes', SwitchesWired, SwitchesWired', IfacesWired, SubnetsInv, Allocates, [Next]_vars
    PROVE  RestMoves
<1> USE DEF Call, Start, coreVars
<1>1. ASSUME NEW t \in Tasks, NEW n \in Names, NEW p \in {"private", "public"}, NEW w \in Places,
             AddRouter(t, n, p, w)
      PROVE  RestMoves
    <2> DEFINE rec == [IdleTask EXCEPT !.at = "router", !.name = n, !.pool = p,
                                      !.region = w.region, !.upstream = w.upstream]
    <2>1. task' = [task EXCEPT ![t] = rec] /\ rec.at = "router"
        <3>1. task' = [task EXCEPT ![t] = rec]
            BY <1>1 DEF AddRouter
        <3>2. rec.at = "router"
            BY DEF IdleTask
        <3> QED
            BY <3>1, <3>2
    <2> HIDE DEF rec
    <2> QED
        BY <1>1, <2>1, TaskOther, UpsSame DEF AddRouter, RestMoves
<1>2. ASSUME NEW t \in Tasks, NEW g \in Regions,
             AddRegion(t, g)
      PROVE  RestMoves
    <2> DEFINE third == (pools.region * 16) % 256
               rec == [RegionRec(g, third) EXCEPT !.uplink = Ix, !.up = Addr(IxCidr, pools.ix)]
    <2> DEFINE new == [IdleTask EXCEPT !.at = "create", !.id = nextId, !.name = RegionRouter(g),
                                       !.region = g, !.net = Cidr("public", third),
                                       !.addr = Addr(IxCidr, pools.ix)]
    <2>1. task' = [task EXCEPT ![t] = new] /\ new.at = "create"
        <3>1. task' = [task EXCEPT ![t] = new]
            BY <1>2 DEF AddRegion
        <3>2. new.at = "create"
            BY DEF IdleTask
        <3> QED
            BY <3>1, <3>2
    <2>2. routers' = Put(routers, nextId, rec) /\ pools'.ix = pools.ix + 1
        BY <1>2 DEF AddRegion, Shapes, PoolsOk
    <2>3. PICK a : a = Addr(IxCidr, pools.ix)
        OBVIOUS
    <2>4. rec.up = a
        BY <2>3 DEF RegionRec, RouterRec
    <2> HIDE DEF rec, new
    <2>5. UpGiven(a)
        BY <2>2, <2>4, UpsNew DEF Shapes
    <2>6. Fresh1(a)
        BY <2>2, <2>3, IxHostFresh
    <2>7. ReplugsKept
        BY <2>1, TaskOther
    <2> QED
        BY <2>5, <2>6, <2>7 DEF RestMoves
<1>3. ASSUME NEW t \in Tasks, NEW g \in Regions,
             AddRegionNoAddress(t, g) \/ AddRegionOverflow(t, g)
      PROVE  RestMoves
    <2>1. PICK rec : rec.up = NoAddr /\ routers' = Put(routers, nextId, rec)
        BY <1>3 DEF AddRegionNoAddress, AddRegionOverflow, RegionRec, RouterRec
    <2>2. task' = [task EXCEPT ![t] = IdleTask] /\ IdleTask.at # "replug"
        BY <1>3 DEF AddRegionNoAddress, AddRegionOverflow, IdleTask
    <2> QED
        BY <2>1, <2>2, UpsNone, TaskOther DEF Shapes, RestMoves
<1>4. ASSUME NEW t \in Tasks, NEW n \in Names,
             AddDevice(t, n)
      PROVE  RestMoves
    <2> DEFINE rec == [IdleTask EXCEPT !.at = "device", !.name = n, !.id = nextId]
    <2>1. task' = [task EXCEPT ![t] = rec] /\ rec.at = "device"
        <3>1. task' = [task EXCEPT ![t] = rec]
            BY <1>4 DEF AddDevice
        <3>2. rec.at = "device"
            BY DEF IdleTask
        <3> QED
            BY <3>1, <3>2
    <2> HIDE DEF rec
    <2> QED
        BY <1>4, <2>1, TaskOther, UpsSame DEF AddDevice, RestMoves
<1>5. ASSUME NEW t \in Tasks, NEW r \in DOMAIN routers,
             RemoveRouter(t, r)
      PROVE  RestMoves
    <2> DEFINE rec == [IdleTask EXCEPT !.at = "close", !.id = r]
    <2>1. task' = [task EXCEPT ![t] = rec] /\ rec.at = "close"
        <3>1. task' = [task EXCEPT ![t] = rec]
            BY <1>5 DEF RemoveRouter
        <3>2. rec.at = "close"
            BY DEF IdleTask
        <3> QED
            BY <3>1, <3>2
    <2> HIDE DEF rec
    <2>2. UpsKept
        BY <1>5 DEF RemoveRouter, UpsKept, Drop
    <2> QED
        BY <2>1, <2>2, TaskOther DEF RestMoves
<1>6. ASSUME NEW t \in Tasks, NEW g \in DOMAIN regions, NEW h \in DOMAIN regions,
             LinkRegions(t, g, h)
      PROVE  RestMoves
    <2>1. task' = [task EXCEPT ![t] = IdleTask] /\ IdleTask.at # "replug" /\ routers' = routers
        BY <1>6 DEF LinkRegions, IdleTask
    <2> QED
        BY <2>1, TaskOther, UpsSame DEF RestMoves
<1>7. ASSUME NEW t \in Tasks, NEW d \in DOMAIN devices,
             RemoveDevice(t, d)
      PROVE  RestMoves
    <2> DEFINE rec == [IdleTask EXCEPT !.at = "close", !.id = d]
    <2>1. task' = [task EXCEPT ![t] = rec] /\ rec.at = "close"
        <3>1. task' = [task EXCEPT ![t] = rec]
            BY <1>7 DEF RemoveDevice
        <3>2. rec.at = "close"
            BY DEF IdleTask
        <3> QED
            BY <3>1, <3>2
    <2> HIDE DEF rec
    <2> QED
        BY <1>7, <2>1, TaskOther, UpsSame DEF RemoveDevice, RestMoves
<1>8. ASSUME NEW t \in Tasks, NEW d \in DOMAIN devices, NEW i \in Ifaces, NEW r \in DOMAIN routers,
             ReplugPrepare(t, d, i, r)
      PROVE  RestMoves
    <2>1. PICK s, a : s = Downlink(r) /\ a = NextHost(s)
        OBVIOUS
    <2> DEFINE rec == [IdleTask EXCEPT !.at = "replug", !.id = d, !.iface = i, !.upstream = r, !.addr = a]
    <2>2. task' = [task EXCEPT ![t] = rec] /\ rec.addr = a
        <3>1. task' = [task EXCEPT ![t] = rec]
            BY <1>8, <2>1 DEF ReplugPrepare
        <3>2. rec.addr = a
            BY DEF IdleTask
        <3> QED
            BY <3>1, <3>2
    <2> HIDE DEF rec
    <2>3. HostsLeft(s) /\ switches' = TakeHost(s) /\ routers' = routers
        BY <1>8, <2>1 DEF ReplugPrepare
    <2>4. s \in DOMAIN switches /\ switches[s].owner # NoNode
        BY <2>1, <2>3, HostsOwned, OwnedDownlink
    <2>5. /\ s \in DOMAIN switches' /\ switches'[s].cidr = switches[s].cidr
          /\ switches'[s].next = switches[s].next + 1
        BY <2>3, <2>4 DEF TakeHost, Shapes, SwitchesOk, IsSwitch
    <2>6. Fresh1(a)
        BY <2>1, <2>4, <2>5, HostFresh
    <2>7. ReplugGiven(t, a)
        BY <2>2 DEF ReplugGiven, ReplugKept, Shapes, TasksOk
    <2> QED
        BY <2>3, <2>6, <2>7, UpsSame DEF RestMoves
<1>9. ASSUME NEW t \in Tasks, NEW d \in DOMAIN devices, NEW i \in DOMAIN devices[d].ifaces,
             RenewIp(t, d, i) \/ RemoveIface(t, d, i)
      PROVE  RestMoves
    <2>1. task' = [task EXCEPT ![t] = IdleTask] /\ IdleTask.at # "replug" /\ routers' = routers
        BY <1>9 DEF RenewIp, RemoveIface, IdleTask
    <2> QED
        BY <2>1, TaskOther, UpsSame DEF RestMoves
<1>10. ASSUME NEW t \in Tasks,
             BuildNoBlock(t) \/ BuildNoUplink(t)
      PROVE  RestMoves
    <2>1. PICK rec : rec.up = NoAddr /\ routers' = Put(routers, nextId, rec)
        BY <1>10 DEF BuildNoBlock, BuildNoUplink, RouterRec
    <2>2. task' = [task EXCEPT ![t] = IdleTask] /\ IdleTask.at # "replug"
        BY <1>10 DEF BuildNoBlock, BuildNoUplink, Done, IdleTask
    <2> QED
        BY <2>1, <2>2, UpsNone, TaskOther DEF Shapes, RestMoves
<1>11. ASSUME NEW t \in Tasks,
             BuildConnected(t)
      PROVE  RestMoves
    <2> DEFINE b == task[t]
    <2>1. PICK s, a, o, c :
              /\ s = Above(b) /\ c = Subnet(b)
              /\ a = IF s = Ix THEN Addr(IxCidr, pools.ix) ELSE NextHost(s)
              /\ routers' = Put(routers, nextId, [RouterRec(b.name, b.region, b.pool, nextId + 1, c)
                                    EXCEPT !.uplink = s, !.up = a])
              /\ task' = [task EXCEPT ![t] = [b EXCEPT !.at = "create", !.id = nextId,
                                                      !.upstream = o, !.net = c, !.addr = a]]
              /\ s # Ix => HostsLeft(s)
        BY <1>11 DEF BuildConnected
    <2>2. [RouterRec(b.name, b.region, b.pool, nextId + 1, c) EXCEPT !.uplink = s, !.up = a].up = a
        BY DEF RouterRec
    <2>3. UpGiven(a)
        BY <2>1, <2>2, UpsNew DEF Shapes
    <2>4. ReplugsKept
        <3>1. PICK rec : rec = [b EXCEPT !.at = "create", !.id = nextId,
                                         !.upstream = o, !.net = c, !.addr = a]
            OBVIOUS
        <3>2. rec.at = "create"
            BY <3>1 DEF Shapes, TasksOk, IsTask
        <3> QED
            BY <2>1, <3>1, <3>2, TaskOther
    <2>5. Fresh1(a)
        <3>1. CASE s = Ix
            <4>1. pools'.ix = pools.ix + 1
                <5>1. b.pool \in {"private", "public"}
                    BY <1>11 DEF BuildConnected, Shapes, TasksOk
                <5> QED
                    BY <1>11, <2>1, <3>1, <5>1 DEF BuildConnected, Shapes, PoolsOk
            <4> QED
                BY <2>1, <3>1, <4>1, IxHostFresh
        <3>2. CASE s # Ix
            <4>1. s \in DOMAIN switches /\ switches[s].owner # NoNode
                BY <2>1, <3>2, HostsOwned, OwnedDownlink DEF Above, Downlink
            <4>2. PICK rec : switches' = Put(TakeHost(s), nextId + 1, rec)
                BY <1>11, <2>1, <3>2 DEF BuildConnected
            <4>3. s # nextId + 1 /\ IsSwitch(switches[s])
                BY <4>1 DEF Shapes, SwitchesOk, NodesOk
            <4>4. s \in DOMAIN switches' /\ switches'[s] = [switches[s] EXCEPT !.next = @ + 1]
                BY <4>1, <4>2, <4>3 DEF Put, TakeHost
            <4>5. switches'[s].cidr = switches[s].cidr /\ switches'[s].next = switches[s].next + 1
                BY <4>3, <4>4 DEF IsSwitch
            <4> QED
                BY <2>1, <3>2, <4>1, <4>4, <4>5, HostFresh
        <3> QED
            BY <3>1, <3>2
    <2> QED
        BY <2>3, <2>4, <2>5 DEF RestMoves
<1>12. ASSUME NEW t \in Tasks,
             SetupCreate(t) \/ SetupUplink(t) \/ SetupRoutes(t) \/ SetupDevice(t)
      PROVE  RestMoves
    <2>1. PICK at : at # "replug" /\ task' = [task EXCEPT ![t].at = at]
        BY <1>12 DEF SetupCreate, SetupUplink, SetupRoutes, SetupDevice, Goto
    <2>2. routers' = routers
        BY <1>12 DEF SetupCreate, SetupUplink, SetupRoutes, SetupDevice
    <2> QED
        BY <2>1, <2>2, TaskOn, UpsSame DEF RestMoves
<1>13. ASSUME NEW t \in Tasks,
             \/ SetupFails(t) \/ Abandon(t) \/ PublishDevice(t) \/ CloseNamespace(t) \/ ReplugFinish(t)
             \/ \E i \in Ifaces, r \in DOMAIN routers : AddIfaceFails(t, i, r)
      PROVE  RestMoves
    <2>1. task' = [task EXCEPT ![t] = IdleTask] /\ IdleTask.at # "replug" /\ routers' = routers
        BY <1>13 DEF SetupFails, Abandon, PublishDevice, CloseNamespace,
           ReplugFinish, AddIfaceFails,
           Done, IdleTask
    <2> QED
        BY <2>1, TaskOther, UpsSame DEF RestMoves
<1>14. ASSUME NEW t \in Tasks,
             PublishRouter(t) \/ PublishRegion(t)
      PROVE  RestMoves
    <2>1. task' = [task EXCEPT ![t] = IdleTask] /\ IdleTask.at # "replug"
        BY <1>14 DEF PublishRouter, PublishRegion, Done, IdleTask
    <2>2. routers' = routers \/ routers' = [routers EXCEPT ![task[t].id].ready = TRUE]
        BY <1>14 DEF PublishRouter, PublishRegion
    <2>3. UpsKept
        BY <2>2 DEF Shapes, NodesOk, IsRouter, UpsKept
    <2> QED
        BY <2>1, <2>3, TaskOther DEF RestMoves
<1>15. ASSUME NEW t \in Tasks,
             BuildDevice(t)
      PROVE  RestMoves
    <2>1. task' = [task EXCEPT ![t] = IdleTask] \/ task' = [task EXCEPT ![t].at = "wire"]
        BY <1>15 DEF BuildDevice, Done, Goto
    <2>2. routers' = routers /\ IdleTask.at # "replug"
        BY <1>15 DEF BuildDevice, IdleTask
    <2> QED
        BY <2>1, <2>2, TaskOther, TaskOn, UpsSame DEF RestMoves
<1>16. ASSUME NEW t \in Tasks, NEW i \in Ifaces, NEW r \in DOMAIN routers,
             AddIface(t, i, r)
      PROVE  RestMoves
    BY <1>16, RestSame DEF AddIface, RestMoves
<1>17. CASE UNCHANGED vars
    BY <1>17, RestSame DEF vars, RestMoves
<1> QED
    BY <1>1, <1>2, <1>3, <1>4, <1>5, <1>6, <1>7, <1>8, <1>9, <1>10, <1>11,
       <1>12, <1>13, <1>14, <1>15, <1>16, <1>17 DEF Next, CallStep, BuildStep, SetupStep, DeviceStep

(* The three ways in which the holders of addresses change.                 *)
LEMMA HeldKept ==
    ASSUME HeldInv, InPools, \A a : Spent(a) => Spent(a)',
           \A k, x, i, a : Holds(k, x, i, a)' => Holds(k, x, i, a)
    PROVE  HeldInv'
BY DEF HeldInv

OneNew(l, y, j, b) ==
    \A k, x, i, a : Holds(k, x, i, a)' =>
        Holds(k, x, i, a) \/ (k = l /\ x = y /\ i = j /\ a = b)
OneMoved(t, l, y, j, b) ==
    \A k, x, i, a : Holds(k, x, i, a)' =>
        \/ Holds(k, x, i, a) /\ ~(k = "replug" /\ x = t)
        \/ k = l /\ x = y /\ i = j /\ a = b

LEMMA HeldNew ==
    ASSUME HeldInv, InPools, \A a : Spent(a) => Spent(a)',
           NEW l, NEW y, NEW j, NEW b, ~Spent(b), Spent(b)', OneNew(l, y, j, b)
    PROVE  HeldInv'
<1>1. \A k, x, i : ~Holds(k, x, i, b)
    BY DEF HeldInv
<1>2. ASSUME NEW k, NEW x, NEW i, NEW a, Holds(k, x, i, a)'
      PROVE  Spent(a)'
    BY <1>2 DEF HeldInv, OneNew
<1>3. ASSUME NEW k, NEW x, NEW i, NEW m, NEW z, NEW h, NEW a,
             Holds(k, x, i, a)', Holds(m, z, h, a)'
      PROVE  k = m /\ x = z /\ i = h
    <2>1. CASE a = b
        BY <1>1, <1>3, <2>1 DEF OneNew
    <2>2. CASE a # b
        BY <1>3, <2>2 DEF HeldInv, OneNew
    <2> QED
        BY <2>1, <2>2
<1> QED
    BY <1>2, <1>3 DEF HeldInv

LEMMA HeldMoved ==
    ASSUME HeldInv, InPools, \A a : Spent(a) => Spent(a)',
           NEW t, NEW l, NEW y, NEW j, NEW b, Holds("replug", t, "none", b), OneMoved(t, l, y, j, b)
    PROVE  HeldInv'
<1>1. \A k, x, i : Holds(k, x, i, b) => k = "replug" /\ x = t
    BY DEF HeldInv
<1>2. Spent(b)
    BY DEF HeldInv
<1>3. ASSUME NEW k, NEW x, NEW i, NEW a, Holds(k, x, i, a)'
      PROVE  \/ Holds(k, x, i, a) /\ a # b
             \/ k = l /\ x = y /\ i = j /\ a = b
    <2>1. \/ Holds(k, x, i, a) /\ ~(k = "replug" /\ x = t)
          \/ k = l /\ x = y /\ i = j /\ a = b
        BY <1>3 DEF OneMoved
    <2> QED
        BY <1>1, <2>1
<1>4. ASSUME NEW k, NEW x, NEW i, NEW a, Holds(k, x, i, a)'
      PROVE  Spent(a)'
    BY <1>2, <1>3, <1>4 DEF HeldInv
<1>5. ASSUME NEW k, NEW x, NEW i, NEW m, NEW z, NEW h, NEW a,
             Holds(k, x, i, a)', Holds(m, z, h, a)'
      PROVE  k = m /\ x = z /\ i = h
    <2>1. CASE a = b
        BY <1>3, <1>5, <2>1
    <2>2. CASE a # b
        BY <1>3, <1>5, <2>2 DEF HeldInv
    <2> QED
        BY <2>1, <2>2
<1> QED
    BY <1>4, <1>5 DEF HeldInv

LEMMA HeldByKind ==
    /\ UpsKept => \A x, a : UpHeld(x, a)' => UpHeld(x, a)
    /\ \A b : UpGiven(b) => \A x, a : UpHeld(x, a)' => UpHeld(x, a) \/ (x = nextId /\ a = b)
    /\ IfacesKept => \A x, i, a : IfaceHeld(x, i, a)' => IfaceHeld(x, i, a)
    /\ \A d, j, s, b : IfaceGiven(d, j, s, b) =>
           \A x, i, a : IfaceHeld(x, i, a)' => IfaceHeld(x, i, a) \/ (x = d /\ i = j /\ a = b)
    /\ ReplugsKept => \A x, a : ReplugHeld(x, a)' => ReplugHeld(x, a)
    /\ \A t, b : ReplugGiven(t, b) =>
           \A x, a : ReplugHeld(x, a)' => ReplugHeld(x, a) \/ (x = t /\ a = b)
<1>1. UpsKept => \A x, a : UpHeld(x, a)' => UpHeld(x, a)
    BY DEF UpsKept, UpHeld
<1>2. \A b : UpGiven(b) => \A x, a : UpHeld(x, a)' => UpHeld(x, a) \/ (x = nextId /\ a = b)
    BY DEF UpGiven, UpHeld
<1>3. IfacesKept => \A x, i, a : IfaceHeld(x, i, a)' => IfaceHeld(x, i, a)
    BY DEF IfacesKept, IfaceKept, IfaceHeld
<1>4. \A d, j, s, b : IfaceGiven(d, j, s, b) =>
           \A x, i, a : IfaceHeld(x, i, a)' => IfaceHeld(x, i, a) \/ (x = d /\ i = j /\ a = b)
    BY DEF IfaceGiven, IfaceKept, IfaceHeld
<1>5. ReplugsKept => \A x, a : ReplugHeld(x, a)' => ReplugHeld(x, a)
    BY DEF ReplugsKept, ReplugKept, ReplugHeld
<1>6. \A t, b : ReplugGiven(t, b) =>
           \A x, a : ReplugHeld(x, a)' => ReplugHeld(x, a) \/ (x = t /\ a = b)
    BY DEF ReplugGiven, ReplugKept, ReplugHeld
<1> QED
    BY <1>1, <1>2, <1>3, <1>4, <1>5, <1>6

LEMMA HeldStep ==
    ASSUME Shapes, Shapes', WiredInv, WiredInv', SubnetsInv, HeldInv, [Next]_vars
    PROVE  HeldInv'
<1> SUFFICES ASSUME InPools' PROVE HeldInv'
    BY DEF HeldInv
<1> USE DEF WiredInv
<1>1. Allocates /\ CoreMoves /\ IfaceMoves /\ pools.ix <= pools'.ix /\ InPools
    BY AllocStep, CoreStep, IfacesStep, IxStep, PoolsBefore DEF Allocates
<1>2. RestMoves
    BY <1>1, RestStep
<1>3. \A a : Spent(a) => Spent(a)'
    BY <1>1, SpentStays DEF SwitchesWired
<1>4. CASE IfacesKept /\ UpsKept /\ ReplugsKept
    <2>1. ASSUME NEW k, NEW x, NEW i, NEW a, Holds(k, x, i, a)'
          PROVE  Holds(k, x, i, a)
        BY <1>4, <2>1, HeldByKind DEF Holds
    <2> QED
        BY <1>1, <1>3, <2>1, HeldKept
<1>5. ASSUME IfacesKept, NEW b, Fresh1(b), UpGiven(b), ReplugsKept
      PROVE  HeldInv'
    <2>1. PICK n : n = nextId
        OBVIOUS
    <2>2. OneNew("router", n, "none", b)
        BY <1>5, <2>1, HeldByKind DEF OneNew, Holds
    <2> QED
        BY <1>1, <1>3, <1>5, <2>2, HeldNew DEF Fresh1
<1>6. ASSUME IfacesKept, NEW t \in Tasks, NEW b, Fresh1(b), UpsKept, ReplugGiven(t, b)
      PROVE  HeldInv'
    <2>1. OneNew("replug", t, "none", b)
        BY <1>6, HeldByKind DEF OneNew, Holds
    <2> QED
        BY <1>1, <1>3, <1>6, <2>1, HeldNew DEF Fresh1
<1>7. ASSUME NEW d, NEW i, NEW s, NEW b, b = NextHost(s), HostsLeft(s), switches' = TakeHost(s),
             IfaceGiven(d, i, s, b), UpsKept, ReplugsKept
      PROVE  HeldInv'
    <2>1. s \in DOMAIN switches /\ s \in DOMAIN switches' /\ switches[s].owner # NoNode
        BY <1>7 DEF IfaceGiven
    <2>2. switches'[s].cidr = switches[s].cidr /\ switches'[s].next = switches[s].next + 1
        BY <1>7, <2>1 DEF TakeHost, Shapes, SwitchesOk, IsSwitch
    <2>3. Fresh1(b)
        BY <1>1, <1>7, <2>1, <2>2, HostFresh
    <2>4. OneNew("device", d, i, b)
        BY <1>7, HeldByKind DEF OneNew, Holds
    <2> QED
        BY <1>1, <1>3, <2>3, <2>4, HeldNew DEF Fresh1
<1>8. ASSUME NEW t \in Tasks, NEW d, NEW i, NEW s, NEW b, b = task[t].addr, task[t].at = "replug",
             task' = [task EXCEPT ![t] = IdleTask], UpsKept, IfaceGiven(d, i, s, b)
      PROVE  HeldInv'
    <2>1. Holds("replug", t, "none", b)
        BY <1>8 DEF Holds, ReplugHeld
    <2>2. /\ \A u \in Tasks : u # t => task'[u] = task[u]
          /\ task'[t].at # "replug"
        BY <1>8 DEF IdleTask, Shapes, TasksOk
    <2>3. \A x, a : ReplugHeld(x, a)' => ReplugHeld(x, a) /\ x # t
        BY <2>2 DEF ReplugHeld
    <2>4. OneMoved(t, "device", d, i, b)
        BY <1>8, <2>3, HeldByKind DEF OneMoved, Holds
    <2> QED
        BY <1>1, <1>3, <2>1, <2>4, HeldMoved
<1>9. CASE IfacesKept
    BY <1>2, <1>4, <1>5, <1>6, <1>9 DEF RestMoves
<1> QED
    BY <1>1, <1>7, <1>8, <1>9 DEF IfaceMoves

LEMMA HeldAlways == Spec => [](Shapes /\ WiredInv /\ SubnetsInv /\ HeldInv)
<1>1. Init => Shapes /\ WiredInv /\ SubnetsInv /\ HeldInv
    BY ShapesInit, WiredInit, SubnetsInit, HeldInit
<1>2. Shapes /\ WiredInv /\ SubnetsInv /\ HeldInv /\ [Next]_vars
          => (Shapes /\ WiredInv /\ SubnetsInv /\ HeldInv)'
    <2>1. Shapes /\ WiredInv /\ [Next]_vars => Shapes' /\ WiredInv'
        BY ShapesStep, SwitchesWiredStep, IfacesWiredStep, NoUnwrapStep DEF WiredInv
    <2> QED
        BY <2>1, SubnetsStep, HeldStep
<1> QED
    BY <1>1, <1>2, PTL DEF Spec

(* No two attachments have one address while the pools last: an address     *)
(* that a failed call or a replug spent is never given out again, and a     *)
(* subnet whose router is gone is not either (core.rs:1392-1406).           *)
THEOREM UniqueAddresses == Spec => []AddressesUnique
<1>1. Shapes /\ HeldInv => AddressesUnique
    <2> SUFFICES ASSUME Shapes, HeldInv, InPools, NEW a \in Attachments, NEW b \in Attachments,
                        AddressOf(a) = AddressOf(b)
                 PROVE  a = b
        BY DEF AddressesUnique
    <2>1. ASSUME NEW c \in Attachments
          PROVE  \/ c = <<c[1], "uplink">> /\ Holds("router", c[1], "none", AddressOf(c))
                 \/ c = <<c[1], c[2]>> /\ Holds("device", c[1], c[2], AddressOf(c))
        BY DEF Attachments, AddressOf, Holds, UpHeld, IfaceHeld, Shapes, NodesOk
    <2>2. ASSUME NEW k, NEW x, NEW i, NEW l, NEW y, NEW j,
                 Holds(k, x, i, AddressOf(a)), Holds(l, y, j, AddressOf(a))
          PROVE  k = l /\ x = y /\ i = j
        BY <2>2 DEF HeldInv
    <2>3. CASE a = <<a[1], "uplink">> /\ Holds("router", a[1], "none", AddressOf(a))
        BY <2>1, <2>2, <2>3
    <2>4. CASE a = <<a[1], a[2]>> /\ Holds("device", a[1], a[2], AddressOf(a))
        BY <2>1, <2>2, <2>4
    <2> QED
        BY <2>1, <2>3, <2>4
<1> QED
    BY HeldAlways, <1>1, PTL
-----------------------------------------------------------------------------
(* Routes.  A task that sets up a router carries what was recorded of it;   *)
(* a namespace is made once, before anything routes through it; and every   *)
(* /24 route is the one to the router that was given the subnet, in the     *)
(* namespace above it, and every /20 in the root namespace that of a region.*)

Making(t) == task[t].at \in {"create", "device", "wire"}
Setting(t) == task[t].at \in {"create", "uplink", "routes", "publish", "aggregate"}
Pending(n) == \E t \in Tasks : Making(t) /\ task[t].id = n
HasRoute(n, third, len) == \E q \in ns[n] : q.third = third /\ q.len = len

IdsOk ==
    /\ nextId \in Nat /\ nextId > 0
    /\ RootNs \in DOMAIN ns /\ \A n \in DOMAIN ns : n \in Nat /\ n < nextId
    /\ \A t \in Tasks : Making(t) \/ Setting(t) => task[t].id \in Nat /\ 0 < task[t].id /\ task[t].id < nextId
    /\ \A t \in Tasks : Making(t) => task[t].id \notin DOMAIN ns
    /\ \A t, u \in Tasks : Making(t) /\ Making(u) /\ task[t].id = task[u].id => t = u
    /\ \A t \in Tasks : task[t].at = "close" => task[t].id # RootNs
    /\ \A d \in DOMAIN devices : d # 0
    /\ \A g \in DOMAIN regions :
          regions[g].router \in Nat /\ 0 < regions[g].router /\ regions[g].router < nextId

\* What the task carries is the record of its router, while there is one.
Carries(t) ==
    LET r == routers[task[t].id] IN
    task[t].id \in DOMAIN routers =>
        /\ r.cidr = task[t].net /\ r.up = task[t].addr
        /\ r.uplink = Ix <=> task[t].upstream = RootNs
        /\ r.uplink \in DOMAIN switches => switches[r.uplink].owner = task[t].upstream
BuiltOk(t) ==
    /\ task[t].upstream \in Nat /\ task[t].upstream < nextId
    /\ task[t].net # NoCidr /\ (InPools => Given(task[t].net))
    /\ task[t].net.block = "public" => task[t].net = Cidr("public", task[t].net.third)
    /\ InPools => \A x \in DOMAIN routers : routers[x].cidr = task[t].net => x = task[t].id
    /\ Carries(t)
    /\ \A g \in DOMAIN regions : regions[g].router = task[t].id => task[t].region = g
PhaseOk(t) ==
    /\ task[t].at = "aggregate" => IsRegion(t)
    /\ task[t].at = "publish" => ~IsRegion(t)
    /\ task[t].at \in {"routes", "publish", "aggregate"} => ~Pending(task[t].upstream)
    /\ task[t].at \in {"publish", "aggregate"} /\ task[t].net.block = "public" /\ task[t].upstream \in DOMAIN ns
          => HasRoute(task[t].upstream, task[t].net.third, 24)
SetupOk == \A t \in Tasks : Setting(t) => BuiltOk(t) /\ PhaseOk(t)

InBlock(r, g) == \E k \in 1..15 : r.cidr.third = 16 * regions[g].idx + k
UnderRegion(r) ==
    /\ r.pool = "public" /\ r.uplink \in DOMAIN switches /\ r.region \in DOMAIN regions
    /\ switches[r.uplink].owner = regions[r.region].router
Placed(x) ==
    LET r == routers[x] IN
    /\ InPools => r.cidr = NoCidr \/ Given(r.cidr)
    /\ r.uplink \in Nat /\ r.uplink < nextId
    /\ r.pool = "public" /\ r.uplink # NoNode => r.cidr = Cidr("public", r.cidr.third)
    /\ InPools /\ UnderRegion(r) => InBlock(r, r.region)
\* The way back to a router that was published, through the owner of its uplink.
WayBack(u, third) == ~Pending(u) /\ (u \in DOMAIN ns => HasRoute(u, third, 24))
Routed(x) ==
    LET r == routers[x] IN
    /\ r.cidr.block = "public" /\ r.uplink \in DOMAIN switches =>
          WayBack(switches[r.uplink].owner, r.cidr.third)
    /\ \A g \in DOMAIN regions : regions[g].router = x => HasRoute(RootNs, 16 * regions[g].idx, 20)
PlacedOk == \A x \in DOMAIN routers : Placed(x)
RoutedOk == \A x \in DOMAIN routers : routers[x].ready => Routed(x)

To24(n, q) ==
    LET c == Cidr("public", q.third) IN
    InPools => /\ Given(c)
               /\ \A x \in DOMAIN routers : routers[x].cidr = c =>
                     q.via = routers[x].up /\ (n = RootNs <=> routers[x].uplink = Ix)
To20(q) ==
    \E g \in DOMAIN regions :
        /\ q.third = 16 * regions[g].idx
        /\ regions[g].router \in DOMAIN routers => q.via = routers[regions[g].router].up
RoutesOk == \A n \in DOMAIN ns : \A q \in ns[n] :
                /\ q.len = 24 => To24(n, q)
                /\ n = RootNs /\ q.len = 20 => To20(q)

PathsInv == IdsOk /\ SetupOk /\ PlacedOk /\ RoutedOk /\ RoutesOk

LEMMA PathsInit == Init => PathsInv
<1> SUFFICES ASSUME Init PROVE PathsInv
    OBVIOUS
<1>1. /\ nextId = 2 /\ DOMAIN ns = {RootNs} /\ ns[RootNs] = {} /\ DOMAIN routers = {}
      /\ DOMAIN devices = {} /\ DOMAIN regions = {}
      /\ \A t \in Tasks : task[t].at = "idle"
    BY DEF Init, IdleTask
<1>2. \A t \in Tasks : ~Making(t) /\ ~Setting(t)
    BY <1>1 DEF Making, Setting
<1>3. IdsOk
    BY <1>1, <1>2 DEF IdsOk, RootNs
<1> QED
    BY <1>1, <1>2, <1>3 DEF PathsInv, SetupOk, PlacedOk, RoutedOk, RoutesOk

(* What a step does to routers, regions, namespaces and tasks.              *)

RouterAsIs(x) ==
    /\ x \in DOMAIN routers
    /\ routers'[x].region = routers[x].region /\ routers'[x].pool = routers[x].pool
    /\ routers'[x].cidr = routers[x].cidr
    /\ routers'[x].uplink = routers[x].uplink /\ routers'[x].up = routers[x].up
RouterFirst(r) ==
    /\ ~r.ready /\ r.uplink \in Nat /\ r.uplink < nextId
    /\ InPools' => r.cidr = NoCidr \/ (~Given(r.cidr) /\ Given(r.cidr)')
    /\ r.pool = "public" /\ r.uplink # NoNode => r.cidr = Cidr("public", r.cidr.third)
    /\ InPools' /\ UnderRegion(r)' => InBlock(r, r.region)'
RouterNew(x) == x = nextId /\ nextId < nextId' /\ \E r : r = routers'[x] /\ RouterFirst(r)
Publishes(x) ==
    \E t \in Tasks :
        /\ x = task[t].id
        /\ \/ task[t].at = "publish"
           \/ /\ task[t].at = "aggregate"
              /\ \E i : i = 16 * regions[task[t].region].idx /\ HasRoute(RootNs, i, 20)'
RoutersMove ==
    \A x \in DOMAIN routers' :
        \/ RouterAsIs(x) /\ (routers'[x].ready => routers[x].ready \/ Publishes(x))
        \/ RouterNew(x)
RegionAsIs(g) ==
    g \in DOMAIN regions /\ regions'[g].idx = regions[g].idx /\ regions'[g].router = regions[g].router
RegionsMove ==
    /\ DOMAIN regions \subseteq DOMAIN regions'
    /\ \A g \in DOMAIN regions' :
          RegionAsIs(g) \/ (g \notin DOMAIN regions /\ regions'[g].router = nextId /\ nextId < nextId')
DevicesMove == \A d \in DOMAIN devices' : d \in DOMAIN devices \/ d = nextId
NsMade(n) == ns'[n] = {} /\ \E t \in Tasks : Making(t) /\ task[t].id = n /\ ~Making(t)'
RouteNew(n, q) ==
    \E t \in Tasks :
        \/ /\ task[t].at = "routes" /\ task[t].net.block = "public" /\ n = task[t].upstream
           /\ q = Route(task[t].net.third, 24, task[t].addr)
        \/ /\ task[t].at = "aggregate" /\ n = RootNs
           /\ q = Route(regions[task[t].region].idx * 16, 20, task[t].addr)
NsMove ==
    /\ RootNs \in DOMAIN ns'
    /\ \A n \in DOMAIN ns' : (n \in DOMAIN ns /\ ns[n] \subseteq ns'[n]) \/ NsMade(n)
    /\ \A n \in DOMAIN ns' : \A q \in ns'[n] : (n \in DOMAIN ns /\ q \in ns[n]) \/ RouteNew(n, q)

\* A new router with an uplink, and the task that sets it up.
Enters(t) ==
    LET b == task'[t]
        r == routers'[nextId]
    IN
    /\ b.at = "create" /\ b.id = nextId /\ nextId < nextId'
    /\ nextId \in DOMAIN routers' /\ r.cidr = b.net /\ r.up = b.addr
    /\ b.net # NoCidr
    /\ b.net.block = "public" => b.net = Cidr("public", b.net.third)
    /\ b.upstream \in Nat /\ b.upstream < nextId
    /\ r.uplink = Ix <=> b.upstream = RootNs
    /\ r.uplink \in DOMAIN switches' => switches'[r.uplink].owner = b.upstream
    /\ \A g \in DOMAIN regions' : regions'[g].router = nextId => b.region = g
SameJob(t) ==
    /\ task'[t].id = task[t].id /\ task'[t].region = task[t].region
    /\ task'[t].upstream = task[t].upstream
    /\ task'[t].net = task[t].net /\ task'[t].addr = task[t].addr
Proceeds(t) ==
    /\ SameJob(t)
    /\ \/ task[t].at = "create" /\ task'[t].at = "uplink"
       \/ task[t].at = "uplink" /\ task'[t].at = "routes" /\ task[t].upstream \in DOMAIN ns
       \/ /\ task[t].at = "routes"
          /\ task'[t].at = IF IsRegion(t) THEN "aggregate" ELSE "publish"
          /\ task[t].net.block = "public" /\ task[t].upstream \in DOMAIN ns' =>
                HasRoute(task[t].upstream, task[t].net.third, 24)'
TaskMove(t) ==
    \/ task'[t] = task[t]
    \/ ~Making(t)' /\ ~Setting(t)' /\ (task'[t].at = "close" => task'[t].id # RootNs)
    \/ task'[t].at = "device" /\ task'[t].id = nextId /\ nextId < nextId'
    \/ task[t].at = "device" /\ task'[t].at = "wire" /\ task'[t].id = task[t].id
    \/ Enters(t)
    \/ Proceeds(t)
TasksMove == \E t : TaskMove(t) /\ \A u \in Tasks : u # t => task'[u] = task[u]
SwitchesMove == \A s \in DOMAIN switches' :
    (s \in DOMAIN switches /\ switches'[s].owner = switches[s].owner) \/ s > nextId

Moves ==
    /\ nextId' \in Nat /\ nextId <= nextId'
    /\ RoutersMove /\ RegionsMove /\ DevicesMove /\ NsMove /\ TasksMove /\ SwitchesMove

LEMMA PendingMove ==
    ASSUME IdsOk, Moves, NEW n, Pending(n)'
    PROVE  Pending(n) \/ (n = nextId /\ nextId < nextId')
<1>1. PICK t \in Tasks : Making(t)' /\ task'[t].id = n
    BY DEF Pending
<1>2. PICK u : TaskMove(u) /\ \A v \in Tasks : v # u => task'[v] = task[v]
    BY DEF Moves, TasksMove
<1>3. CASE task'[t] = task[t]
    BY <1>1, <1>3 DEF Pending, Making
<1>4. CASE task'[t] # task[t]
    BY <1>1, <1>2, <1>4 DEF TaskMove, Pending, Making, Enters, Proceeds, SameJob
<1> QED
    BY <1>3, <1>4

LEMMA IdsStep == ASSUME IdsOk, Moves PROVE IdsOk'
<1>0. nextId \in Nat /\ nextId > 0 /\ nextId' \in Nat /\ nextId <= nextId'
    BY DEF IdsOk, Moves
<1>1. PICK u : TaskMove(u) /\ \A v \in Tasks : v # u => task'[v] = task[v]
    BY DEF Moves, TasksMove
<1>2. \A n \in DOMAIN ns' : n \in DOMAIN ns \/ NsMade(n)
    BY DEF Moves, NsMove
<1>3. \A n \in DOMAIN ns : n \in Nat /\ n < nextId
    BY DEF IdsOk
<1>4. \A t \in Tasks : Making(t) \/ Setting(t) =>
          task[t].id \in Nat /\ 0 < task[t].id /\ task[t].id < nextId
    BY DEF IdsOk
<1>5. RootNs \in DOMAIN ns' /\ \A n \in DOMAIN ns' : n \in Nat /\ n < nextId'
    <2>1. RootNs \in DOMAIN ns'
        BY DEF Moves, NsMove
    <2>2. \A n \in DOMAIN ns' : n \in Nat /\ n < nextId
        BY <1>2, <1>3, <1>4 DEF NsMade
    <2> QED
        BY <1>0, <2>1, <2>2
\* What is made is new or was to be made before.
<1>6. ASSUME NEW t \in Tasks, Making(t)'
      PROVE  \/ Making(t) /\ task'[t].id = task[t].id
             \/ t = u /\ task'[t].id = nextId /\ nextId < nextId'
    <2>1. CASE task'[t] = task[t]
        BY <1>6, <2>1 DEF Making
    <2>2. CASE task'[t] # task[t]
        BY <1>1, <1>6, <2>2 DEF TaskMove, Making, Enters, Proceeds, SameJob
    <2> QED
        BY <2>1, <2>2
<1>7. ASSUME NEW t \in Tasks, Setting(t)'
      PROVE  \/ Setting(t) /\ task'[t].id = task[t].id
             \/ task'[t].id = nextId /\ nextId < nextId'
    <2>1. CASE task'[t] = task[t]
        BY <1>7, <2>1 DEF Setting
    <2>2. CASE task'[t] # task[t]
        BY <1>1, <1>7, <2>2 DEF TaskMove, Setting, Enters, Proceeds, SameJob
    <2> QED
        BY <2>1, <2>2
<1>8. \A t \in Tasks : Making(t)' \/ Setting(t)' =>
          task'[t].id \in Nat /\ 0 < task'[t].id /\ task'[t].id < nextId'
    <2>1. ASSUME NEW t \in Tasks, Making(t)' \/ Setting(t)'
          PROVE  \/ (Making(t) \/ Setting(t)) /\ task'[t].id = task[t].id
                 \/ task'[t].id = nextId /\ nextId < nextId'
        BY <1>6, <1>7, <2>1
    <2> QED
        BY <1>0, <1>4, <2>1
<1>9. \A t \in Tasks : Making(t)' => task'[t].id \notin DOMAIN ns'
    <2> SUFFICES ASSUME NEW t \in Tasks, Making(t)', task'[t].id \in DOMAIN ns'
                 PROVE  FALSE
        OBVIOUS
    <2>1. CASE task'[t].id = nextId
        BY <1>0, <1>2, <1>3, <1>4, <2>1 DEF NsMade
    <2>2. CASE Making(t) /\ task'[t].id = task[t].id
        <3>1. task[t].id \notin DOMAIN ns
            BY <2>2 DEF IdsOk
        <3>2. PICK v \in Tasks : Making(v) /\ task[v].id = task[t].id /\ ~Making(v)'
            BY <1>2, <2>2, <3>1 DEF NsMade
        <3>3. v = t
            BY <2>2, <3>2 DEF IdsOk
        <3> QED
            BY <3>2, <3>3
    <2> QED
        BY <1>6, <2>1, <2>2
<1>10. \A t, v \in Tasks : Making(t)' /\ Making(v)' /\ task'[t].id = task'[v].id => t = v
    <2> SUFFICES ASSUME NEW t \in Tasks, NEW v \in Tasks, Making(t)', Making(v)',
                        task'[t].id = task'[v].id
                 PROVE  t = v
        OBVIOUS
    <2>1. CASE Making(t) /\ task'[t].id = task[t].id /\ Making(v) /\ task'[v].id = task[v].id
        BY <2>1 DEF IdsOk
    <2>2. ASSUME NEW w \in Tasks, Making(w)', task'[w].id = nextId PROVE w = u
        <3>1. Making(w) => task[w].id # nextId
            BY <1>0, <1>4
        <3> QED
            BY <1>6, <2>2, <3>1
    <2>3. CASE task'[t].id = nextId
        BY <2>2, <2>3
    <2> QED
        BY <1>6, <2>1, <2>2, <2>3
<1>11. \A t \in Tasks : task'[t].at = "close" => task'[t].id # RootNs
    <2> SUFFICES ASSUME NEW t \in Tasks, task'[t].at = "close" PROVE task'[t].id # RootNs
        OBVIOUS
    <2>1. CASE task'[t] = task[t]
        BY <2>1 DEF IdsOk
    <2>2. CASE task'[t] # task[t]
        BY <1>1, <2>2 DEF TaskMove, Enters, Proceeds
    <2> QED
        BY <2>1, <2>2
<1>12. \A d \in DOMAIN devices' : d # 0
    BY <1>0 DEF Moves, DevicesMove, IdsOk
<1>13. \A g \in DOMAIN regions' :
           regions'[g].router \in Nat /\ 0 < regions'[g].router /\ regions'[g].router < nextId'
    BY <1>0 DEF Moves, RegionsMove, RegionAsIs, IdsOk
<1> QED
    BY <1>0, <1>5, <1>8, <1>9, <1>10, <1>11, <1>12, <1>13 DEF IdsOk

(* What holds of a task, a router or a route goes on to hold.               *)
LEMMA NsStays ==
    ASSUME IdsOk, Moves, NEW n, ~Pending(n)
    PROVE  n \in DOMAIN ns' => n \in DOMAIN ns /\ ns[n] \subseteq ns'[n]
BY DEF Moves, NsMove, NsMade, Pending

LEMMA RouteStays ==
    ASSUME IdsOk, Moves, NEW n, ~Pending(n), NEW third, NEW len, HasRoute(n, third, len)
    PROVE  n \in DOMAIN ns' => HasRoute(n, third, len)'
BY NsStays DEF HasRoute

LEMMA WayStays ==
    ASSUME IdsOk, Moves, NEW u, u # nextId, NEW third, WayBack(u, third)
    PROVE  WayBack(u, third)'
<1>1. ~Pending(u) /\ ~Pending(u)'
    BY PendingMove DEF WayBack
<1> QED
    BY <1>1, NsStays, RouteStays DEF WayBack

LEMMA RootStays ==
    ASSUME IdsOk, Moves, NEW third, NEW len, HasRoute(RootNs, third, len)
    PROVE  HasRoute(RootNs, third, len)'
<1>1. ~Pending(RootNs)
    BY DEF IdsOk, Pending, RootNs
<1>2. RootNs \in DOMAIN ns'
    BY DEF Moves, NsMove
<1> QED
    BY <1>1, <1>2, RouteStays

LEMMA OldOwner ==
    ASSUME IdsOk, Shapes, SwitchesWired, Moves, NEW s \in DOMAIN switches', s \in Nat, s < nextId
    PROVE  /\ s \in DOMAIN switches /\ switches'[s].owner = switches[s].owner
           /\ switches[s].owner \in Nat /\ switches[s].owner < nextId
<1>1. s \in DOMAIN switches /\ switches'[s].owner = switches[s].owner
    BY DEF Moves, SwitchesMove, IdsOk
<1>2. CASE switches[s].owner = NoNode
    BY <1>1, <1>2 DEF NoNode, IdsOk
<1>3. CASE switches[s].owner # NoNode
    BY <1>1, <1>3 DEF SwitchesWired, Shapes, NodesOk
<1> QED
    BY <1>1, <1>2, <1>3

LEMMA BuiltStays ==
    ASSUME IdsOk, Shapes, Shapes', SwitchesWired, Moves, Allocates, PlacedOk,
           NEW t \in Tasks, Setting(t), BuiltOk(t),
           SameJob(t)
    PROVE  BuiltOk(t)'
<1>0. /\ nextId \in Nat /\ nextId' \in Nat /\ nextId <= nextId'
      /\ task[t].id \in Nat /\ task[t].id < nextId
    BY DEF Moves, IdsOk
<1>1. PICK b : b = [id |-> task[t].id, region |-> task[t].region, upstream |-> task[t].upstream,
                    net |-> task[t].net, addr |-> task[t].addr]
    OBVIOUS
<1>2. /\ task[t].id = b.id /\ task[t].region = b.region /\ task[t].upstream = b.upstream
      /\ task[t].net = b.net /\ task[t].addr = b.addr
      /\ task'[t].id = b.id /\ task'[t].region = b.region /\ task'[t].upstream = b.upstream
      /\ task'[t].net = b.net /\ task'[t].addr = b.addr
    BY <1>1 DEF SameJob
<1>3. /\ b.upstream \in Nat /\ b.upstream < nextId /\ b.net # NoCidr /\ (InPools => Given(b.net))
      /\ b.net.block = "public" => b.net = Cidr("public", b.net.third)
      /\ InPools => \A x \in DOMAIN routers : routers[x].cidr = b.net => x = b.id
    BY <1>2 DEF BuiltOk
<1>4. InPools' => InPools /\ Given(b.net)'
    <2>1. PICK c : c = b.net
        OBVIOUS
    <2> QED
        BY <1>3, <2>1, PoolsBefore, GivenStays DEF Allocates
<1>5. ASSUME InPools', NEW x \in DOMAIN routers', routers'[x].cidr = b.net
      PROVE  x = b.id
    <2>1. CASE RouterNew(x)
        <3>1. PICK r : r = routers'[x] /\ RouterFirst(r)
            BY <2>1 DEF RouterNew
        <3>2. r.cidr = b.net
            BY <1>5, <3>1
        <3> QED
            BY <1>3, <1>4, <1>5, <3>1, <3>2 DEF RouterFirst
    <2>2. CASE RouterAsIs(x)
        BY <1>3, <1>4, <1>5, <2>2 DEF RouterAsIs
    <2> QED
        BY <2>1, <2>2 DEF Moves, RoutersMove
<1>6. Carries(t)'
    <2> SUFFICES ASSUME b.id \in DOMAIN routers'
                 PROVE  /\ routers'[b.id].cidr = b.net /\ routers'[b.id].up = b.addr
                        /\ routers'[b.id].uplink = Ix <=> b.upstream = RootNs
                        /\ routers'[b.id].uplink \in DOMAIN switches' =>
                              switches'[routers'[b.id].uplink].owner = b.upstream
        BY <1>2 DEF Carries
    <2>1. RouterAsIs(b.id)
        BY <1>0, <1>2 DEF Moves, RoutersMove, RouterNew
    <2>2. /\ routers[b.id].cidr = b.net /\ routers[b.id].up = b.addr
          /\ routers[b.id].uplink = Ix <=> b.upstream = RootNs
          /\ routers[b.id].uplink \in DOMAIN switches =>
                switches[routers[b.id].uplink].owner = b.upstream
        BY <1>2, <2>1 DEF BuiltOk, Carries, RouterAsIs
    <2>3. routers[b.id].uplink \in Nat /\ routers[b.id].uplink < nextId
        BY <2>1 DEF PlacedOk, Placed, RouterAsIs
    <2>4. PICK s : s = routers[b.id].uplink
        OBVIOUS
    <2>5. s \in DOMAIN switches' => switches'[s].owner = b.upstream
        BY <2>2, <2>3, <2>4, OldOwner
    <2> QED
        BY <2>1, <2>2, <2>4, <2>5 DEF RouterAsIs
<1>7. \A g \in DOMAIN regions' : regions'[g].router = b.id => b.region = g
    BY <1>0, <1>2 DEF Moves, RegionsMove, RegionAsIs, BuiltOk
<1> QED
    BY <1>0, <1>2, <1>3, <1>4, <1>5, <1>6, <1>7 DEF BuiltOk

LEMMA RegionSame ==
    ASSUME IdsOk, Shapes, Moves, NEW t \in Tasks, Setting(t), SameJob(t)
    PROVE  IsRegion(t)' <=> IsRegion(t)
<1>0. task[t].id # nextId
    BY DEF IdsOk
<1>1. \A g : g \in DOMAIN regions' /\ regions'[g].router = task[t].id <=>
              g \in DOMAIN regions /\ regions[g].router = task[t].id
    BY <1>0 DEF Moves, RegionsMove, RegionAsIs
<1>2. task'[t].region = task[t].region /\ task'[t].id = task[t].id
    BY DEF SameJob
<1> QED
    BY <1>1, <1>2 DEF IsRegion

LEMMA PhaseStays ==
    ASSUME IdsOk, Shapes, Moves, NEW t \in Tasks, Setting(t), BuiltOk(t), PhaseOk(t),
           task'[t] = task[t]
    PROVE  PhaseOk(t)'
<1>1. PICK b : b = task[t] /\ b = task'[t]
    OBVIOUS
<1>2. IsRegion(t)' <=> IsRegion(t)
    BY RegionSame DEF SameJob
<1>3. b.upstream # nextId
    BY <1>1 DEF BuiltOk, IdsOk
<1>4. ~Pending(b.upstream) => ~Pending(b.upstream)'
    BY <1>3, PendingMove
<1>5. ~Pending(b.upstream) /\ HasRoute(b.upstream, b.net.third, 24) =>
          (b.upstream \in DOMAIN ns' => HasRoute(b.upstream, b.net.third, 24)')
    BY RouteStays
<1>6. ~Pending(b.upstream) => (b.upstream \in DOMAIN ns' => b.upstream \in DOMAIN ns)
    BY NsStays
<1>7. /\ b.at = "aggregate" => IsRegion(t)
      /\ b.at = "publish" => ~IsRegion(t)
      /\ b.at \in {"routes", "publish", "aggregate"} => ~Pending(b.upstream)
      /\ b.at \in {"publish", "aggregate"} /\ b.net.block = "public" /\ b.upstream \in DOMAIN ns
          => HasRoute(b.upstream, b.net.third, 24)
    BY <1>1 DEF PhaseOk
<1>8. /\ b.at = "aggregate" => IsRegion(t)'
      /\ b.at = "publish" => ~IsRegion(t)'
      /\ b.at \in {"routes", "publish", "aggregate"} => ~Pending(b.upstream)'
      /\ b.at \in {"publish", "aggregate"} /\ b.net.block = "public" /\ b.upstream \in DOMAIN ns'
          => HasRoute(b.upstream, b.net.third, 24)'
    BY <1>2, <1>4, <1>5, <1>6, <1>7
<1> QED
    BY <1>1, <1>8 DEF PhaseOk

LEMMA PhaseProceeds ==
    ASSUME IdsOk, Shapes, Moves, NEW t \in Tasks, Setting(t), BuiltOk(t), PhaseOk(t), Proceeds(t)
    PROVE  PhaseOk(t)'
<1>1. PICK b : b = [id |-> task[t].id, upstream |-> task[t].upstream, net |-> task[t].net]
    OBVIOUS
<1>2. /\ task[t].id = b.id /\ task[t].upstream = b.upstream /\ task[t].net = b.net
      /\ task'[t].id = b.id /\ task'[t].upstream = b.upstream /\ task'[t].net = b.net
    BY <1>1 DEF Proceeds, SameJob
<1>3. IsRegion(t)' <=> IsRegion(t)
    BY RegionSame DEF Proceeds
<1>4. ~Pending(b.upstream) => ~Pending(b.upstream)'
    BY <1>2, PendingMove DEF BuiltOk, IdsOk
<1>5. CASE task'[t].at = "uplink"
    BY <1>5 DEF PhaseOk
<1>6. CASE task[t].at = "uplink" /\ task'[t].at = "routes" /\ task[t].upstream \in DOMAIN ns
    <2>1. ~Pending(b.upstream)
        BY <1>2, <1>6 DEF IdsOk, Pending
    <2> QED
        BY <1>2, <1>4, <1>6, <2>1 DEF PhaseOk
<1>7. CASE /\ task[t].at = "routes"
           /\ task'[t].at = IF IsRegion(t) THEN "aggregate" ELSE "publish"
           /\ b.net.block = "public" /\ b.upstream \in DOMAIN ns' =>
                HasRoute(b.upstream, b.net.third, 24)'
    <2>1. ~Pending(b.upstream)
        BY <1>2, <1>7 DEF PhaseOk
    <2> QED
        BY <1>2, <1>3, <1>4, <1>7, <2>1 DEF PhaseOk
<1> QED
    BY <1>2, <1>5, <1>6, <1>7 DEF Proceeds

LEMMA EntersOk ==
    ASSUME IdsOk, IdsOk', Shapes, Shapes', Moves, Allocates, PlacedOk, NEW t \in Tasks, Enters(t)
    PROVE  BuiltOk(t)' /\ PhaseOk(t)'
<1>1. PICK b : b = task'[t]
    OBVIOUS
<1>2. PICK id, r : id = nextId /\ r = routers'[id]
    OBVIOUS
<1>3. /\ b.at = "create" /\ b.id = id /\ nextId < nextId'
      /\ id \in DOMAIN routers' /\ r.cidr = b.net /\ r.up = b.addr
      /\ b.net # NoCidr
      /\ b.net.block = "public" => b.net = Cidr("public", b.net.third)
      /\ b.upstream \in Nat /\ b.upstream < nextId
      /\ r.uplink = Ix <=> b.upstream = RootNs
      /\ r.uplink \in DOMAIN switches' => switches'[r.uplink].owner = b.upstream
      /\ \A g \in DOMAIN regions' : regions'[g].router = id => b.region = g
    BY <1>1, <1>2 DEF Enters
<1>4. RouterFirst(r)
    <2>1. ~RouterAsIs(id)
        BY <1>2 DEF RouterAsIs, Shapes, NodesOk
    <2> QED
        BY <1>2, <1>3, <2>1 DEF Moves, RoutersMove, RouterNew
<1>5. InPools' => ~Given(b.net) /\ Given(b.net)'
    BY <1>3, <1>4 DEF RouterFirst
<1>6. ASSUME InPools', NEW x \in DOMAIN routers', routers'[x].cidr = b.net PROVE x = id
    <2>1. CASE RouterNew(x)
        BY <1>2, <2>1 DEF RouterNew
    <2>2. CASE RouterAsIs(x)
        <3>1. InPools
            BY <1>6, PoolsBefore DEF Allocates
        <3> QED
            BY <1>3, <1>5, <1>6, <2>2, <3>1 DEF RouterAsIs, PlacedOk, Placed
    <2> QED
        BY <2>1, <2>2 DEF Moves, RoutersMove
<1>7. Carries(t)'
    BY <1>1, <1>2, <1>3 DEF Carries
<1>8. b.upstream < nextId'
    BY <1>3 DEF IdsOk
<1>9. BuiltOk(t)'
    BY <1>1, <1>3, <1>5, <1>6, <1>7, <1>8 DEF BuiltOk
<1> QED
    BY <1>1, <1>3, <1>9 DEF PhaseOk

LEMMA SetupStays ==
    ASSUME IdsOk, IdsOk', Shapes, Shapes', SwitchesWired, Moves, Allocates, PlacedOk, SetupOk
    PROVE  SetupOk'
<1>1. PICK u : TaskMove(u) /\ \A v \in Tasks : v # u => task'[v] = task[v]
    BY DEF Moves, TasksMove
<1> SUFFICES ASSUME NEW t \in Tasks, Setting(t)' PROVE BuiltOk(t)' /\ PhaseOk(t)'
    BY DEF SetupOk
<1>2. CASE task'[t] = task[t]
    <2>1. Setting(t) /\ BuiltOk(t) /\ PhaseOk(t) /\ SameJob(t)
        BY <1>2 DEF Setting, SetupOk, SameJob
    <2> QED
        BY <1>2, <2>1, BuiltStays, PhaseStays
<1>3. CASE Proceeds(t)
    <2>1. Setting(t) /\ BuiltOk(t) /\ PhaseOk(t) /\ SameJob(t)
        BY <1>3 DEF Setting, SetupOk, Proceeds
    <2> QED
        BY <1>3, <2>1, BuiltStays, PhaseProceeds
<1>4. CASE Enters(t)
    BY <1>4, EntersOk
<1>5. task'[t] = task[t] \/ Enters(t) \/ Proceeds(t)
    BY <1>1 DEF TaskMove, Setting
<1> QED
    BY <1>2, <1>3, <1>4, <1>5

LEMMA PlacedStays ==
    ASSUME IdsOk, IdsOk', Shapes, Shapes', SwitchesWired, Moves, Allocates, PlacedOk
    PROVE  PlacedOk'
<1>0. nextId \in Nat /\ nextId' \in Nat /\ nextId <= nextId'
    BY DEF Moves, IdsOk
<1> SUFFICES ASSUME NEW x \in DOMAIN routers' PROVE Placed(x)'
    BY DEF PlacedOk
<1>1. PICK r : r = routers'[x]
    OBVIOUS
<1>2. CASE RouterNew(x)
    <2>1. RouterFirst(r)
        BY <1>1, <1>2 DEF RouterNew
    <2>2. r.uplink \in Nat /\ r.uplink < nextId'
        BY <1>0, <2>1 DEF RouterFirst
    <2> QED
        BY <1>1, <2>1, <2>2 DEF RouterFirst, Placed
<1>3. CASE RouterAsIs(x)
    <2>1. PICK o : o = routers[x]
        OBVIOUS
    <2>2. /\ InPools => o.cidr = NoCidr \/ Given(o.cidr)
          /\ o.uplink \in Nat /\ o.uplink < nextId
          /\ o.pool = "public" /\ o.uplink # NoNode => o.cidr = Cidr("public", o.cidr.third)
          /\ InPools /\ UnderRegion(o) => InBlock(o, o.region)
        BY <1>3, <2>1 DEF RouterAsIs, PlacedOk, Placed
    <2>3. /\ r.region = o.region /\ r.pool = o.pool /\ r.cidr = o.cidr /\ r.uplink = o.uplink
        BY <1>1, <1>3, <2>1 DEF RouterAsIs
    <2>4. InPools' => InPools /\ (r.cidr = NoCidr \/ Given(r.cidr)')
        <3>1. PICK c : c = r.cidr
            OBVIOUS
        <3> QED
            BY <2>2, <2>3, <3>1, PoolsBefore, GivenStays DEF Allocates
    <2>5. InPools' /\ UnderRegion(r)' => InBlock(r, r.region)'
        <3> SUFFICES ASSUME InPools', UnderRegion(r)' PROVE InBlock(r, r.region)'
            OBVIOUS
        <3>1. /\ r.pool = "public" /\ r.uplink \in DOMAIN switches' /\ r.region \in DOMAIN regions'
              /\ switches'[r.uplink].owner = regions'[r.region].router
            BY DEF UnderRegion
        <3>2. /\ r.uplink \in DOMAIN switches /\ switches'[r.uplink].owner = switches[r.uplink].owner
              /\ switches[r.uplink].owner # nextId
            <4>1. PICK s \in DOMAIN switches' : s = r.uplink
                BY <3>1
            <4> QED
                BY <1>0, <2>2, <2>3, <4>1, OldOwner
        <3>3. RegionAsIs(r.region)
            BY <3>1, <3>2 DEF Moves, RegionsMove
        <3>4. UnderRegion(o)
            BY <2>3, <3>1, <3>2, <3>3 DEF UnderRegion, RegionAsIs
        <3>5. InBlock(o, o.region)
            BY <2>2, <2>4, <3>4
        <3> QED
            BY <2>3, <3>3, <3>5 DEF InBlock, RegionAsIs
    <2>6. r.uplink \in Nat /\ r.uplink < nextId'
        BY <1>0, <2>2, <2>3
    <2> QED
        BY <1>1, <2>2, <2>3, <2>4, <2>5, <2>6 DEF Placed
<1> QED
    BY <1>2, <1>3 DEF Moves, RoutersMove

LEMMA RoutedStays ==
    ASSUME IdsOk, Shapes, SwitchesWired, Moves, PlacedOk, SetupOk, RoutedOk
    PROVE  RoutedOk'
<1> SUFFICES ASSUME NEW x \in DOMAIN routers', routers'[x].ready PROVE Routed(x)'
    BY DEF RoutedOk
<1>0. nextId \in Nat
    BY DEF IdsOk
<1>1. RouterAsIs(x) /\ (routers[x].ready \/ Publishes(x))
    BY DEF Moves, RoutersMove, RouterNew, RouterFirst
<1>2. PICK r : r = routers[x]
    OBVIOUS
<1>3. x \in DOMAIN routers /\ r.cidr = routers'[x].cidr /\ r.uplink = routers'[x].uplink
      /\ r.uplink \in Nat /\ r.uplink < nextId /\ x # nextId
    BY <1>1, <1>2 DEF RouterAsIs, PlacedOk, Placed, Shapes, NodesOk
<1>4. r.uplink \in DOMAIN switches' =>
          /\ r.uplink \in DOMAIN switches /\ switches'[r.uplink].owner = switches[r.uplink].owner
          /\ switches[r.uplink].owner # nextId
    <2>1. PICK s : s = r.uplink
        OBVIOUS
    <2> QED
        BY <1>0, <1>3, <2>1, OldOwner
<1>5. \A g \in DOMAIN regions' : regions'[g].router = x => RegionAsIs(g)
    BY <1>3 DEF Moves, RegionsMove
<1>6. PICK third : third = r.cidr.third
    OBVIOUS
<1>7. ASSUME NEW u, u # nextId, r.cidr.block = "public", WayBack(u, third),
             r.uplink \in DOMAIN switches, switches[r.uplink].owner = u
      PROVE  r.uplink \in DOMAIN switches' => switches'[r.uplink].owner = u /\ WayBack(u, third)'
    BY <1>4, <1>7, WayStays
\* What is to show, with the ends of the ways named.
<1>8. ASSUME r.cidr.block = "public" /\ r.uplink \in DOMAIN switches' =>
                 \E u : u = switches'[r.uplink].owner /\ WayBack(u, third)',
             \A g \in DOMAIN regions' : regions'[g].router = x =>
                 \E i : i = 16 * regions'[g].idx /\ HasRoute(RootNs, i, 20)'
      PROVE  Routed(x)'
    <2>1. routers'[x].cidr.third = third
        BY <1>3, <1>6
    <2> QED
        BY <1>3, <1>8, <2>1 DEF Routed
<1>9. CASE routers[x].ready
    <2>1. /\ r.cidr.block = "public" /\ r.uplink \in DOMAIN switches =>
              \E u : u = switches[r.uplink].owner /\ WayBack(u, third)
          /\ \A g \in DOMAIN regions : regions[g].router = x =>
              \E i : i = 16 * regions[g].idx /\ HasRoute(RootNs, i, 20)
        BY <1>2, <1>3, <1>6, <1>9 DEF RoutedOk, Routed
    <2>2. r.cidr.block = "public" /\ r.uplink \in DOMAIN switches' =>
              \E u : u = switches'[r.uplink].owner /\ WayBack(u, third)'
        BY <1>4, <1>7, <2>1
    <2>3. \A g \in DOMAIN regions' : regions'[g].router = x =>
              \E i : i = 16 * regions'[g].idx /\ HasRoute(RootNs, i, 20)'
        BY <1>5, <2>1, RootStays DEF RegionAsIs
    <2> QED
        BY <1>8, <2>2, <2>3
<1>10. CASE Publishes(x)
    <2>1. PICK t \in Tasks :
              /\ x = task[t].id
              /\ \/ task[t].at = "publish"
                 \/ /\ task[t].at = "aggregate"
                    /\ \E i : i = 16 * regions[task[t].region].idx /\ HasRoute(RootNs, i, 20)'
        BY <1>10 DEF Publishes
    <2>2. BuiltOk(t) /\ PhaseOk(t)
        BY <2>1 DEF SetupOk, Setting
    <2>3. PICK b : b = task[t]
        OBVIOUS
    <2>4. r.cidr = b.net /\ (r.uplink \in DOMAIN switches => switches[r.uplink].owner = b.upstream)
        BY <1>2, <1>3, <2>1, <2>2, <2>3 DEF BuiltOk, Carries
    <2>5. b.upstream # nextId
        BY <1>0, <2>2, <2>3 DEF BuiltOk
    <2>6. b.net.block = "public" => WayBack(b.upstream, third)
        BY <1>6, <2>1, <2>2, <2>3, <2>4 DEF PhaseOk, WayBack
    <2>7. r.cidr.block = "public" /\ r.uplink \in DOMAIN switches' =>
              \E u : u = switches'[r.uplink].owner /\ WayBack(u, third)'
        BY <1>4, <1>7, <2>4, <2>5, <2>6
    <2>8. ASSUME NEW g \in DOMAIN regions', regions'[g].router = x
          PROVE  \E i : i = 16 * regions'[g].idx /\ HasRoute(RootNs, i, 20)'
        <3>1. RegionAsIs(g)
            BY <1>5, <2>8
        <3>2. task[t].region = g /\ IsRegion(t)
            BY <2>1, <2>2, <2>8, <3>1 DEF BuiltOk, RegionAsIs, IsRegion
        <3>3. task[t].at = "aggregate"
            BY <2>1, <2>2, <3>2 DEF PhaseOk
        <3> QED
            BY <2>1, <3>1, <3>2, <3>3 DEF RegionAsIs
    <2> QED
        BY <1>8, <2>7, <2>8
<1> QED
    BY <1>1, <1>9, <1>10

LEMMA To24Stays ==
    ASSUME IdsOk, Shapes, Shapes', Moves, Allocates, NEW n, NEW q, To24(n, q)
    PROVE  To24(n, q)'
<1> SUFFICES ASSUME InPools',
                    NEW c, c = Cidr("public", q.third)
             PROVE  /\ Given(c)'
                    /\ \A x \in DOMAIN routers' : routers'[x].cidr = c =>
                          q.via = routers'[x].up /\ (n = RootNs <=> routers'[x].uplink = Ix)
    BY DEF To24
<1>1. InPools
    BY PoolsBefore DEF Allocates
<1>2. Given(c) /\ \A x \in DOMAIN routers : routers[x].cidr = c =>
          q.via = routers[x].up /\ (n = RootNs <=> routers[x].uplink = Ix)
    BY <1>1 DEF To24
<1>3. Given(c)'
    BY <1>2, GivenStays DEF Allocates
<1>4. c # NoCidr
    BY DEF Cidr, NoCidr
<1>5. ASSUME NEW x \in DOMAIN routers', routers'[x].cidr = c
      PROVE  q.via = routers'[x].up /\ (n = RootNs <=> routers'[x].uplink = Ix)
    <2>1. ~RouterNew(x)
        <3> SUFFICES ASSUME RouterNew(x) PROVE FALSE
            OBVIOUS
        <3>1. PICK r : r = routers'[x] /\ RouterFirst(r)
            BY DEF RouterNew
        <3>2. r.cidr = c
            BY <1>5, <3>1
        <3> QED
            BY <1>2, <1>4, <3>1, <3>2 DEF RouterFirst
    <2>2. RouterAsIs(x)
        BY <2>1 DEF Moves, RoutersMove
    <2> QED
        BY <1>2, <1>5, <2>2 DEF RouterAsIs
<1> QED
    BY <1>3, <1>5

LEMMA To20Stays ==
    ASSUME IdsOk, Shapes, Moves, NEW q, To20(q)
    PROVE  To20(q)'
<1>1. PICK g \in DOMAIN regions :
          /\ q.third = 16 * regions[g].idx
          /\ regions[g].router \in DOMAIN routers => q.via = routers[regions[g].router].up
    BY DEF To20
<1>2. g \in DOMAIN regions' /\ regions[g].router # nextId
    BY DEF Moves, RegionsMove, IdsOk
<1>3. RegionAsIs(g)
    BY <1>1, <1>2 DEF Moves, RegionsMove
<1>4. regions[g].router \in DOMAIN routers' => RouterAsIs(regions[g].router)
    BY <1>2 DEF Moves, RoutersMove, RouterNew
<1>5. /\ q.third = 16 * regions'[g].idx
      /\ regions'[g].router \in DOMAIN routers' => q.via = routers'[regions'[g].router].up
    BY <1>1, <1>3, <1>4 DEF RegionAsIs, RouterAsIs
<1> QED
    BY <1>2, <1>5 DEF To20

LEMMA RoutesStays ==
    ASSUME IdsOk, Shapes, Shapes', Moves, Allocates, SetupOk, RoutesOk
    PROVE  RoutesOk'
<1> SUFFICES ASSUME NEW n \in DOMAIN ns', NEW q \in ns'[n]
             PROVE  /\ q.len = 24 => To24(n, q)'
                    /\ n = RootNs /\ q.len = 20 => To20(q)'
    BY DEF RoutesOk
<1>1. CASE n \in DOMAIN ns /\ q \in ns[n]
    BY <1>1, To24Stays, To20Stays DEF RoutesOk
<1>2. ASSUME NEW t \in Tasks, task[t].at = "routes", task[t].net.block = "public",
             n = task[t].upstream, q = Route(task[t].net.third, 24, task[t].addr)
      PROVE  q.len = 24 /\ To24(n, q)
    <2>1. BuiltOk(t)
        BY <1>2 DEF SetupOk, Setting
    <2>2. q.len = 24 /\ q.third = task[t].net.third /\ q.via = task[t].addr
        BY <1>2 DEF Route
    <2>3. task[t].net = Cidr("public", q.third)
        BY <1>2, <2>1, <2>2 DEF BuiltOk
    <2> QED
        BY <1>2, <2>1, <2>2, <2>3 DEF BuiltOk, Carries, To24
<1>3. ASSUME NEW t \in Tasks, task[t].at = "aggregate", n = RootNs,
             q = Route(regions[task[t].region].idx * 16, 20, task[t].addr)
      PROVE  q.len = 20 /\ To20(q)
    <2>1. BuiltOk(t) /\ IsRegion(t)
        BY <1>3 DEF SetupOk, Setting, PhaseOk
    <2>2. q.len = 20 /\ q.third = regions[task[t].region].idx * 16 /\ q.via = task[t].addr
        BY <1>3 DEF Route
    <2>3. q.third = 16 * regions[task[t].region].idx
        BY <2>1, <2>2 DEF IsRegion, Shapes, RegionsOk
    <2> QED
        BY <2>1, <2>2, <2>3 DEF BuiltOk, Carries, IsRegion, To20
<1>4. CASE RouteNew(n, q)
    BY <1>2, <1>3, <1>4, To24Stays, To20Stays DEF RouteNew
<1> QED
    BY <1>1, <1>4 DEF Moves, NsMove

LEMMA PathsStep ==
    ASSUME PathsInv, Shapes, Shapes', SwitchesWired, Moves, Allocates
    PROVE  PathsInv'
<1>1. IdsOk'
    BY IdsStep DEF PathsInv
<1> QED
    BY <1>1, SetupStays, PlacedStays, RoutedStays, RoutesStays DEF PathsInv

(* Every step moves as described: the nodes and the switches.               *)
LEMMA NextMove == NodesOk /\ CoreMoves => nextId' \in Nat /\ nextId <= nextId'
<1> SUFFICES ASSUME NodesOk, CoreMoves PROVE nextId' \in Nat /\ nextId <= nextId'
    OBVIOUS
<1>1. nextId' = nextId \/ nextId' = nextId + 1 \/ nextId' = nextId + 2
    BY DEF CoreMoves, SameCore, LoneRouter, NewCore, RouterGone
<1> QED
    BY <1>1 DEF NodesOk

LEMMA SwitchesMoved == NodesOk /\ CoreMoves => SwitchesMove
<1> SUFFICES ASSUME NodesOk, CoreMoves PROVE SwitchesMove
    OBVIOUS
<1>1. CASE SameCore \/ LoneRouter
    BY <1>1 DEF SameCore, LoneRouter, SwitchKept, SwitchesMove
<1>2. ASSUME NEW r, NEW s, NewCore(r, s) PROVE SwitchesMove
    BY <1>2 DEF NodesOk, NewCore, SwitchKept, SwitchesMove
<1>3. ASSUME NEW r, RouterGone(r) PROVE SwitchesMove
    BY <1>3 DEF RouterGone, SwitchKept, SwitchesMove
<1> QED
    BY <1>1, <1>2, <1>3 DEF CoreMoves

LEMMA DevicesMoved == [Next]_vars => DevicesMove
<1> SUFFICES ASSUME [Next]_vars PROVE DevicesMove
    OBVIOUS
<1> USE DEF coreVars
<1>1. ASSUME NEW t \in Tasks, CallStep(t)
      PROVE  DevicesMove
    <2>1. ASSUME NEW n \in Names, AddDevice(t, n)
          PROVE  DevicesMove
        BY <2>1 DEF AddDevice, Put, DevicesMove
    <2>2. ASSUME NEW d \in DOMAIN devices, RemoveDevice(t, d)
          PROVE  DevicesMove
        BY <2>2 DEF RemoveDevice, Drop, DevicesMove
    <2>3. ASSUME NEW d \in DOMAIN devices, NEW i \in DOMAIN devices[d].ifaces,
                 RenewIp(t, d, i) \/ RemoveIface(t, d, i)
          PROVE  DevicesMove
        BY <2>3 DEF RenewIp, RemoveIface, DevicesMove
    <2>4. ASSUME NEW g \in Regions, AddRegion(t, g) \/ AddRegionNoAddress(t, g) \/ AddRegionOverflow(t, g)
          PROVE  devices' = devices
        BY <2>4 DEF AddRegion, AddRegionNoAddress, AddRegionOverflow, RegionRegistered
    <2>5. ASSUME \/ \E n \in Names, p \in {"private", "public"}, w \in Places : AddRouter(t, n, p, w)
                 \/ \E r \in DOMAIN routers : RemoveRouter(t, r)
                 \/ \E g \in DOMAIN regions, h \in DOMAIN regions : LinkRegions(t, g, h)
                 \/ \E d \in DOMAIN devices, i \in Ifaces, r \in DOMAIN routers : ReplugPrepare(t, d, i, r)
          PROVE  devices' = devices
        BY <2>5 DEF AddRouter, RemoveRouter, LinkRegions, ReplugPrepare
    <2>6. devices' = devices => DevicesMove
        BY DEF DevicesMove
    <2> QED
        BY <1>1, <2>1, <2>2, <2>3, <2>4, <2>5, <2>6 DEF CallStep
<1>2. ASSUME NEW t \in Tasks, BuildStep(t) \/ SetupStep(t) \/ CloseNamespace(t)
      PROVE  devices' = devices
    BY <1>2 DEF BuildStep, BuildNoBlock, BuildNoUplink, BuildConnected, SetupStep, SetupCreate,
       SetupUplink, SetupRoutes, SetupFails, PublishRouter, PublishRegion, CloseNamespace
<1>3. ASSUME NEW t \in Tasks, DeviceStep(t) \/ ReplugFinish(t)
      PROVE  DOMAIN devices' = DOMAIN devices
    BY <1>3 DEF DeviceStep, AddIface, AddIfaceFails, Abandon, BuildDevice, SetupDevice,
       PublishDevice, ReplugFinish
<1>4. CASE UNCHANGED vars
    BY <1>4 DEF vars, DevicesMove
<1> QED
    BY <1>1, <1>2, <1>3, <1>4 DEF Next, DevicesMove

LEMMA RegionsMoved == Shapes /\ [Next]_vars => RegionsMove
<1> SUFFICES ASSUME Shapes, [Next]_vars PROVE RegionsMove
    OBVIOUS
<1> USE DEF coreVars
<1>0. regions' = regions => RegionsMove
    BY DEF RegionsMove, RegionAsIs
<1>1. ASSUME NEW t \in Tasks, NEW g \in Regions, AddRegion(t, g)
      PROVE  RegionsMove
    <2>1. regions' = Put(regions, g, [idx |-> pools.region, router |-> nextId, next |-> 1])
        BY <1>1 DEF AddRegion
    <2>2. g \notin DOMAIN regions /\ nextId' = nextId + 2 /\ nextId \in Nat
        BY <1>1 DEF AddRegion, RegionRegistered, RegisterNames, Shapes, NodesOk
    <2> QED
        BY <2>1, <2>2 DEF Put, RegionsMove, RegionAsIs
<1>2. ASSUME NEW t \in Tasks, CallStep(t), ~\E g \in Regions : AddRegion(t, g)
      PROVE  regions' = regions
    BY <1>2 DEF CallStep, AddRouter, AddRegionNoAddress, AddRegionOverflow, AddDevice,
       RemoveRouter, LinkRegions, RemoveDevice, ReplugPrepare, RenewIp, RemoveIface
<1>3. ASSUME NEW t \in Tasks, BuildStep(t)
      PROVE  RegionsMove
    <2>1. regions' = regions \/ regions' = [regions EXCEPT ![task[t].region].next = @ + 1]
        BY <1>3 DEF BuildStep, BuildNoBlock, BuildNoUplink, TakeSubnet, BuildConnected
    <2>2. ASSUME regions' = [regions EXCEPT ![task[t].region].next = @ + 1]
          PROVE  DOMAIN regions' = DOMAIN regions /\ \A g \in DOMAIN regions : RegionAsIs(g)
        BY <2>2 DEF RegionAsIs, Shapes, RegionsOk, IsBlock
    <2> QED
        BY <1>0, <2>1, <2>2 DEF RegionsMove
<1>4. ASSUME NEW t \in Tasks, SetupStep(t) \/ DeviceStep(t) \/ CloseNamespace(t) \/ ReplugFinish(t)
      PROVE  regions' = regions
    BY <1>4 DEF SetupStep, SetupCreate, SetupUplink, SetupRoutes, SetupFails, PublishRouter,
       PublishRegion, DeviceStep, AddIface, AddIfaceFails, Abandon, BuildDevice, SetupDevice,
       PublishDevice, CloseNamespace, ReplugFinish
<1>5. CASE UNCHANGED vars
    BY <1>0, <1>5 DEF vars
<1> QED
    BY <1>0, <1>1, <1>2, <1>3, <1>4, <1>5 DEF Next

(* What is new in the kernel.                                               *)
LEMMA RouteAdded ==
    ASSUME NEW n \in DOMAIN ns, NEW q, ns' = [ns EXCEPT ![n] = WithRoute(@, q)]
    PROVE  /\ DOMAIN ns' = DOMAIN ns
           /\ \A m \in DOMAIN ns : ns[m] \subseteq ns'[m]
           /\ \A m \in DOMAIN ns : \A r \in ns'[m] : r \in ns[m] \/ (m = n /\ r = q)
           /\ \E r \in ns'[n] : r.third = q.third /\ r.len = q.len
<1>1. DOMAIN ns' = DOMAIN ns /\ ns'[n] = WithRoute(ns[n], q)
    OBVIOUS
<1>2. \A m \in DOMAIN ns : m # n => ns'[m] = ns[m]
    OBVIOUS
<1> QED
    BY <1>1, <1>2 DEF WithRoute

LEMMA NsMoved == Shapes /\ IdsOk /\ [Next]_vars => NsMove
<1> SUFFICES ASSUME Shapes, IdsOk, [Next]_vars PROVE NsMove
    OBVIOUS
<1> USE DEF coreVars
<1>0. RootNs \in DOMAIN ns
    BY DEF IdsOk
<1>1. ns' = ns => NsMove
    BY <1>0 DEF NsMove
<1>2. ASSUME NEW t \in Tasks, SetupCreate(t) \/ SetupDevice(t)
      PROVE  NsMove
    <2>1. PICK id : id = task[t].id /\ ns' = Put(ns, id, {})
        BY <1>2 DEF SetupCreate, SetupDevice
    <2>2. Making(t) /\ ~Making(t)'
        BY <1>2 DEF SetupCreate, SetupDevice, Call, Goto, Making, Shapes, TasksOk, IsTask
    <2>3. id \notin DOMAIN ns
        BY <2>1, <2>2 DEF IdsOk
    <2>4. NsMade(id)
        BY <2>1, <2>2 DEF NsMade, Put
    <2>5. DOMAIN ns' = DOMAIN ns \cup {id} /\ ns'[id] = {} /\ \A n \in DOMAIN ns : ns'[n] = ns[n]
        BY <2>1, <2>3 DEF Put
    <2> QED
        BY <1>0, <2>4, <2>5 DEF NsMove
<1>3. ASSUME NEW t \in Tasks, SetupRoutes(t)
      PROVE  NsMove
    <2> DEFINE c == task[t].net
    <2>1. CASE c.block = "public" /\ task[t].upstream \in DOMAIN ns
        <3>1. PICK n, q :
                  n \in DOMAIN ns /\ n = task[t].upstream /\ q = Route(c.third, 24, task[t].addr)
            BY <2>1
        <3>2. ns' = [ns EXCEPT ![n] = WithRoute(@, q)]
            BY <1>3, <2>1, <3>1 DEF SetupRoutes
        <3>3. RouteNew(n, q)
            BY <1>3, <2>1, <3>1 DEF SetupRoutes, Call, RouteNew
        <3>4. /\ DOMAIN ns' = DOMAIN ns
              /\ \A m \in DOMAIN ns : ns[m] \subseteq ns'[m]
              /\ \A m \in DOMAIN ns : \A r \in ns'[m] : r \in ns[m] \/ (m = n /\ r = q)
            <4>1. n \in DOMAIN ns
                BY <3>1
            <4> QED
                BY <3>2, <4>1, RouteAdded
        <3> QED
            BY <1>0, <3>3, <3>4 DEF NsMove
    <2>2. CASE ~(c.block = "public" /\ task[t].upstream \in DOMAIN ns)
        BY <1>1, <1>3, <2>2 DEF SetupRoutes
    <2> QED
        BY <2>1, <2>2
<1>4. ASSUME NEW t \in Tasks, PublishRegion(t)
      PROVE  NsMove
    <2>1. CASE regions[task[t].region].idx = LastRegion
        BY <1>1, <1>4, <2>1 DEF PublishRegion
    <2>2. CASE regions[task[t].region].idx # LastRegion
        <3>1. PICK q : q = Route(regions[task[t].region].idx * 16, 20, task[t].addr)
            OBVIOUS
        <3>2. ns' = [ns EXCEPT ![RootNs] = WithRoute(@, q)]
            BY <1>4, <2>2, <3>1 DEF PublishRegion
        <3>3. RouteNew(RootNs, q)
            BY <1>4, <3>1 DEF PublishRegion, Call, RouteNew
        <3>4. /\ DOMAIN ns' = DOMAIN ns
              /\ \A m \in DOMAIN ns : ns[m] \subseteq ns'[m]
              /\ \A m \in DOMAIN ns : \A r \in ns'[m] : r \in ns[m] \/ (m = RootNs /\ r = q)
            BY <1>0, <3>2, RouteAdded
        <3> QED
            BY <1>0, <3>3, <3>4 DEF NsMove
    <2> QED
        BY <2>1, <2>2
<1>5. ASSUME NEW t \in Tasks, CloseNamespace(t)
      PROVE  NsMove
    <2>1. task[t].id # RootNs /\ ns' = Drop(ns, task[t].id)
        BY <1>5 DEF CloseNamespace, Call, IdsOk
    <2> QED
        BY <1>0, <2>1 DEF Drop, NsMove
<1>6. ASSUME NEW t \in Tasks, CallStep(t)
      PROVE  ns' = ns
    BY <1>6 DEF CallStep, AddRouter, AddRegion, AddRegionNoAddress, AddRegionOverflow,
       RegionRegistered, AddDevice, RemoveRouter, LinkRegions, RemoveDevice, ReplugPrepare,
       RenewIp, RemoveIface
<1>7. ASSUME NEW t \in Tasks,
             BuildStep(t) \/ SetupUplink(t) \/ SetupFails(t) \/ PublishRouter(t) \/ ReplugFinish(t)
      PROVE  ns' = ns
    BY <1>7 DEF BuildStep, BuildNoBlock, BuildNoUplink, BuildConnected, SetupUplink, SetupFails,
       PublishRouter, ReplugFinish
<1>8. ASSUME NEW t \in Tasks, DeviceStep(t), ~SetupDevice(t)
      PROVE  ns' = ns
    BY <1>8 DEF DeviceStep, AddIface, AddIfaceFails, Abandon, BuildDevice, PublishDevice
<1>9. CASE UNCHANGED vars
    BY <1>1, <1>9 DEF vars
<1> QED
    BY <1>1, <1>2, <1>3, <1>4, <1>5, <1>6, <1>7, <1>8, <1>9 DEF Next, SetupStep

(* The tasks.                                                               *)
LEMMA OneTask ==
    ASSUME Shapes, NEW t \in Tasks, NEW b, task' = [task EXCEPT ![t] = b], task'[t] = b => TaskMove(t)
    PROVE  TasksMove
<1>1. task'[t] = b /\ \A u \in Tasks : u # t => task'[u] = task[u]
    BY DEF Shapes, TasksOk
<1> QED
    BY <1>1 DEF TasksMove

\* A task at a step that neither makes a node nor sets one up.
LEMMA TaskApart ==
    ASSUME Shapes, NEW t \in Tasks, NEW b, task' = [task EXCEPT ![t] = b],
           b.at \in {"idle", "router", "replug", "close", "announce"},
           b.at = "close" => b.id # RootNs
    PROVE  TasksMove
<1>1. task'[t] = b => TaskMove(t)
    BY DEF TaskMove, Making, Setting
<1> QED
    BY <1>1, OneTask

LEMMA TaskDone == ASSUME Shapes, NEW t \in Tasks, task' = [task EXCEPT ![t] = IdleTask] PROVE TasksMove
<1>1. IdleTask.at = "idle"
    BY DEF IdleTask
<1> QED
    BY <1>1, TaskApart

LEMMA TaskGoes ==
    ASSUME Shapes, NEW t \in Tasks, NEW at, task' = [task EXCEPT ![t].at = at],
           SameJob(t) /\ task'[t].at = at => TaskMove(t)
    PROVE  TasksMove
<1>1. SameJob(t) /\ task'[t].at = at /\ \A u \in Tasks : u # t => task'[u] = task[u]
    BY DEF Shapes, TasksOk, IsTask, SameJob
<1> QED
    BY <1>1 DEF TasksMove

\* The task of a router that is built with an uplink.
LEMMA RouterEnters ==
    ASSUME Shapes, SwitchesWired, IdsOk, NEW t \in Tasks, BuildConnected(t)
    PROVE  TasksMove
<1> DEFINE b == task[t]
<1>1. PICK s, a, o, c :
          /\ s = Above(b) /\ c = Subnet(b)
          /\ a = IF s = Ix THEN Addr(IxCidr, pools.ix) ELSE NextHost(s)
          /\ o = IF s = Ix THEN NoNode ELSE switches[s].owner
          /\ routers' = Put(routers, nextId, [RouterRec(b.name, b.region, b.pool, nextId + 1, c)
                                EXCEPT !.uplink = s, !.up = a])
          /\ task' = [task EXCEPT ![t] = [b EXCEPT !.at = "create", !.id = nextId,
                                                  !.upstream = o, !.net = c, !.addr = a]]
          /\ s # Ix => HostsLeft(s)
          /\ b.at = "router" /\ nextId' = nextId + 2
          /\ switches' = Put(IF s = Ix THEN switches ELSE TakeHost(s), nextId + 1,
                             SwitchRec(b.name, c, nextId, FirstHost))
          /\ regions' = regions \/ regions' = [regions EXCEPT ![b.region].next = @ + 1]
    BY DEF BuildConnected, RegisterNames, Call
<1>2. PICK rec : rec = [RouterRec(b.name, b.region, b.pool, nextId + 1, c) EXCEPT !.uplink = s, !.up = a]
    OBVIOUS
<1>3. rec.cidr = c /\ rec.up = a /\ rec.uplink = s
    BY <1>2 DEF RouterRec
<1>4. PICK new : new = [b EXCEPT !.at = "create", !.id = nextId, !.upstream = o, !.net = c, !.addr = a]
    OBVIOUS
<1>5. /\ new.at = "create" /\ new.id = nextId /\ new.upstream = o /\ new.net = c /\ new.addr = a
      /\ new.region = b.region
    BY <1>4 DEF Shapes, TasksOk, IsTask
<1>6. nextId \in Nat /\ nextId > 0 /\ nextId < nextId' /\ nextId \notin DOMAIN routers
    BY <1>1 DEF Shapes, NodesOk, IdsOk
<1>7. nextId \in DOMAIN routers' /\ routers'[nextId] = rec
    BY <1>1, <1>2 DEF Put
<1>8. c # NoCidr /\ c = Cidr(c.block, c.third)
    <2>1. c # NoCidr
        BY <1>1, SubnetReal
    <2>2. c = Cidr(c.block, c.third)
        BY <1>1 DEF Subnet, Cidr
    <2> QED
        BY <2>1, <2>2
<1>9. s # Ix => s \in DOMAIN switches /\ switches[s].owner # NoNode /\ switches[s].owner \in DOMAIN routers
    BY <1>1, HostsOwned, OwnedDownlink DEF Above, Downlink
<1>10. /\ o \in Nat /\ o < nextId
       /\ s = Ix <=> o = RootNs
    BY <1>1, <1>6, <1>9 DEF NoNode, RootNs, Shapes, NodesOk
<1>11. s \in DOMAIN switches' => switches'[s].owner = o
    <2>1. CASE s = Ix
        BY <1>1, <1>6, <2>1 DEF Put, SwitchesWired, Shapes, SwitchesOk
    <2>2. CASE s # Ix
        <3>1. s # nextId + 1 /\ IsSwitch(switches[s])
            BY <1>9, <2>2 DEF Shapes, SwitchesOk, NodesOk
        <3>2. switches'[s] = [switches[s] EXCEPT !.next = @ + 1]
            BY <1>1, <1>9, <2>2, <3>1 DEF Put, TakeHost
        <3>3. switches'[s].owner = switches[s].owner
            BY <3>1, <3>2 DEF IsSwitch
        <3> QED
            BY <1>1, <2>2, <3>3
    <2> QED
        BY <2>1, <2>2
<1>12. \A g \in DOMAIN regions' : regions'[g].router # nextId
    <2>1. \A g \in DOMAIN regions : IsBlock(regions[g]) /\ regions[g].router # nextId
        BY DEF IdsOk, Shapes, RegionsOk
    <2> QED
        BY <1>1, <2>1 DEF IsBlock
<1>13. task'[t] = new => Enters(t)
    BY <1>3, <1>5, <1>6, <1>7, <1>8, <1>10, <1>11, <1>12 DEF Enters
<1>14. task' = [task EXCEPT ![t] = new]
    BY <1>1, <1>4
<1>15. task'[t] = new => TaskMove(t)
    BY <1>13 DEF TaskMove
<1> QED
    BY <1>14, <1>15, OneTask

\* The task of a region's router.
LEMMA RegionEnters ==
    ASSUME Shapes, SwitchesWired, IdsOk, NEW t \in Tasks, NEW g \in Regions, AddRegion(t, g)
    PROVE  TasksMove
<1>1. PICK third, a :
          /\ third = (pools.region * 16) % 256 /\ a = Addr(IxCidr, pools.ix)
          /\ routers' = Put(routers, nextId, [RegionRec(g, third) EXCEPT !.uplink = Ix, !.up = a])
          /\ task' = [task EXCEPT ![t] = [IdleTask EXCEPT !.at = "create", !.id = nextId,
                          !.name = RegionRouter(g), !.region = g, !.net = Cidr("public", third),
                          !.addr = a]]
          /\ nextId' = nextId + 2
          /\ switches' = Put(switches, nextId + 1,
                 SwitchRec(RegionRouter(g), Cidr("public", third), nextId, RegionFirstHost))
          /\ regions' = Put(regions, g, [idx |-> pools.region, router |-> nextId, next |-> 1])
    BY DEF AddRegion, RegionRegistered, RegisterNames, Start
<1>2. PICK c : c = Cidr("public", third)
    OBVIOUS
<1>3. PICK rec : rec = [RegionRec(g, third) EXCEPT !.uplink = Ix, !.up = a]
    OBVIOUS
<1>4. rec.cidr = c /\ rec.up = a /\ rec.uplink = Ix
    BY <1>2, <1>3 DEF RegionRec, RouterRec
<1>5. PICK new : new = [IdleTask EXCEPT !.at = "create", !.id = nextId,
                          !.name = RegionRouter(g), !.region = g, !.net = Cidr("public", third),
                          !.addr = a]
    OBVIOUS
<1>6. /\ new.at = "create" /\ new.id = nextId /\ new.upstream = NoNode /\ new.net = c /\ new.addr = a
      /\ new.region = g
    BY <1>2, <1>5 DEF IdleTask
<1>7. nextId \in Nat /\ nextId > 0 /\ nextId < nextId' /\ nextId \notin DOMAIN routers
    BY <1>1 DEF Shapes, NodesOk, IdsOk
<1>8. nextId \in DOMAIN routers' /\ routers'[nextId] = rec
    BY <1>1, <1>3 DEF Put
<1>9. c # NoCidr /\ c = Cidr("public", c.third)
    BY <1>2 DEF Cidr, NoCidr
<1>10. switches'[Ix].owner = NoNode
    BY <1>1, <1>7 DEF Put, SwitchesWired, Shapes, SwitchesOk
<1>11. \A h \in DOMAIN regions' : regions'[h].router = nextId => g = h
    <2>1. \A h \in DOMAIN regions : regions[h].router # nextId
        BY DEF IdsOk
    <2> QED
        BY <1>1, <2>1 DEF Put
<1>12. task'[t] = new => Enters(t)
    BY <1>4, <1>6, <1>7, <1>8, <1>9, <1>10, <1>11 DEF Enters, NoNode, RootNs
<1>13. task' = [task EXCEPT ![t] = new]
    BY <1>1, <1>5
<1>14. task'[t] = new => TaskMove(t)
    BY <1>12 DEF TaskMove
<1> QED
    BY <1>13, <1>14, OneTask

LEMMA TasksMoved == Shapes /\ SwitchesWired /\ IdsOk /\ [Next]_vars => TasksMove
<1> SUFFICES ASSUME Shapes, SwitchesWired, IdsOk, [Next]_vars PROVE TasksMove
    OBVIOUS
<1> USE DEF Call, Start, coreVars
<1>0. task' = task => TasksMove
    BY DEF TasksMove, TaskMove
<1>1. ASSUME NEW t \in Tasks, NEW n \in Names, NEW p \in {"private", "public"}, NEW w \in Places,
             AddRouter(t, n, p, w)
      PROVE  TasksMove
    <2>1. PICK b : b = [IdleTask EXCEPT !.at = "router", !.name = n, !.pool = p,
                                       !.region = w.region, !.upstream = w.upstream]
        OBVIOUS
    <2>2. task' = [task EXCEPT ![t] = b]
        BY <1>1, <2>1 DEF AddRouter
    <2>3. b.at = "router"
        BY <2>1 DEF IdleTask
    <2> QED
        BY <2>2, <2>3, TaskApart
<1>2. ASSUME NEW t \in Tasks, NEW n \in Names, AddDevice(t, n)
      PROVE  TasksMove
    <2>1. PICK b : b = [IdleTask EXCEPT !.at = "device", !.name = n, !.id = nextId]
        OBVIOUS
    <2>2. task' = [task EXCEPT ![t] = b] /\ nextId' = nextId + 1
        BY <1>2, <2>1 DEF AddDevice
    <2>3. b.at = "device" /\ b.id = nextId
        BY <2>1 DEF IdleTask
    <2>4. nextId < nextId'
        BY <2>2 DEF IdsOk
    <2> QED
        BY <2>2, <2>3, <2>4, OneTask DEF TaskMove
<1>3. ASSUME NEW t \in Tasks, NEW x \in DOMAIN routers \cup DOMAIN devices,
             task' = [task EXCEPT ![t] = [IdleTask EXCEPT !.at = "close", !.id = x]]
      PROVE  TasksMove
    <2>1. PICK b : b = [IdleTask EXCEPT !.at = "close", !.id = x]
        OBVIOUS
    <2>2. b.at = "close" /\ b.id = x
        BY <2>1 DEF IdleTask
    <2>3. x # RootNs
        BY DEF IdsOk, SwitchesWired, NoNode, RootNs
    <2> QED
        BY <1>3, <2>1, <2>2, <2>3, TaskApart
<1>4. ASSUME NEW t \in Tasks, NEW d \in DOMAIN devices, NEW i \in Ifaces, NEW r \in DOMAIN routers,
             ReplugPrepare(t, d, i, r)
      PROVE  TasksMove
    <2>1. PICK b : b = [IdleTask EXCEPT !.at = "replug", !.id = d, !.iface = i, !.upstream = r,
                                       !.addr = NextHost(Downlink(r))]
        OBVIOUS
    <2>2. task' = [task EXCEPT ![t] = b]
        BY <1>4, <2>1 DEF ReplugPrepare
    <2>3. b.at = "replug"
        BY <2>1 DEF IdleTask
    <2> QED
        BY <2>2, <2>3, TaskApart
<1>5. ASSUME NEW t \in Tasks,
             \/ \E g \in Regions : AddRegionNoAddress(t, g) \/ AddRegionOverflow(t, g)
             \/ \E g \in DOMAIN regions, h \in DOMAIN regions : LinkRegions(t, g, h)
             \/ \E d \in DOMAIN devices : \E i \in DOMAIN devices[d].ifaces : RenewIp(t, d, i) \/ RemoveIface(t, d, i)
      PROVE  TasksMove
    <2>1. task' = [task EXCEPT ![t] = IdleTask]
        BY <1>5 DEF AddRegionNoAddress, AddRegionOverflow, LinkRegions, RenewIp, RemoveIface
    <2> QED
        BY <2>1, TaskDone
<1>6. ASSUME NEW t \in Tasks, CallStep(t)
      PROVE  TasksMove
    <2>1. ASSUME NEW r \in DOMAIN routers, RemoveRouter(t, r)
          PROVE  TasksMove
        BY <1>3, <2>1 DEF RemoveRouter
    <2>2. ASSUME NEW d \in DOMAIN devices, RemoveDevice(t, d)
          PROVE  TasksMove
        BY <1>3, <2>2 DEF RemoveDevice
    <2> QED
        BY <1>1, <1>2, <1>4, <1>5, <1>6, <2>1, <2>2, RegionEnters DEF CallStep
<1>7. ASSUME NEW t \in Tasks,
             \/ BuildNoBlock(t) \/ BuildNoUplink(t) \/ SetupFails(t) \/ PublishRouter(t)
             \/ PublishRegion(t) \/ Abandon(t) \/ PublishDevice(t) \/ CloseNamespace(t)
             \/ ReplugFinish(t) \/ \E i \in Ifaces, r \in DOMAIN routers : AddIfaceFails(t, i, r)
      PROVE  TasksMove
    <2>1. task' = [task EXCEPT ![t] = IdleTask]
        BY <1>7 DEF BuildNoBlock, BuildNoUplink, SetupFails, PublishRouter, PublishRegion, Abandon,
           PublishDevice, CloseNamespace, ReplugFinish, AddIfaceFails, Done
    <2> QED
        BY <2>1, TaskDone
<1>8. ASSUME NEW t \in Tasks, SetupCreate(t)
      PROVE  TasksMove
    <2>1. task' = [task EXCEPT ![t].at = "uplink"] /\ task[t].at = "create"
        BY <1>8 DEF SetupCreate, Goto
    <2> QED
        BY <2>1, TaskGoes DEF TaskMove, Proceeds
<1>9. ASSUME NEW t \in Tasks, SetupUplink(t)
      PROVE  TasksMove
    <2>1. task' = [task EXCEPT ![t].at = "routes"] /\ task[t].at = "uplink" /\ task[t].upstream \in DOMAIN ns
        BY <1>9 DEF SetupUplink, Goto
    <2> QED
        BY <2>1, TaskGoes DEF TaskMove, Proceeds
<1>10. ASSUME NEW t \in Tasks, SetupRoutes(t)
       PROVE  TasksMove
    <2>1. PICK at : at = IF IsRegion(t) THEN "aggregate" ELSE "publish"
        OBVIOUS
    <2>2. task' = [task EXCEPT ![t].at = at] /\ task[t].at = "routes"
        BY <1>10, <2>1 DEF SetupRoutes, Goto
    <2>3. PICK n, third : n = task[t].upstream /\ third = task[t].net.third
        OBVIOUS
    <2>4. task[t].net.block = "public" /\ n \in DOMAIN ns' => HasRoute(n, third, 24)'
        <3>1. CASE task[t].net.block = "public" /\ n \in DOMAIN ns
            <4>1. PICK q : q = Route(third, 24, task[t].addr)
                OBVIOUS
            <4>2. ns' = [ns EXCEPT ![n] = WithRoute(@, q)]
                BY <1>10, <2>3, <3>1, <4>1 DEF SetupRoutes
            <4>3. q.third = third /\ q.len = 24
                BY <4>1 DEF Route
            <4>4. \E r \in ns'[n] : r.third = q.third /\ r.len = q.len
                BY <3>1, <4>2, RouteAdded
            <4> QED
                BY <4>3, <4>4 DEF HasRoute
        <3>2. CASE ~(task[t].net.block = "public" /\ n \in DOMAIN ns)
            BY <1>10, <2>3, <3>2 DEF SetupRoutes
        <3> QED
            BY <3>1, <3>2
    <2>5. SameJob(t) /\ task'[t].at = at => Proceeds(t)
        <3> SUFFICES ASSUME SameJob(t), task'[t].at = at PROVE Proceeds(t)
            OBVIOUS
        <3>1. task'[t].upstream = n /\ task'[t].net.third = third
            BY <2>3 DEF SameJob
        <3> QED
            BY <2>1, <2>2, <2>3, <2>4, <3>1 DEF Proceeds
    <2> QED
        BY <2>2, <2>5, TaskGoes DEF TaskMove
<1>11. ASSUME NEW t \in Tasks, BuildDevice(t)
       PROVE  TasksMove
    <2>1. \/ task' = [task EXCEPT ![t] = IdleTask]
          \/ task' = [task EXCEPT ![t].at = "wire"] /\ task[t].at = "device"
        BY <1>11 DEF BuildDevice, Done, Goto
    <2>2. SameJob(t) /\ task'[t].at = "wire" /\ task[t].at = "device" => TaskMove(t)
        BY DEF SameJob, TaskMove
    <2> QED
        BY <2>1, <2>2, TaskDone, TaskGoes
<1>12. ASSUME NEW t \in Tasks, SetupDevice(t)
       PROVE  TasksMove
    <2>1. task' = [task EXCEPT ![t].at = "announce"]
        BY <1>12 DEF SetupDevice, Goto
    <2>2. task'[t].at = "announce" => TaskMove(t)
        BY DEF TaskMove, Making, Setting
    <2> QED
        BY <2>1, <2>2, TaskGoes
<1>13. ASSUME NEW t \in Tasks, NEW i \in Ifaces, NEW r \in DOMAIN routers, AddIface(t, i, r)
       PROVE  TasksMove
    BY <1>0, <1>13 DEF AddIface
<1>14. CASE UNCHANGED vars
    BY <1>0, <1>14 DEF vars
<1> QED
    BY <1>6, <1>7, <1>8, <1>9, <1>10, <1>11, <1>12, <1>13, <1>14, RouterEnters
    DEF Next, BuildStep, SetupStep, DeviceStep

(* The routers.                                                             *)
LEMMA RoutersSame == routers' = routers => RoutersMove
BY DEF RoutersMove, RouterAsIs

LEMMA RouterAdded ==
    ASSUME Shapes, NEW r, RouterFirst(r), routers' = Put(routers, nextId, r), nextId < nextId'
    PROVE  RoutersMove
<1>1. nextId \notin DOMAIN routers
    BY DEF Shapes, NodesOk
<1>2. /\ DOMAIN routers' = DOMAIN routers \cup {nextId} /\ routers'[nextId] = r
      /\ \A x \in DOMAIN routers : routers'[x] = routers[x]
    BY <1>1 DEF Put
<1>3. RouterNew(nextId)
    BY <1>2 DEF RouterNew
<1> QED
    BY <1>2, <1>3 DEF RoutersMove, RouterAsIs

\* A router without an uplink.
LEMMA RouterApart ==
    ASSUME IdsOk, SwitchesWired', NEW r, r.uplink = NoNode, ~r.ready,
           NEW c, r.cidr = c, InPools' => c = NoCidr \/ (~Given(c) /\ Given(c)')
    PROVE  RouterFirst(r)
<1>1. NoNode \notin DOMAIN switches'
    BY DEF SwitchesWired
<1>2. ~UnderRegion(r)'
    BY <1>1 DEF UnderRegion
<1> QED
    BY <1>2 DEF RouterFirst, IdsOk, NoNode

\* A router that is built with an uplink.
LEMMA RouterConnected ==
    ASSUME Shapes, Shapes', SwitchesWired, IdsOk, NEW t \in Tasks, BuildConnected(t)
    PROVE  RoutersMove
<1> DEFINE b == task[t]
<1>1. PICK s, a, c :
          /\ s = Above(b) /\ c = Subnet(b) /\ ~BlockFull(b)
          /\ routers' = Put(routers, nextId, [RouterRec(b.name, b.region, b.pool, nextId + 1, c)
                                EXCEPT !.uplink = s, !.up = a])
          /\ s # Ix => HostsLeft(s)
          /\ b.at = "router" /\ nextId' = nextId + 2
          /\ regions' = IF Regional(b) THEN [regions EXCEPT ![b.region].next = @ + 1] ELSE regions
    BY DEF BuildConnected, RegisterNames, Call
<1>2. PICK rec : rec = [RouterRec(b.name, b.region, b.pool, nextId + 1, c) EXCEPT !.uplink = s, !.up = a]
    OBVIOUS
<1>3. rec.cidr = c /\ rec.uplink = s /\ rec.pool = b.pool /\ rec.region = b.region /\ rec.ready = FALSE
    BY <1>2 DEF RouterRec
<1>4. nextId \in Nat /\ nextId < nextId' /\ s \in Nat /\ s < nextId
    <2>1. nextId \in Nat /\ nextId < nextId'
        BY <1>1 DEF Shapes, NodesOk
    <2>2. s \in DOMAIN switches
        BY <1>1, HostsOwned DEF SwitchesWired
    <2> QED
        BY <2>1, <2>2 DEF Shapes, SwitchesOk
<1>5. b.pool \in {"private", "public"}
    BY <1>1 DEF Shapes, TasksOk
<1>6. IF Regional(b)
      THEN /\ regions' = [regions EXCEPT ![b.region].next = @ + 1]
           /\ pools'.region = pools.region /\ pools'.public = pools.public
      ELSE pools'[b.pool] = pools[b.pool] + 1
    BY <1>5 DEF BuildConnected, Shapes, PoolsOk
<1>7. InPools' => ~Given(c) /\ Given(c)'
    BY <1>1, <1>5, <1>6, NewSubnet
<1>8. b.pool = "public" => c = Cidr("public", c.third)
    BY <1>1 DEF Subnet, Cidr
<1>9. ASSUME InPools', NEW g \in DOMAIN regions', b.region = g, b.pool = "public"
      PROVE  \E k \in 1..15 : c.third = 16 * regions'[g].idx + k
    <2>1. g \in DOMAIN regions /\ Regional(b)
        BY <1>1, <1>9 DEF Regional
    <2>2. /\ regions[g].next \in 1..15 /\ regions[g].idx \in Nat /\ 0 < regions[g].idx
          /\ regions[g].idx < pools.region /\ IsBlock(regions[g])
        BY <1>1, <1>9, <2>1 DEF BlockFull, Shapes, RegionsOk
    <2>3. regions'[g].idx = regions[g].idx
        BY <1>1, <2>1, <2>2 DEF IsBlock
    <2>4. regions[g].idx \in 1..15
        BY <1>6, <1>9, <2>1, <2>2 DEF InPools, LastRegion, Shapes, PoolsOk
    <2>5. PICK i \in 1..15, k \in 1..15 : i = regions[g].idx /\ k = regions[g].next
        BY <2>2, <2>4
    <2>6. c.third = (i * 16 + k) % 256
        BY <1>1, <1>9, <2>1, <2>5 DEF Subnet, Cidr
    <2>7. c.third = 16 * i + k
        BY <2>6, Octets
    <2> QED
        BY <2>3, <2>5, <2>7
<1>10. InPools' /\ UnderRegion(rec)' => InBlock(rec, rec.region)'
    <2> SUFFICES ASSUME InPools', UnderRegion(rec)' PROVE InBlock(rec, rec.region)'
        OBVIOUS
    <2>1. PICK g \in DOMAIN regions' : b.region = g /\ b.pool = "public"
        BY <1>3 DEF UnderRegion
    <2> QED
        BY <1>3, <1>9, <2>1 DEF InBlock
<1>11. RouterFirst(rec)
    BY <1>3, <1>4, <1>7, <1>8, <1>10 DEF RouterFirst
<1> QED
    BY <1>1, <1>2, <1>4, <1>11, RouterAdded

\* The router of a region.
LEMMA RegionConnected ==
    ASSUME Shapes, Shapes', IdsOk, SwitchesWired, SwitchesWired',
           NEW t \in Tasks, NEW g \in Regions, AddRegion(t, g)
    PROVE  RoutersMove
<1>1. PICK c, a :
          /\ c = Cidr("public", (pools.region * 16) % 256)
          /\ routers' = Put(routers, nextId,
                 [RegionRec(g, (pools.region * 16) % 256) EXCEPT !.uplink = Ix, !.up = a])
          /\ nextId' = nextId + 2
          /\ pools' = [pools EXCEPT !.region = @ + 1, !.ix = @ + 1]
    BY DEF AddRegion, RegionRegistered, RegisterNames, Start
<1>2. PICK rec : rec = [RegionRec(g, (pools.region * 16) % 256) EXCEPT !.uplink = Ix, !.up = a]
    OBVIOUS
<1>3. rec.cidr = c /\ rec.uplink = Ix /\ rec.ready = FALSE
    BY <1>1, <1>2 DEF RegionRec, RouterRec
<1>4. InPools' => ~Given(c) /\ Given(c)'
    <2>1. pools'.region = pools.region + 1 /\ pools'.public = pools.public
        BY <1>1 DEF Shapes, PoolsOk
    <2> QED
        BY <1>1, <2>1, NewBlock
<1>5. c = Cidr("public", c.third)
    BY <1>1 DEF Cidr
<1>6. nextId \in Nat /\ nextId < nextId' /\ Ix \in Nat /\ Ix < nextId
    BY <1>1 DEF Shapes, NodesOk, SwitchesOk, SwitchesWired, Ix
<1>7. ~UnderRegion(rec)'
    <2>1. \A h \in DOMAIN regions' : regions'[h].router # NoNode
        <3>1. regions' = Put(regions, g, [idx |-> pools.region, router |-> nextId, next |-> 1])
            BY DEF AddRegion
        <3> QED
            BY <3>1 DEF Put, IdsOk, NoNode
    <2> QED
        BY <1>3, <2>1 DEF UnderRegion, SwitchesWired
<1>8. RouterFirst(rec)
    BY <1>3, <1>4, <1>5, <1>6, <1>7 DEF RouterFirst
<1> QED
    BY <1>1, <1>2, <1>6, <1>8, RouterAdded

LEMMA RouterReady ==
    ASSUME Shapes, NEW x, routers' = [routers EXCEPT ![x].ready = TRUE], Publishes(x)
    PROVE  RoutersMove
BY DEF Shapes, NodesOk, IsRouter, RoutersMove, RouterAsIs

LEMMA RoutersMoved ==
    ASSUME Shapes, Shapes', IdsOk, SetupOk, SwitchesWired, SwitchesWired', [Next]_vars
    PROVE  RoutersMove
<1> USE DEF Call, Start, coreVars
<1>1. nextId \in Nat
    BY DEF IdsOk
<1>2. ASSUME NEW t \in Tasks, NEW g \in Regions, AddRegionNoAddress(t, g)
      PROVE  RoutersMove
    <2>1. PICK c : c = Cidr("public", (pools.region * 16) % 256)
        OBVIOUS
    <2>2. PICK r : r = RegionRec(g, (pools.region * 16) % 256)
        OBVIOUS
    <2>3. r.uplink = NoNode /\ ~r.ready /\ r.cidr = c
        BY <2>1, <2>2 DEF RegionRec, RouterRec
    <2>4. /\ routers' = Put(routers, nextId, r) /\ nextId' = nextId + 2
          /\ pools'.region = pools.region + 1 /\ pools'.public = pools.public
        BY <1>2, <2>2 DEF AddRegionNoAddress, RegionRegistered, RegisterNames, Shapes, PoolsOk
    <2>5. InPools' => ~Given(c) /\ Given(c)'
        BY <2>1, <2>4, NewBlock
    <2> QED
        BY <1>1, <2>3, <2>4, <2>5, RouterApart, RouterAdded
<1>3. ASSUME NEW t \in Tasks, NEW g \in Regions, AddRegionOverflow(t, g)
      PROVE  RoutersMove
    <2>1. PICK r : r = RouterRec(RegionRouter(g), "none", "public", NoNode, NoCidr)
        OBVIOUS
    <2>2. r.uplink = NoNode /\ ~r.ready /\ r.cidr = NoCidr
        BY <2>1 DEF RouterRec
    <2>3. routers' = Put(routers, nextId, r) /\ nextId' = nextId + 1
        BY <1>3, <2>1 DEF AddRegionOverflow
    <2> QED
        BY <1>1, <2>2, <2>3, RouterApart, RouterAdded
<1>4. ASSUME NEW t \in Tasks, NEW r \in DOMAIN routers, RemoveRouter(t, r)
      PROVE  RoutersMove
    BY <1>4 DEF RemoveRouter, Drop, RoutersMove, RouterAsIs
<1>5. ASSUME NEW t \in Tasks, CallStep(t)
      PROVE  RoutersMove
    <2>1. ASSUME \/ \E n \in Names, p \in {"private", "public"}, w \in Places : AddRouter(t, n, p, w)
                 \/ \E n \in Names : AddDevice(t, n)
                 \/ \E g \in DOMAIN regions, h \in DOMAIN regions : LinkRegions(t, g, h)
                 \/ \E d \in DOMAIN devices : RemoveDevice(t, d)
                 \/ \E d \in DOMAIN devices, i \in Ifaces, r \in DOMAIN routers : ReplugPrepare(t, d, i, r)
                 \/ \E d \in DOMAIN devices : \E i \in DOMAIN devices[d].ifaces : RenewIp(t, d, i) \/ RemoveIface(t, d, i)
          PROVE  routers' = routers
        BY <2>1 DEF AddRouter, AddDevice, LinkRegions, RemoveDevice, ReplugPrepare, RenewIp, RemoveIface
    <2> QED
        BY <1>2, <1>3, <1>4, <1>5, <2>1, RegionConnected, RoutersSame DEF CallStep
<1>6. ASSUME NEW t \in Tasks, BuildNoBlock(t)
      PROVE  RoutersMove
    <2>1. PICK r : r = RouterRec(task[t].name, task[t].region, task[t].pool, NoNode, NoCidr)
        OBVIOUS
    <2>2. r.uplink = NoNode /\ ~r.ready /\ r.cidr = NoCidr
        BY <2>1 DEF RouterRec
    <2>3. routers' = Put(routers, nextId, r) /\ nextId' = nextId + 2
        BY <1>6, <2>1 DEF BuildNoBlock, RegisterNames
    <2> QED
        BY <1>1, <2>2, <2>3, RouterApart, RouterAdded
<1>7. ASSUME NEW t \in Tasks, BuildNoUplink(t)
      PROVE  RoutersMove
    <2>1. PICK c : c = Subnet(task[t])
        OBVIOUS
    <2>2. PICK r : r = RouterRec(task[t].name, task[t].region, task[t].pool, nextId + 1, c)
        OBVIOUS
    <2>3. r.uplink = NoNode /\ ~r.ready /\ r.cidr = c
        BY <2>2 DEF RouterRec
    <2>4. routers' = Put(routers, nextId, r) /\ nextId' = nextId + 2 /\ ~BlockFull(task[t])
        BY <1>7, <2>1, <2>2 DEF BuildNoUplink, RegisterNames
    <2>5. task[t].pool \in {"private", "public"}
        BY <1>7 DEF BuildNoUplink, Shapes, TasksOk
    <2>6. IF Regional(task[t])
          THEN /\ regions' = [regions EXCEPT ![task[t].region].next = @ + 1]
               /\ pools'.region = pools.region /\ pools'.public = pools.public
          ELSE pools'[task[t].pool] = pools[task[t].pool] + 1
        BY <1>7, <2>5 DEF BuildNoUplink, TakeSubnet, Shapes, PoolsOk
    <2>7. InPools' => ~Given(c) /\ Given(c)'
        BY <2>1, <2>4, <2>5, <2>6, NewSubnet
    <2> QED
        BY <1>1, <2>3, <2>4, <2>7, RouterApart, RouterAdded
<1>8. ASSUME NEW t \in Tasks, PublishRouter(t)
      PROVE  RoutersMove
    <2>1. PICK x : x = task[t].id
        OBVIOUS
    <2>2. routers' = routers \/ routers' = [routers EXCEPT ![x].ready = TRUE]
        BY <1>8, <2>1 DEF PublishRouter
    <2>3. Publishes(x)
        BY <1>8, <2>1 DEF PublishRouter, Publishes
    <2> QED
        BY <2>2, <2>3, RouterReady, RoutersSame
<1>9. ASSUME NEW t \in Tasks, PublishRegion(t)
      PROVE  RoutersMove
    <2>1. PICK x, i : x = task[t].id /\ i = 16 * regions[task[t].region].idx
        OBVIOUS
    <2>2. CASE routers' = routers
        BY <2>2, RoutersSame
    <2>3. CASE routers' # routers
        <3>1. PICK q : q = Route(regions[task[t].region].idx * 16, 20, task[t].addr)
            OBVIOUS
        <3>2. routers' = [routers EXCEPT ![x].ready = TRUE] /\ ns' = [ns EXCEPT ![RootNs] = WithRoute(@, q)]
            BY <1>9, <2>1, <2>3, <3>1 DEF PublishRegion
        <3>3. \E r \in ns'[RootNs] : r.third = q.third /\ r.len = q.len
            BY <3>2, RouteAdded DEF IdsOk
        <3>4. q.third = regions[task[t].region].idx * 16 /\ q.len = 20
            BY <3>1 DEF Route
        <3>5. regions[task[t].region].idx * 16 = i
            <4>1. IsRegion(t)
                BY <1>9 DEF PublishRegion, SetupOk, Setting, PhaseOk
            <4> QED
                BY <2>1, <4>1 DEF IsRegion, Shapes, RegionsOk
        <3>6. HasRoute(RootNs, i, 20)'
            BY <3>3, <3>4, <3>5 DEF HasRoute, RootNs
        <3>7. Publishes(x)
            BY <1>9, <2>1, <3>6 DEF PublishRegion, Publishes
        <3> QED
            BY <3>2, <3>7, RouterReady
    <2> QED
        BY <2>2, <2>3
<1>10. ASSUME NEW t \in Tasks,
              \/ SetupCreate(t) \/ SetupUplink(t) \/ SetupRoutes(t) \/ SetupFails(t)
              \/ DeviceStep(t) \/ CloseNamespace(t) \/ ReplugFinish(t)
       PROVE  routers' = routers
    BY <1>10 DEF SetupCreate, SetupUplink, SetupRoutes, SetupFails, DeviceStep, AddIface,
       AddIfaceFails, Abandon, BuildDevice, SetupDevice, PublishDevice, CloseNamespace, ReplugFinish
<1>11. CASE UNCHANGED vars
    BY <1>11, RoutersSame DEF vars
<1> QED
    BY <1>5, <1>6, <1>7, <1>8, <1>9, <1>10, <1>11, RouterConnected, RoutersSame
    DEF Next, BuildStep, SetupStep

LEMMA PathsMove ==
    ASSUME Shapes, Shapes', WiredInv, WiredInv', PathsInv, [Next]_vars
    PROVE  Moves
<1>1. CoreMoves
    BY CoreStep DEF WiredInv
<1>2. nextId' \in Nat /\ nextId <= nextId'
    BY <1>1, NextMove DEF Shapes
<1>3. SwitchesMove
    BY <1>1, SwitchesMoved DEF Shapes
<1>4. RegionsMove /\ DevicesMove /\ NsMove /\ TasksMove
    BY RegionsMoved, DevicesMoved, NsMoved, TasksMoved DEF PathsInv, WiredInv
<1>5. RoutersMove
    BY RoutersMoved DEF PathsInv, WiredInv
<1> QED
    BY <1>2, <1>3, <1>4, <1>5 DEF Moves

LEMMA PathsAlways == Spec => [](Shapes /\ WiredInv /\ PathsInv)
<1>1. Init => Shapes /\ WiredInv /\ PathsInv
    BY ShapesInit, WiredInit, PathsInit
<1>2. Shapes /\ WiredInv /\ PathsInv /\ [Next]_vars => (Shapes /\ WiredInv /\ PathsInv)'
    <2> SUFFICES ASSUME Shapes, WiredInv, PathsInv, [Next]_vars PROVE (Shapes /\ WiredInv /\ PathsInv)'
        OBVIOUS
    <2>1. Shapes' /\ WiredInv'
        BY ShapesStep, SwitchesWiredStep, IfacesWiredStep, NoUnwrapStep DEF WiredInv
    <2>2. PathsInv'
        BY <2>1, PathsMove, PathsStep, AllocStep DEF WiredInv
    <2> QED
        BY <2>1, <2>2
<1> QED
    BY <1>1, <1>2, PTL DEF Spec

(* The routes that packets take.                                            *)
LEMMA OneVia ==
    ASSUME NEW n \in DOMAIN ns, NEW third, NEW a, HasRoute(n, third, 24),
           \A q \in ns[n] : q.len = 24 /\ q.third = third => q.via = a
    PROVE  Via(n, third) = {a}
BY DEF HasRoute, Via

\* Without a /24, the only /20 that the subnet is in.
LEMMA BlockVia ==
    ASSUME NEW n \in DOMAIN ns, NEW third, NEW a, NEW q \in ns[n],
           q.len = 20, q.third <= third, third < q.third + 16,
           \A p \in ns[n] : p.len = 24 => p.third # third,
           \A p \in ns[n] : p.len = 20 /\ (p.third = third \/ (p.third <= third /\ third < p.third + 16))
               => p.via = a
    PROVE  Via(n, third) = {a}
BY DEF Via

LEMMA Blocks == \A i, j \in Nat, k \in 1..15 :
    /\ 16 * i <= 16 * i + k /\ 16 * i + k < 16 * i + 16
    /\ 16 * j = 16 * i + k \/ (16 * j <= 16 * i + k /\ 16 * i + k < 16 * j + 16) => i = j
OBVIOUS

(* Packets for a public subnet find their router again while the pools      *)
(* last, whatever other routers came and went: the /24 that a router left   *)
(* behind cannot catch them, for its subnet is not given out again, and a   *)
(* region's router has the one /20 that its subnets are in                  *)
(* (router.rs:1246-1255, router.rs:1298-1318, lab.rs:1113-1131).            *)
THEOREM PublicReached == Spec => []PublicRouted
<1>1. Shapes /\ WiredInv /\ PathsInv => PublicRouted
    <2> SUFFICES ASSUME Shapes, WiredInv, PathsInv, InPools, NEW x \in DOMAIN routers,
                        Live(x), routers[x].pool = "public"
                 PROVE  LET third == routers[x].cidr.third
                            q == switches[routers[x].uplink].owner
                        IN
                        /\ routers[x].uplink = Ix => Via(RootNs, third) = {routers[x].up}
                        /\ (/\ routers[x].region \in DOMAIN regions /\ routers[x].uplink \in DOMAIN switches
                            /\ q = regions[routers[x].region].router /\ Live(q)) =>
                               Via(RootNs, third) = {routers[q].up} /\ Via(q, third) = {routers[x].up}
        BY DEF PublicRouted
    <2> SUFFICES ASSUME NEW r, r = routers[x], NEW third, third = r.cidr.third
                 PROVE  /\ r.uplink = Ix => Via(RootNs, third) = {r.up}
                        /\ \A q : (q = switches[r.uplink].owner /\ r.region \in DOMAIN regions
                                     /\ r.uplink \in DOMAIN switches
                                     /\ q = regions[r.region].router /\ Live(q)) =>
                               Via(RootNs, third) = {routers[q].up} /\ Via(q, third) = {r.up}
        OBVIOUS
    <2>0. Routed(x) /\ Placed(x) /\ RootNs \in DOMAIN ns /\ NoNode \notin DOMAIN switches
        BY DEF PathsInv, RoutedOk, PlacedOk, Live, IdsOk, WiredInv, SwitchesWired
    <2>1. r.uplink # NoNode => r.cidr = Cidr("public", third) /\ r.cidr.block = "public"
        BY <2>0 DEF Placed, Cidr
    <2>2. ASSUME NEW n \in DOMAIN ns, NEW q \in ns[n], q.len = 24, q.third = third, r.uplink # NoNode
          PROVE  q.via = r.up /\ (n = RootNs <=> r.uplink = Ix)
        BY <2>1, <2>2 DEF PathsInv, RoutesOk, To24
    <2>3. ASSUME r.uplink \in DOMAIN switches, NEW u \in DOMAIN ns, u = switches[r.uplink].owner
          PROVE  Via(u, third) = {r.up}
        <3>1. r.uplink # NoNode
            BY <2>0, <2>3
        <3>2. HasRoute(u, third, 24)
            BY <2>0, <2>1, <2>3, <3>1 DEF Routed, WayBack
        <3> QED
            BY <2>2, <3>1, <3>2, OneVia
    <2>4. CASE r.uplink = Ix
        <3>1. Ix \in DOMAIN switches /\ switches[Ix].owner = RootNs
            BY DEF WiredInv, SwitchesWired, NoNode, RootNs
        <3>2. Via(RootNs, third) = {r.up}
            BY <2>0, <2>3, <2>4, <3>1
        <3>3. RootNs \notin DOMAIN routers
            BY DEF WiredInv, SwitchesWired, NoNode, RootNs
        <3> QED
            BY <2>4, <3>1, <3>2, <3>3 DEF Live
    <2>5. ASSUME NEW q, q = switches[r.uplink].owner, r.region \in DOMAIN regions,
                 r.uplink \in DOMAIN switches, q = regions[r.region].router, Live(q)
          PROVE  Via(RootNs, third) = {routers[q].up} /\ Via(q, third) = {r.up}
        <3>1. PICK g \in DOMAIN regions : g = r.region
            BY <2>5
        <3>2. q \in DOMAIN ns /\ q \in DOMAIN routers /\ q # NoNode /\ Routed(q)
            BY <2>5, <3>1 DEF Live, PathsInv, RoutedOk, IdsOk, NoNode
        <3>3. PICK i \in Nat, k \in 1..15 : i = regions[g].idx /\ third = 16 * i + k
            BY <2>0, <2>5, <3>1 DEF Placed, UnderRegion, InBlock, Shapes, RegionsOk
        <3>4. PICK p \in ns[RootNs] : p.third = 16 * i /\ p.len = 20
            BY <2>5, <3>1, <3>2, <3>3 DEF Routed, HasRoute
        <3>5. \A y \in ns[RootNs] : y.len = 24 => y.third # third
            BY <2>0, <2>2, <2>5, <3>2 DEF WiredInv, SwitchesWired
        <3>6. ASSUME NEW y \in ns[RootNs], y.len = 20,
                     y.third = third \/ (y.third <= third /\ third < y.third + 16)
              PROVE  y.via = routers[q].up
            <4>1. PICK h \in DOMAIN regions :
                      /\ y.third = 16 * regions[h].idx
                      /\ regions[h].router \in DOMAIN routers => y.via = routers[regions[h].router].up
                BY <2>0, <3>6 DEF PathsInv, RoutesOk, To20
            <4>2. PICK j \in Nat : j = regions[h].idx
                BY DEF Shapes, RegionsOk
            <4>3. i = j
                BY <3>3, <3>6, <4>1, <4>2, Blocks
            <4>4. h = g
                BY <3>3, <4>2, <4>3 DEF Shapes, RegionsOk
            <4> QED
                BY <2>5, <3>1, <3>2, <4>1, <4>4
        <3>7. p.third <= third /\ third < p.third + 16
            BY <3>3, <3>4, Blocks
        <3>8. Via(RootNs, third) = {routers[q].up}
            <4>1. PICK a : a = routers[q].up
                OBVIOUS
            <4>2. \A y \in ns[RootNs] :
                      y.len = 20 /\ (y.third = third \/ (y.third <= third /\ third < y.third + 16))
                          => y.via = a
                BY <3>6, <4>1
            <4>3. Via(RootNs, third) = {a}
                BY <2>0, <3>4, <3>5, <3>7, <4>2, BlockVia
            <4> QED
                BY <4>1, <4>3
        <3> QED
            BY <2>3, <2>5, <3>2, <3>8
    <2> QED
        BY <2>4, <2>5
<1> QED
    BY PathsAlways, <1>1, PTL
============================================================================
