------------------------------ MODULE RaRoutes ------------------------------
(* Router advertisements and the IPv6 default routes learned from them.  A  *)
(* router's RA settings change under its op mutex and are pushed, device by *)
(* device, into the kernel routes of the devices behind it; the operations  *)
(* of a device hold that device's own op mutex, read the RA settings and    *)
(* write the same kernel routes.  Only core records are under a common lock.*)
(* Each built router with RA enabled has a worker that advertises.          *)
EXTENDS Naturals, FiniteSets

CONSTANTS Routers, Devices, Ifaces, NoRoute

\* A device is built with an interface, the first of them its default one.
ASSUME RaAssumption == Ifaces # {}

(* IfaceOps has the operations of a device among themselves; here a device  *)
(* runs one at a time, and what is read before its mutex is read under it.  *)

VARIABLES
    lab_ra,     \* the lab provisions IPv6 by router advertisement
    mode,       \* the device's own provisioning mode: "ra" or "static"
    ra,         \* RouterConfig and RaRuntimeCfg: enabled, lifetime > 0
    via,        \* DeviceData.default_via
    uplink,     \* the router whose switch each interface record names
    link,       \* kernel: the interface's veth is "up", "down" or "gone"
    wired,      \* kernel: the router whose bridge the veth is on
    route,      \* kernel: the IPv6 default route of the device's namespace
    rop,        \* the RA operation that holds the router's op mutex
    dop,        \* the operation that holds the device's op mutex
    worker,     \* the router's RA worker
    notified,   \* a change came after the worker created its Notified
    adv,        \* the last router advertisement the worker published
    overlap,    \* devices with an operation that overlapped an RA operation
    broken      \* routers with an RA operation that failed on the way

raVars == <<lab_ra, mode, ra, via, uplink, link, wired, route, rop, dop,
            worker, notified, adv, overlap, broken>>
core == <<lab_ra, mode, via, uplink>>

-----------------------------------------------------------------------------
\* RouterData::ra_default_enabled.
RaDefault(r) == ra[r].on /\ ra[r].alive

\* select_default_v6_gateway, with the router standing for both its
\* addresses: the link-local one in RA mode, the global one in static mode.
Gateway(d, r) ==
    IF mode[d] = "ra" /\ ~RaDefault(r) THEN NoRoute ELSE r

\* router_default_v6_targets: the RA-driven devices whose default interface
\* is recorded on this router's switch.
Targets(r) ==
    {d \in Devices : mode[d] = "ra" /\ uplink[d][via[d]] = r}

RopIdle == [pc |-> "idle", install |-> FALSE, todo |-> {}]
DopIdle == [kind |-> "idle", pc |-> "idle", iface |-> NoRoute, to |-> NoRoute, gw |-> NoRoute]
Route(i, gw) == IF gw = NoRoute THEN NoRoute ELSE [iface |-> i, gw |-> gw]

RaInit ==
    /\ lab_ra \in BOOLEAN
    /\ mode \in [Devices -> IF lab_ra THEN {"ra", "static"} ELSE {"static"}]
    /\ ra \in [Routers -> [on : BOOLEAN, alive : {TRUE}]]
    /\ via = [d \in Devices |-> CHOOSE i \in Ifaces : TRUE]
    /\ \E r \in Routers : uplink = [d \in Devices |-> [i \in Ifaces |-> r]]
    /\ link = [d \in Devices |-> [i \in Ifaces |-> "up"]]
    /\ wired = uplink
    /\ route = [d \in Devices |-> Route(via[d], Gateway(d, uplink[d][via[d]]))]
    /\ rop = [r \in Routers |-> RopIdle]
    /\ dop = [d \in Devices |-> DopIdle]
    /\ worker = [r \in Routers |-> IF lab_ra /\ ra[r].on THEN "first" ELSE "none"]
    /\ notified = [r \in Routers |-> FALSE]
    /\ adv = [r \in Routers |-> "none"]
    /\ overlap = {} /\ broken = {}

-----------------------------------------------------------------------------
(* Router::set_ra_enabled, set_ra_lifetime_secs, set_ra_interval_secs.      *)

\* notify_waiters wakes a Notified that exists; nobody else hears of it.
Notify(r) == notified' = [notified EXCEPT ![r] = @ \/ worker[r] = "wait"]

\* The core lock section: both copies of the settings, and what to install.
SetRa(r, s) ==
    /\ rop[r] = RopIdle
    /\ ra' = [ra EXCEPT ![r] = s]
    /\ Notify(r)
    /\ IF lab_ra
       THEN /\ rop' = [rop EXCEPT ![r] =
                         [pc |-> "targets", install |-> s.on /\ s.alive, todo |-> {}]]
            /\ overlap' = overlap \cup {d \in Devices : dop[d] # DopIdle}
       ELSE UNCHANGED <<rop, overlap>>
    /\ UNCHANGED <<core, link, wired, route, dop, worker, adv, broken>>

SetRaEnabled(r, b) == SetRa(r, [ra[r] EXCEPT !.on = b])
SetRaLifetime(r, b) == SetRa(r, [ra[r] EXCEPT !.alive = b])

\* The interval only wakes the worker.
SetRaInterval(r) ==
    /\ rop[r] = RopIdle
    /\ Notify(r)
    /\ UNCHANGED <<core, ra, link, wired, route, rop, dop, worker, adv, overlap, broken>>

\* reconcile_radriven_default_v6_routes: a second core lock section ...
ReconcileTargets(r) ==
    /\ rop[r].pc = "targets"
    /\ rop' = [rop EXCEPT ![r] = IF Targets(r) = {} THEN RopIdle
                                 ELSE [@ EXCEPT !.pc = "loop", !.todo = Targets(r)]]
    /\ UNCHANGED <<core, ra, link, wired, route, dop, worker, notified, adv, overlap, broken>>

\* ... and one netlink run per target on the interface name it read.  To
\* install is to look the link up, delete every default and add the route: a
\* link that is gone stops it before, a link that is down after the deletion.
ReconcileOne(r, d) ==
    /\ rop[r].pc = "loop" /\ d \in rop[r].todo
    /\ LET ok == ~rop[r].install \/ link[d][via[d]] = "up"
           rest == rop[r].todo \ {d}
       IN /\ route' = [route EXCEPT ![d] =
                IF ~rop[r].install THEN NoRoute
                ELSE CASE link[d][via[d]] = "up" -> Route(via[d], r)
                       [] link[d][via[d]] = "down" -> NoRoute
                       [] OTHER -> @]
          /\ rop' = [rop EXCEPT ![r] =
                IF ~ok \/ rest = {} THEN RopIdle ELSE [@ EXCEPT !.todo = rest]]
          /\ broken' = IF ok THEN broken ELSE broken \cup {r}
    /\ UNCHANGED <<core, ra, link, wired, dop, worker, notified, adv, overlap>>

-----------------------------------------------------------------------------
(* The operations of a device.                                              *)

RaBusy == \E r \in Routers : rop[r] # RopIdle
Overlapping(d) == overlap' = IF RaBusy THEN overlap \cup {d} ELSE overlap
Begin6(d, o) == dop[d] = DopIdle /\ dop' = [dop EXCEPT ![d] = o] /\ Overlapping(d)
DopGoto(d, pc) == dop' = [dop EXCEPT ![d].pc = pc]
End(d) == dop' = [dop EXCEPT ![d] = DopIdle]
KeepRouters == UNCHANGED <<lab_ra, mode, ra, rop, worker, notified, adv, broken>>

\* Device::set_default_route: the gateway and the RA settings are read,
SetDefaultStart(d, i) ==
    /\ Begin6(d, [kind |-> "default", pc |-> "route", iface |-> i, to |-> NoRoute,
                  gw |-> Gateway(d, uplink[d][i])])
    /\ KeepRouters /\ UNCHANGED <<via, uplink, link, wired, route>>

\* then the routes are written (the IPv4 one first: a link that is down ends
\* the operation there), and the default interface is recorded last.
SetDefaultRoute(d) ==
    /\ dop[d].kind = "default" /\ dop[d].pc = "route"
    /\ IF link[d][dop[d].iface] = "up"
       THEN route' = [route EXCEPT ![d] = Route(dop[d].iface, dop[d].gw)] /\ DopGoto(d, "commit")
       ELSE End(d) /\ UNCHANGED route
    /\ KeepRouters /\ UNCHANGED <<via, uplink, link, wired, overlap>>

SetDefaultCommit(d) ==
    /\ dop[d].kind = "default" /\ dop[d].pc = "commit"
    /\ via' = [via EXCEPT ![d] = dop[d].iface]
    /\ End(d)
    /\ KeepRouters /\ UNCHANGED <<uplink, link, wired, route, overlap>>

\* DeviceIface::link_down: the kernel drops the routes of the interface.
Dropped(d, i) ==
    [route EXCEPT ![d] = IF @ # NoRoute /\ @.iface = i THEN NoRoute ELSE @]

LinkDown(d, i) ==
    /\ dop[d] = DopIdle
    /\ link' = [link EXCEPT ![d][i] = "down"]
    /\ route' = Dropped(d, i)
    /\ Overlapping(d)
    /\ KeepRouters /\ UNCHANGED <<via, uplink, wired, dop>>

\* DeviceIface::link_up: the link first; then, on the default interface, the
\* gateway and RA settings are read and the routes written.
LinkUp(d, i) ==
    /\ link[d][i] # "gone"
    /\ dop[d] = DopIdle
    /\ dop' = [dop EXCEPT ![d] = IF via[d] = i
                 THEN [kind |-> "up", pc |-> "read", iface |-> i, to |-> uplink[d][i],
                       gw |-> NoRoute]
                 ELSE DopIdle]
    /\ Overlapping(d)
    /\ link' = [link EXCEPT ![d][i] = "up"]
    /\ KeepRouters /\ UNCHANGED <<via, uplink, wired, route>>

LinkUpRead(d) ==
    /\ dop[d].kind = "up" /\ dop[d].pc = "read"
    /\ dop' = [dop EXCEPT ![d].pc = "route", ![d].gw = Gateway(d, dop[d].to)]
    /\ KeepRouters /\ UNCHANGED <<via, uplink, link, wired, route, overlap>>

LinkUpRoute(d) ==
    /\ dop[d].kind = "up" /\ dop[d].pc = "route"
    /\ route' = [route EXCEPT ![d] = Route(dop[d].iface, dop[d].gw)]
    /\ End(d)
    /\ KeepRouters /\ UNCHANGED <<via, uplink, link, wired, overlap>>

\* Mutant: the link-local address is taken whether or not it is advertised.
ReplugStartUnasked(d, i, r) ==
    /\ Begin6(d, [kind |-> "replug", pc |-> "delete", iface |-> i, to |-> r,
                  gw |-> IF via[d] = i THEN r ELSE NoRoute])
    /\ KeepRouters /\ UNCHANGED <<via, uplink, link, wired, route>>

\* DeviceIface::replug: prepare_replug_iface takes the new router's active
\* link-local address and whether the interface is the default,
ReplugStart(d, i, r) ==
    /\ Begin6(d, [kind |-> "replug", pc |-> "delete", iface |-> i, to |-> r,
                  gw |-> IF via[d] = i THEN Gateway(d, r) ELSE NoRoute])
    /\ KeepRouters /\ UNCHANGED <<via, uplink, link, wired, route>>

\* the old veth pair is deleted,
ReplugDelete(d) ==
    /\ dop[d].kind = "replug" /\ dop[d].pc = "delete"
    /\ link' = [link EXCEPT ![d][dop[d].iface] = "gone"]
    /\ route' = Dropped(d, dop[d].iface)
    /\ DopGoto(d, "wire")
    /\ KeepRouters /\ UNCHANGED <<via, uplink, wired, overlap>>

\* wire_iface_async makes the new pair (a default route that exists stays),
ReplugWire(d) ==
    /\ dop[d].kind = "replug" /\ dop[d].pc = "wire"
    /\ link' = [link EXCEPT ![d][dop[d].iface] = "up"]
    /\ wired' = [wired EXCEPT ![d][dop[d].iface] = dop[d].to]
    /\ route' = [route EXCEPT ![d] =
                   IF @ = NoRoute THEN Route(dop[d].iface, dop[d].gw) ELSE @]
    /\ DopGoto(d, "commit")
    /\ KeepRouters /\ UNCHANGED <<via, uplink, overlap>>

\* and finish_replug_iface records the new uplink.
ReplugCommit(d) ==
    /\ dop[d].kind = "replug" /\ dop[d].pc = "commit"
    /\ uplink' = [uplink EXCEPT ![d][dop[d].iface] = dop[d].to]
    /\ End(d)
    /\ KeepRouters /\ UNCHANGED <<via, link, wired, route, overlap>>

-----------------------------------------------------------------------------
(* spawn_ra_worker.                                                         *)

KeepAllButWorker == UNCHANGED <<core, ra, link, wired, route, rop, dop, overlap, broken>>

\* emit_ra with the settings loaded now; a disabled router says nothing.
Emit(r) ==
    adv' = [adv EXCEPT ![r] = IF ~ra[r].on THEN @
                              ELSE IF ra[r].alive THEN "alive" ELSE "withdrawn"]

WorkerFirst(r) ==
    /\ worker[r] = "first" /\ Emit(r)
    /\ worker' = [worker EXCEPT ![r] = "gap"]
    /\ KeepAllButWorker /\ UNCHANGED notified

\* The interval was loaded; the Notified is created only now.
WorkerWait(r) ==
    /\ worker[r] = "gap"
    /\ worker' = [worker EXCEPT ![r] = "wait"]
    /\ notified' = [notified EXCEPT ![r] = FALSE]
    /\ KeepAllButWorker /\ UNCHANGED adv

WorkerChanged(r) ==
    /\ worker[r] = "wait" /\ notified[r] /\ Emit(r)
    /\ worker' = [worker EXCEPT ![r] = "gap"]
    /\ KeepAllButWorker /\ UNCHANGED notified

\* Mutant: the tick only starts the next interval.
WorkerTickSilent(r) ==
    /\ worker[r] = "wait" /\ worker' = [worker EXCEPT ![r] = "gap"]
    /\ KeepAllButWorker /\ UNCHANGED <<notified, adv>>

WorkerTick(r) ==
    /\ worker[r] = "wait" /\ Emit(r)
    /\ worker' = [worker EXCEPT ![r] = "gap"]
    /\ KeepAllButWorker /\ UNCHANGED notified

Worker(r) == WorkerFirst(r) \/ WorkerWait(r) \/ WorkerChanged(r) \/ WorkerTick(r)

-----------------------------------------------------------------------------
RaStart ==
    \/ \E r \in Routers, b \in BOOLEAN : SetRaEnabled(r, b) \/ SetRaLifetime(r, b)
    \/ \E r \in Routers : SetRaInterval(r)

DeviceStart ==
    \E d \in Devices, i \in Ifaces :
        \/ SetDefaultStart(d, i) \/ LinkDown(d, i) \/ LinkUp(d, i)
        \/ \E r \in Routers : ReplugStart(d, i, r)

RaStep ==
    \/ \E r \in Routers : ReconcileTargets(r) \/ \E d \in Devices : ReconcileOne(r, d)
    \/ \E d \in Devices :
         \/ SetDefaultRoute(d) \/ SetDefaultCommit(d) \/ LinkUpRead(d) \/ LinkUpRoute(d)
         \/ ReplugDelete(d) \/ ReplugWire(d) \/ ReplugCommit(d)

-----------------------------------------------------------------------------

Quiet == ~RaBusy /\ \A d \in Devices : dop[d] = DopIdle

\* Between operations a device's IPv6 default route is the one its
\* provisioning mode asks for: through its recorded default interface to the
\* router that interface is plugged into, and in RA mode only while that
\* router advertises itself as a default (device.rs:39-54, router.rs:33-52) -
\* for every device whose link is up, which never had an operation of its own
\* beside an RA operation, and whose router had no RA operation that failed.
RouteFollowsRa ==
    Quiet => \A d \in Devices :
        LET i == via[d]
            r == uplink[d][i]
        IN (link[d][i] = "up" /\ d \notin overlap /\ r \notin broken)
              => route[d] = Route(i, Gateway(d, r))

\* The last advertisement of a router shows its settings; a router that is
\* not enabled is silent.
Current(r) == ra[r].on => adv[r] = (IF ra[r].alive THEN "alive" ELSE "withdrawn")
=============================================================================
