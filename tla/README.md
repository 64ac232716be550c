# A verification model of patchbay

patchbay builds virtual networks out of Linux network namespaces: a *lab* has
regions, routers and devices with interfaces, which tests and simulations
rewire while programs run in them. This directory keeps TLA+ modules of the
parts of it where several callers, threads or asynchronous steps meet, the TLC
configurations that check them on small instances, and proofs checked by TLAPS.

## 1. Inventory

| component | source | state | operations | modules |
| --- | --- | --- | --- | --- |
| Inter-region links | `patchbay/src/{core,lab,netlink}.rs` | link records (linked, broken), routes in each region router | `link_regions`, `break_region_link`, `restore_region_link` | `RegionLinks` |
| Device interfaces | `patchbay/src/{iface,device,core,wiring}.rs` | interface records, default interface, op mutex; links, addresses, routes, impairments in the namespace | `add_iface`, `remove`, `replug`, `renew_ip`, `add_ip`, `link_up`, `link_down`, `set_condition`, `set_default_route`, `remove_router` | `IfaceOps` (partly) |
| Topology, allocators, lab builder | `patchbay/src/{core,lab,router,device}.rs` | node tables, names, counters of ids, subnets and hosts; namespaces and routes | building, adding and removing routers, devices, regions | `Topology` (partly) |
| Router rules | `patchbay/src/{router,nat,nft,firewall,nat64,qdisc}.rs` | recorded modes, nft tables, qdisc, published modes | `set_nat_mode`, `set_nat_v6_mode`, `set_firewall`, `set_downlink_condition`, `flush_nat_state` | `RouterRules` (partly) |
| Router advertisements | `patchbay/src/{router,wiring,device,iface}.rs` | RA settings and their `Notify`, IPv6 default routes | `set_ra_*`, the RA worker, device operations | `RaRoutes` |
| Events and writer | `patchbay/src/{event,writer}.rs` | opid, broadcast channel, shared state, files | emit, apply, write, `LabInner::drop` | `LabEvents` (partly) |
| Live events | `patchbay-server/src/lib.rs`, `ui/src/{api.ts,RunPage.tsx}` | the file of events, an event stream, a page | flush, poll, load, refresh | `EventFeed`, `LiveEvents` |
| Server | `patchbay-server/src/lib.rs`, `patchbay-utils/src/manifest.rs` | directories of pushed runs | push, list, retention | `RunStore` (partly) |
| Simulation step loop | `patchbay-runner/src/sim/{runner,steps,capture}.rs` | table of processes, captures, results, deadline | the step actions, capture threads, clean-up | `SimSteps` (partly) |
| Runner | `patchbay-runner/src/sim/{runner,matrix,mod,progress,report}.rs`, `patchbay/src/lab.rs` | directories and reports of a run | matrix, templates, topology, the loop over files | `SimConfig`, `SimRuns` (partly) |
| Virtual machine backends | `patchbay-vm/src/{qemu,container,common}.rs` | processes, pid files, `runtime.env` | up, down, cleanup | `VmLifecycle` (partly) |
| Netlink, wiring | `patchbay/src/{netlink,wiring}.rs` | links, addresses and routes of a namespace | as the operations above use them | in the modules above |
| Namespace workers | `patchbay/src/netns.rs` | map of workers, queues | create, remove, run | not modelled |
| CLI, metrics, DNS, tracing, user namespaces, utilities, presentation in the UI | `patchbay-cli`, `patchbay-utils`, `ui`, ... | files, external processes | I/O and conversions | not modelled |

### How they interact

A `Lab` handle is cloned freely; every clone shares `LabInner`, whose core
mutex guards `NetworkCore`. An operation takes that mutex for a moment,
validates and copies what it needs, releases it, and then awaits netlink calls
that run on the worker of a namespace. When those have finished it takes the
mutex again to record the result. Operations on one device also hold the
device's op mutex from start to end; operations on regions hold nothing, and
`remove_router` does not look at the op mutexes of devices. Each operation
finally emits an event, which the writer task folds into a published state.
The runner drives a lab step by step on one thread, while the processes it
starts, the pumps that copy their output and the readers that extract captures
run beside it.

### What is hard

* Interleaving of callers between the mutex and the kernel: records and
  routes change in different steps, and some decisions are made on copies.
* Operations that fail, or whose future is dropped, half way: nothing is undone.
* Long sequences of legal calls: breaks and restores, replugs and removals.
* Waits: for a capture, a child, a thread, a duration, each with or without a
  limit, against a deadline that is only looked at between steps.
* Kernel changes made of several commands, with traffic passing in between, and
  commands whose failure is ignored.
* Files as protocol: a log read while it is written, reports and pid files that
  an interrupted process leaves behind, a store that is cleaned while it grows.

The list of hazards, each at its line and with the properties aimed at it, is in
`PROJECT.json`. Some have no property, because the code does go wrong there: the model has
the behaviour, a history variable marks it (`disturbed`, `stale`, `failed`, `shared`,
`overlap`), and the properties say what holds as long as it has not happened.

### What makes each component correct

* Region links: traffic never circulates; a record and the routes of both ends
  agree; what is recorded is wired; a break leaves a two-hop path.
* Interfaces: when no operation is under way the namespace is wired as the
  record says and the default route is where the record has it; no record
  refers to a router that is gone; no pair is wired over another.
* Step loop: a command starts after what it requires; results are final and
  collected once; nothing outlives the simulation; the simulation ends.
* Topology: subnets and addresses are handed out once; references resolve.
* Events: the published state follows the operations, the state file does not run
  ahead of the log, and both end complete and with the final status.
* Router rules: the rules in the kernel are those of the recorded modes; on the
  way from one mode to another nothing is opened and no tracked flow is cut.
* Router advertisements: a device's IPv6 default route is the one its router's
  settings ask for; the last settings are advertised in the end.
* Live events: a page misses no event but in a few known races, and catches up.
* Server: a push is all or nothing; a failed test is shown as failed.
* Runner: nobody writes over another; verdict, counts and reports agree; the
  steps that are run fit the lab.
* Virtual machines: a running machine is never lost sight of; a successful
  command leaves what it promises.

## 2. Plan

The modules, in the order they were written: `RegionLinks`, `IfaceOps`,
`SimSteps` and `LabEvents` first, because what goes wrong there is least visible
to a test; then `RouterRules` and `RaRoutes`, composed in `RouterOps` (one op
mutex, two groups of operations); `Topology`; `EventFeed`, the abstract promise
of the event stream, and `LiveEvents`, which implements it beside a writer and a
page; `VmLifecycle`; `RunStore`; `SimConfig`, pure operators, and `SimRuns`, which
extends it with the runner's loop.

What is left: the worker threads of namespaces (`patchbay/src/netns.rs`, section
14), IPv6 pools beside the IPv4 ones of `Topology`, commands on a virtual machine
that overlap, and an abstract device whose operations are atomic, which
`IfaceOps` would implement between operations.

## 3. RegionLinks

State: `link` is `core.region_links` (none, linked, broken per pair); `route4`
and `route6` are the next hops each region router has for the block of each
other region, `Ix` standing for the default route through the exchange;
`wired` says which veths of a namespace are addressed. `op` holds what each
caller is doing. Three variables are history: `since` numbers the last break of
a pair, `breaks` counts them, and `disturbed` records that two reroutes
overlapped or that a call ended half way.

| action | code |
| --- | --- |
| `LinkPrepare` | `prepare_link_regions`, which inserts the record |
| `LinkSideA`, `LinkSideB` | the two netlink batches of `link_regions` |
| `BreakPrepare`, `RestorePrepare` | `prepare_break_region_link` (choice of the intermediate), `prepare_restore_region_link` |
| `RerouteA`, `RerouteB` | the two awaited `replace_route_v4` |
| `RerouteFails` | the kernel refuses a gateway that is not on a wired link; `?` returns |
| `MarkLink` | `set_region_link_broken` |
| `Drop` | the caller drops the future at an await |

Run `region_links`: four regions, two callers, four breaks, with the callers
and regions symmetric (162,327 states). Four regions are the least with two
candidate intermediates for a pair and a chain of detours; four breaks let an
intermediate's own link break, be restored and break again. States with
`disturbed` are checked and not continued, since nothing is claimed after them.

* `SerialLoopFree`: no set of regions forwards packets for another region among
  themselves. Breaks that overlap can create a loop (two callers that break two
  links of a triangle choose each other's link as detour); one after the other
  they cannot.
* `RecordMatchesRoutes`: between calls a broken link is bypassed at both ends
  through the same intermediate and an intact one is used directly.
* `BreakGivesTwoHops`: when a break takes effect the intermediate reaches the
  other end directly, even if a third link is just being created.

A break does less than the guide says (`docs/guide/topology.md:256`: no new packets
cross the link): it replaces IPv4 routes only (`lab.rs:1274`), and detours that
earlier breaks installed over the link stay. Nor is traffic between the two
regions "blackholed" (line 248): it takes the detour, as the code documents.
No property above claims more than the code does.

Run `region_overlap` drops the proviso `disturbed` from `BreakGivesTwoHops` for
three regions: a record is marked last, so two breaks that overlap take each
other's link for intact, and the detours lead back and forth.

Assumed: the two regions of a call differ, and region names are short enough
for the interface name `vr-a-b`; the code checks neither.

### Proofs (RegionLinksProofs)

For any set of regions and callers and any bound on breaks, the module proves
`TypeOK`, `SerialLoopFree`, `RecordMatchesRoutes` and `BreakGivesTwoHops`.
None is inductive. The invariant `IInv` adds, while nothing is `disturbed`:
what each call in progress has already done to the routes of its pair, that at
most one reroute is in progress, and the reason there is no loop. A route away
from the direct hop was installed by the last break of its pair, and at that
moment both links of its intermediate were intact; if such a link is now broken
it was broken by a *later* break. So along any chain of detours towards a
region the number of the break strictly grows, and a loop would need a number
greater than itself. `LoopFreedom` takes the member of the loop with the
largest number and derives the contradiction; that a largest one exists is the
well-foundedness of the natural numbers (there are at most `MaxBreaks`), from
the library's `WellFoundedInduction`. The step proof has one part per action.

## 4. IfaceOps

State: the record of one device (`order`, `uplink`, `ip`, `egress`, `ingress`,
`defaultVia`), the routers of the lab and an address counter; the kernel
(`kern`, the links of the namespace with their peer, state, addresses and
impairments, and `route`, the default route); the op mutex `lock`; what each
caller has copied (`call`). History: `lost` (the route was dropped by
`renew_ip` or `remove`, which do not restore it), `failed` (an operation
returned an error half way), `stale` (a copy made before the mutex was taken
had changed).

Each operation that awaits is split where another step can come between: a
copy before the mutex (`BeginLinkUp`, `BeginCondition`), the prepare step under
the core mutex (`SetDefaultLookup`, `RenewIp`, `Replug`, `RemoveIface`, `AddIface`),
the netlink calls (`SetDefaultRoute`, `LinkUp`, `LinkUpRoute`, `ReplaceAddr`,
`WireReplugged`, `Unplug`, `SetEgress`, `SetIngress`, `WireAdded`) and the
commit (`FinishReplug`). `RemoveRouter` takes no op mutex and may come between
any two. What the kernel does is stated once, in `FlushedOf`, `Accepts` and
`Replaced`: routes of a link that goes down or loses its last address are
flushed, and a default route is refused unless its gateway is reachable.

Run `iface_ops`: two names, two routers, two callers, three addresses, callers
symmetric (814,264 states). Three addresses allow an added interface and a
replug or a renewal, or two replugs. A state where an operation failed or
worked from a stale copy is checked for `UplinksExist` and not continued.

* `UplinksExist`: a recorded uplink is a router of the lab, whatever
  `remove_router` overtakes.
* `KernelMatches`: between operations the namespace is wired as recorded.
  (After a replug the ingress condition is gone although it is recorded.)
* `RouteFollowsDefault`: the default route is through the default interface, and
  is there while it is up, except where `lost` says who dropped it.
* `NoPairOverPair`: a name is reused only after its pair is gone.

Where the code differs from its comments the properties follow the code: the
removal of the default interface moves only the record (`iface.rs:626`; the
comment at 607 promises that the default moves), and a `link_up` that waited for
the op mutex decides from what it copied before (`iface.rs:397`).

### Proofs (IfaceOpsProofs)

For any interfaces, routers, callers and number of addresses. The first part has
no proviso that nothing failed or was stale: it proves `TypeOK`, `UplinksExist`
and `NoPairOverPair`. The invariant `IInv` adds what the op mutex
gives: `Mutex` (exactly the holder is past its wait), `Stages` (only `link_up`
and `set_condition` begin before they hold it), `Arguments` (the interface of a
call in progress stays recorded, because only the holder could remove it),
`Unwired` (the pair an operation is about to wire is not there) and `Leftover`
(an unrecorded name has no pair unless `remove` is deleting it).
`NoPairOverPair` needs the last two: between the record and the kernel, a name
is free in the one before it is free in the other. What entering, returning and
waiting do to these parts is proved once (`EnterFacts`, `ReturnFacts`,
`BeginFacts`, `StillFacts`), so that the lemma of each action has to show only
what that action does to records, links and route. `RemoveAtFacts` and
`AppendFacts` are about sequences without repetitions.

The second part proves `KernelMatches` and `RouteFollowsDefault`, which hold until an
operation fails half way or works from a stale copy, and only say something
while the op mutex is free. What they rest on in between is
`MInv == Undisturbed => Matched`, where `Matched` says how far the kernel may be
from the record given the call that holds the mutex (`Holder`): `Blank` (an
unrecorded name has nothing in the kernel), `OthersWired` (every interface but
the holder's is wired as recorded), `Copies` (what the holder copied before its
await is still what is recorded, for nobody else can have changed it), `Halfway`
(what of its own interface the holder has done and has still to do) and
`RouteInHand` (the same for the default route). `remove_router` takes no mutex,
but without a failure it finds no recorded interface on its router: what it can
take away is the pair that `replug_iface` has wired and not yet recorded, or one
that `remove_iface` is deleting. With the mutex free `Matched` comes to `Rest`,
and `ReturnRests` lets the last step of each operation show only that;
`Entered`, `Holding`, `BeginMatches` and `RecordFacts` do the same for the first
steps and for records.

Left out: IPv6, dummy interfaces, MTU, explicit addresses, `start_down`, the
removal of the device itself, and failures of netlink other than those the
kernel rules above produce.

## 5. SimSteps

State: the script and the loop's place in it (`pc`, `phase`, `keys`, `cap`,
`limit`), a clock in ticks, the processes with how many lines each stream has
printed and how many the reader has taken, `SimState` (`spawned`, `pending` for
`spawn_results`, `results`) and the capture store with its whole history. The
loop is sequential: `BeginStep` checks the deadline, `Block`, `Found` and
`TimedOut` are `CaptureStore::wait`, `Resolve` goes from `requires` to the
captures a command refers to, then one action per kind of step. `Output` and
`Exit` are the program in the process, `ReadLine` and `ReadDocument` the pump,
forwarder and reader threads together, `Kill` and `Close` the clean-up. A
command may leave a process behind that holds its pipes (`left`, `open`), prints
the rest of its lines and gives the pipes up in the end (`Release`) or never.
The pumps see the end of a pipe only then, so what joins them (`Drained`) waits
for such a process too, without a limit. A spawn without captures writes to its
log files itself and has no pipes to join (`Piped`); the runner is not verbose.

Run `sim_steps` takes thirteen scripts (4,268 states): a server whose address a
client needs, transfers with a result waited for once or twice, a JSON report, a
duration that does not parse, a capture nobody records, and commands that leave
a process behind with pipes or with log files, one that ends and one that does
not. A deadline of three ticks and a capture timeout of one let each kind of
wait end before and after it.

* `ResultsFinal`: a result is the last value its command ever printed.
* `ResultsOnce`: one result for each run of a command.
* `NothingLeftRunning`: no process a step started survives the simulation (what
  such a process left behind is not killed).
* `StartsAfterRequired`: a command starts after the captures it requires and
  those it refers to.
* `SimEnds` (liveness): the simulation ends unless a step waits for what never
  ends: the command of a `run`, or a process that a command left behind with its
  pipes (`Endless`). The code has no limit on either wait: `run` waits for its
  child (`steps.rs:176`), and the pumps are joined (`steps.rs:386`), without
  one. It assumes that the loop and the reader threads are scheduled (`WF` on
  `Loop` and on each reader: operating-system threads that block only on each
  other), that time passes (`WF` on `Tick`), and that a command that does not
  hang, and a process left behind that does not, gets to its end (`WF` on
  `Child`).

Four things the model shows and no property denies: a capture recorded as the
wait for it times out comes too late (`capture.rs:87`; `Found` and `TimedOut`
are both enabled); every key of `requires` is given the timeout anew, so a step
may start past the deadline (`steps.rs:94`); both streams of a spawned process
feed the same captures although the reference documents a `pipe`
(`steps.rs:284`, `toml-reference.md:504`); a spawn with the id of a running
process takes the first one out of the table without killing it
(`steps.rs:316`).

Left out: contents of captured values, several captures per step, environment
interpolation, and the lab operations a step calls, which are one action that
succeeds or fails.

### Proofs (RunnerProofs, the step loop)

For any simulations, deadline and timeouts the module proves
`StartsAfterRequired`, for required captures and for those a command refers to,
and `ResultsOnce`; for careful scripts (`Careful`: no two steps capture under
one id, every `ready_after` parses) also `ResultsFinal` and
`NothingLeftRunning`, which a script without that care violates: an id that is
spawned again, or a duration that fails to parse after the child was started,
loses a process. `Moves` and `Onward` say once how the loop and the processes
can change, so that each invariant needs only the actions that disturb it:
`KeysInv`, required captures are recorded or still in `keys`, and so are those
referred to once the step has come to them; `PlaceInv`, which processes the loop
and the table refer to; `OnceInv`, no result of a process whose results are
still to be collected; `LeftInv`, a running process is in the table or the loop
is at its step; `FinalInv`, the command of a result has ended and is drained, so
nothing it prints or reads can change (`CommandStays`).

## 6. LabEvents

State: the core's record of each device's interfaces (`record`), what each
emitter is between committing and sending (`doing`), the number of events sent
`opid`, the events the channel keeps (`queue`, `lagging`), `test` and `lab` for
`LabInner.test_status` and the life of `LabInner`, the writer task (`writer`
says at which line of its loop it is, `shared` is the `LabState` it shares with
`LabInner`, `dirty` its flag) and the files (`appended` and `flushed` count
lines of events.jsonl, `file` is state.json: its status and how many events it
has seen). History: `faults` (which of the file operations failed when it was
last tried: the flush of the log, the writer's state file, that of the drop),
`lost` (the writer missed an event: the channel overflowed, or the log could not
be appended to), `failed` (an operation failed between commit and event),
`early` (dropped before the writer had folded `LabCreated`).

| action | code |
| --- | --- |
| `Build`, `AddIface`, `RemoveIface`, `Replug`, `CloseGuard` | the commits of the operations and of `TestGuard` |
| `Fail` | a netlink call after the commit fails, `?` returns |
| `Send` | `emit` |
| `Start`, `Recv`, `RecvLagged`, `Flush`, `WriteState` | the loop of `spawn_writer`, each of whose file operations may fail (`AppendFails`, `FlushLog`, `PutState`) |
| `Cancelled`, `Drain`, `EndDrain`, `Closed`, `FinalFlush`, `FinalState` | its ends |
| `Cancel`, `WriteFinalState` | `LabInner::drop` |
| `Abort` | the runtime shuts down with the writer still waiting |

`Apply` is `LabState::apply`, one operator per kind of event. Errors of the
files are modelled as the writer treats them. It logs the error of a flush or a
write and goes on (`writer.rs:130`, `writer.rs:144`): after a flush that failed
`state.json` is written all the same, and what could not be flushed stays in the
buffer for the next one. A state file that could not be written is not tried
again before the next event. An event that cannot be appended to the log is not
folded either. The drop ignores errors, and renames its temporary file even if
it was not written in full (`Torn`), although its comment says that it writes
atomically (`writer.rs:156`).

Run `lab_events`: one device with two interface names between two routers, the
guard as second emitter, five events over a channel of two (378,350 states). Two
of the events are those of the lab's creation, already as many as the channel
keeps, so that it overflows at the third; the other three allow a build, an
addition and a removal or a replug. An operation counts against the bound when
it commits, so no operation is stuck half way at the bound. The device is built
on one given interface and router (`Ports`), which loses nothing, since
interfaces and routers are alike; a failed append is not tried after the writer
has missed an event already, since `lost` is all that either leaves. At most one
of the three file operations is in error at a time (`MaxFaults`), and each may
fail again and again; without that bound the run has 846,785 states and passes
too.

* `PublishedMatches`: when the writer has read all there is, the published
  interfaces of an idle device are the recorded ones, and a router lists the
  device only if it has an interface there; not after a missed event (`lost`) or
  an operation that failed.
* `LogCoversState`: state.json tells of no event that events.jsonl lacks, unless
  the last flush failed; the next flush that succeeds makes up for it. Nor is it
  claimed for the moment between the write of `drop` and the writer's last
  flush.
* `StatusKept`: the status that `drop` writes stays, although the writer writes
  the file after it and may still fold a `TestCompleted`. If the write of the
  drop failed, the next one by the writer has the status.
* `EventuallyWritten` (liveness): both files catch up with what was folded
  unless the last attempt to write the file in question failed, and after the
  lab is gone the writer ends with the files caught up. Fairness is `WF` on the
  writer as a whole, which the runtime polls; which of several ready branches
  its `select!` takes is left open. Nothing is assumed of emitters or of `drop`.

Numbers are taken before events are sent (`event.rs:773`), so the log need not
be in the order of its numbers, although their documentation speaks of a global
ordering (`event.rs:23`). The numbers are left out here, where only the order of
the channel matters; `LiveEvents`, whose page goes by them, takes such logs as
given.

### Proofs (LabEventsProofs)

For any devices, interfaces, routers, capacity and number of events the module
proves `LogCoversState`, `StatusKept` and `PublishedMatches`. `LogInv`
strengthens the first: at the lines where the writer is about to write the
state, everything appended is flushed unless that flush failed, and until the
drop the file is behind the log unless the last flush failed; a flush that
succeeds restores both. `StatusInv` strengthens the second by what is on its
way: an outcome in the channel or in the hands of an emitter is the one stored
in `test_status`; `LabCreated` can only be the first event of the channel, and
while it is there the status is unset; hence after a drop that it preceded, no
event left in the channel can change the status. `ApplyStatus` reduces the
reducer to its effect on the status. For `PublishedMatches`, `FoldInv` follows
each device through the events on their way. A view stands for what will be
published after each of them: the first is what is published now, each next one
is what the reducer makes of the one before and the next event (`ToldOf`, which
needs `Foldable`: no interface is added twice or taken away when it is not
there), and the last, or what the event the device is about to send makes of it,
is the record. A commit or a send lengthens the views, a fold takes the first
one away. The views of a device are one function, so no induction over the
channel is needed. `EventuallyWritten` is model-checked only.

Left out: events that set one field of a node or link, removal of nodes,
operations on a device through the `Lab` handle while `build` has not returned.

## 7. RouterRules, RaRoutes and RouterOps

`RouterRules` has the packet rules of one router. `rec` is what the core records
of its modes, `seen` what the events have published, and `nat`, `filter`, `nat6`,
`xlat`, `fwall`, `stream` and `qdisc` are the kernel: tables as lists of rules in
order, since a second file appends to a chain that is there. `op` is the
operation that holds the router's op mutex and the command it is at. Traffic is
one flow of a LAN host (`flow`, `cone`) and a few kinds of packets; `Accepts` lets the
first rule that matches decide. History: `settled` (features whose last
operation returned Ok), `swallowed` (an ignored command failed).

| action | code |
| --- | --- |
| `BuildNat` ... `BuildNat64` | `setup_router_async`, the rules in its order |
| `SetNatStart`, `SetNatFlushNat`, `SetNatFlushFilter`, `SetNatApply`, `SetNatTimeouts`, `SetNatEmit` | `Router::set_nat_mode` |
| `SetV6...`, `SetFw...`, `SetDown...`, `Flush...` | `set_nat_v6_mode`, `set_firewall`, `set_downlink_condition`, `flush_nat_state` |
| `Abort`, `Swallow` inside them | a command fails and `?` returns, or its error is dropped |
| `Outbound`, `FlowExpires`, `ConeExpires` | the kernel, external |

`RaRoutes` has the RA settings `ra` of each router, the devices behind it (`via`,
`uplink`, `link`, `wired`, `route`) and each router's worker. `SetRa` is the section
under the core mutex, `ReconcileTargets` and `ReconcileOne` the reconciliation it
starts; `SetDefault...`, `LinkUp...`, `LinkDown` and `Replug...` are the IPv6 side of the
device operations, `WorkerFirst`, `WorkerWait`, `WorkerChanged` and `WorkerTick` the loop
of `spawn_ra_worker`: a `Notified` that is created after the settings were read
does not hear of a change in between. `RouterOps` composes both under one op
mutex per router.

Run `router_ops`: two routers, two devices with two interfaces, modes with rules
of each kind, one failing command; a behaviour spends two operations, both on
rules, both on routes or one of each (`Budgets`), because the groups share
nothing but the mutex.

* `RulesAsRecorded`: after operations that returned Ok the kernel has exactly the
  rules of the recorded modes, and the events name them.
* `NoOpening`: an unsolicited packet gets in only if the recorded mode, or the one
  being replaced, lets it in; the order of the two flushes matters.
* `RepliesPass`: no change of rules cuts a tracked flow.
* `RouteFollowsRa`: between operations a device has the IPv6 default route its
  router's settings and its own mode ask for, unless its own operation
  overlapped an RA operation (`overlap`) or one failed half way (`broken`).
* `AdvertisedEventually` (liveness): the settings that stay are advertised in the
  end, by the tick if the notification was missed. `WF` on the worker of each
  router: a spawned task, whose timer fires.

The rule that blocks ICMP errors is appended behind the one that accepts related
packets of an address-dependent NAT (`nft.rs:385`), where it has no effect, and a
flush of `set_nat_mode` removes it; the builder's comment
(`router.rs:1001`) says that it blocks them. `RulesAsRecorded` therefore leaves that rule and the NAT64
translator out.

### Proofs (RouterOpsProofs)

For any modes, routers and devices, any number of operations and failing commands,
the module proves `RepliesPass`, `NoOpening`, `RulesAsRecorded` and `RouteFollowsRa`. `ChainInv`, for the first: in both forward chains
every rule that drops replies comes after one that lets established packets
pass. Appending the rules of any mode keeps that, behind whatever a failed flush
left there (`EstFirstConcat`), and the first rule that matches is then not a drop
(`EstFirstAccepts`, by the least matching index). `OpenInv`, for the second: while
no failure was swallowed, the translation table is empty from its flush until the
new rules are there, and whenever it is not, the mode that rules is endpoint
independent or the filter holds the rule that guards the WAN side.

`RunInv`, for `RulesAsRecorded`: each feature is on its own. Its tables are those of
its recorded mode, or its operation is at a command whose predecessors have left
them as they are (`NatOnTheWay`, `V6OnTheWay`, `FwOnTheWay`, `DownOnTheWay`), as long as no
error was swallowed.

`FollowInv`, for `RouteFollowsRa`: an operation on RA settings is due on a device
until its loop has come to it (`Due`), and carries what is in force (`RopOk`); a
device that nothing is due on has the route its mode asks for (`Right`), or its own
operation is between two steps and has read what is still true (`Underway`). As the
property does, it leaves out devices whose operation overlapped one of a router
(`overlap`). `RaAssumption`: there is an interface, for the default interface of a
device is one of its own (`core.rs:236`).

## 8. Topology

Node tables (`routers`, `switches`, `devices`, `regions`), `names`, the IPv4
counters (`pools`), and the namespaces with their routes (`ns`). A call of
`task` registers its node under the core mutex (`BuildConnected`,
`BuildNoUplink`, `BuildNoBlock`, `AddRegion`, `AddDevice`, `AddIface`), sets the
kernel up without it (`SetupCreate`, `SetupUplink`, `SetupRoutes`,
`SetupDevice`), and takes it again to publish (`PublishRouter`, `PublishRegion`,
`PublishDevice`); `RemoveRouter`, `RemoveDevice` and `CloseNamespace` come in
between. `panic` names an unwrap that fails while the mutex is held. Octets wrap
as in the code (`% 256`): the 257th private subnet is the first again, region 16
does not exist.

Run `topology`: two callers and up to three calls, from an empty lab whose pools
earlier routers have nearly used up, from labs with one region or with 14 or 15,
two of which still have their routers and one of these a full block, and from a
lab with two routers and a device; the two names are `a` and `a-sub`, the name
of the switch of `a`.

* `SubnetsDisjoint`, `AddressesUnique`: no subnet or address is given out twice
  while the pools last (`InPools`), whatever was removed or replugged.
* `UnwrapsHold`: the two unwraps of the router behind a switch that a removal
  could break (`router.rs:1209`, `device.rs:776`) do not panic. Other panics the
  code does have: a node or a region's router removed before its builder or its
  link is done (`publish`, `region link`), and the seventeenth region
  (`region`).
* `NamesResolve`: a node is found by its name unless the name was given twice.
* `PublicRouted`: routes that removed routers leave behind do not catch packets
  for a public subnet in use. It covers routers on the IX and in regions; a
  public router below another router gets a route in its parent only
  (`router.rs:1298`), so the root namespace does not reach it.

Left out: IPv6 pools, `downstream_cidr` and explicit addresses, custom MTUs.

### Proofs (TopologyProofs)

For any callers, names, regions and initial pools of the allowed ranges, the
module proves all five properties of the run. `Shapes` says that the tables hold
records and that ids in use are below `nextId`, so a new node replaces none.
`Given` names the subnets that the counters have passed; since counters only
grow, what was given stays given (`Grows`), the subnet of a new switch was not
given before and is afterwards (`NewSubnet`), and every subnet in use is given.
Removal takes switches away but turns no counter back. For names: a mapping is
replaced only when the name is registered again, which puts it into `shared` if
a node carries it. `NamesAssumption` says that a node and its switch have
different names; the code derives one from the other by a suffix.

`WiredInv`, for `UnwrapsHold`: a switch that has an owner is the downlink of a
live router, and the other way round; every interface is on a switch with an
owner. A step keeps the tables, enters a router with or without its switch, or
removes one with its switch, and then no device is on it (`CoreMoves`). The
switch of the IX has no owner and is never removed.

`HeldInv`, for `AddressesUnique`: an address is held by an uplink, an interface
or a replug that is under way, each by one of these. What is held is spent:
below the counter of the switch with that subnet, or that of the IX. Two facts
carry it: counters only grow, and a new switch has a subnet that nobody had
(`SubnetsInv`).

`PathsInv`, for `PublicRouted`, relates what a task carries through the setup
that it does without the mutex to what others change meanwhile. `IdsOk`: ids are
given once, so a namespace is made once. `SetupOk`: a task carries the subnet,
address and parent that the record of its router has, if there still is one.
`PlacedOk`: a subnet below a region lies in its block. `RoutesOk`: a /24 route,
however old, is for a subnet that was given out, and if a router has that subnet
the route leads to it, for the subnet is not given out again; a /20 in the root
namespace is that of a region. `RoutedOk`: once published, a router has its way
back. `Moves` sums up what a step may do to all of these, shown action by
action; the invariant is then shown to survive `Moves`.

tlapm 1.4.5 takes an `@` in an `EXCEPT` within an `EXCEPT` for the outer one, so
the modules write such updates as paths (`![d].ifaces = ...`).

## 9. EventFeed and LiveEvents

`EventFeed` says what a follower of the log is promised: the events after the
number it asked for, in the order of the log, each once, none left out but at
most the one whose line was cut when it connected. `LiveEvents` has the writer
(`log`, `disk` in half lines, `status`), the server's event stream, and a page: its
`load` of the run, what it has `shown`, its cursor `lastOpid`. The lines that the
server has sent and the page has not handled are a set of lines of the file,
delivered in the order of the file.

| action | code |
| --- | --- |
| `Emit`, `Spill`, `Flush`, `Stop` | `spawn_writer` with its `BufWriter`; the end of the lab |
| `ServeHistory`, `Poll` | `run_events_sse` |
| `LoadRead`, `LoadFails`, `LoadDone` | the requests of `RunPage` and what it does with them |
| `Deliver`, `Refresh`, `Interrupt`, `Reconnect` | `onmessage`, the effect on the list of runs, the browser |

Run `live_events`: four events, one fault (a lost connection, a failed request, a
hidden tab or the end of the lab).

* `StreamFaithful`: the stream implements `EventFeed`, with complete lines for the
  log and the line it has got for the position (refinement).
* `GapsExplained`: an event up to the cursor that is not shown was cut, replaced by
  the load, overtaken on the way to the log, or is event 0.
* `CaughtUp` (liveness): the page catches up with a run that goes on. `WF` on the
  flushes, loads and refreshes. `SF` on `ServeHistory`, `Poll` and `Deliver`: each
  refresh closes the stream, which takes these steps away for a moment, but the
  stream is polled every 500 ms and refreshed every 5 s, so each comes again and
  again and is taken.

The cut line is a real loss (`lib.rs:552` takes the length of the file, `lib.rs:582`
skips what does not parse); it comes with a full write buffer, not with a flush.

### Proofs (ServerProofs, live events)

For any number of events and faults, and logs in any order of their numbers, the
module proves `GapsExplained` and that the stream implements `EventFeed`
(`StreamFaithful`): `Init` maps to its initial states, and every action of the writer,
the server, the page and the network to one of its steps or to none, one proof
step each. `LiveInv` is the invariant behind both. `StreamOk`: the lines up to the
position of the stream are delivered, queued, cut or not asked for. `UpTo(n)`:
every event in the file up to number n that no earlier line has overtaken is
shown, cut, or gone with the load; it holds of the page's cursor and of the number
a stream was opened with (`PageOk`, `FollowOk`). The cursor moves to the number of a
delivered event; a lower number further down in the file is overtaken, so nothing
else can be missed. `CaughtUp` is model-checked only.

## 10. VmLifecycle

The machine of a workspace: running processes by number (`procs`), the files that
remember them (`pidFile`, `seedFile`, `vfsFile`, `runtime`), and one command at a
time, `call`, for both backends. `UpCheck` ... `EnsureMounts` are `up`, `DownSeed` ...
`DownVfs` are `down`, which `up --recreate` runs first, `Cleanup` is `cleanup`. A process is
started before its number is written (`SpawnVfs`, `RecordVfs`). Faults: `Interrupt` at
any step, `StepFails`, `Dies`, `ContainerDies`, `Reboot` (a number in a file is then that
of another process, or of none).

Run `vm_lifecycle`: four commands, three faults, two workspaces' worth of paths;
two of the three shares, which differ in nothing.

* `VmKnown`: a running machine has its number in the file, whatever was
  interrupted, unless `cleanup` was called on it.
* `UpMounts`: a successful `up` leaves a machine with the mounts asked for.
* `DownStops`: a successful `down` leaves nothing running that was known.

`cleanup` forgets a machine that runs (`qemu.rs:391`), although the guide says
that it removes stale files (`docs/guide/vm.md:93`); `forgotten` marks it. Left out: staging,
builds, tests in the guest, and two commands at once.

### Proofs (VmLifecycleProofs)

For any sets of paths and shares, both backends and any bounds on commands and
faults, the module proves all three properties. `VmInv` has four parts: `CallInv`,
which command and backend each step belongs to; `KnownInv`, that the number of a
running machine is in `qemu.pid` at every step of a command until `cleanup` forgets
it, and that no step starts a machine beside one; `PathsInv`, that `runtime.env`
tells the mounts of a machine that has been recorded; `HelperInv`, that every
helper is in a file, in the hands of the command that just started it, or
orphaned by an interrupt. The action properties follow from `VmInv` in the state
in which the command returns.

## 11. RunStore

The store of pushed runs: a push chooses a name, creates its directory, unpacks
entry by entry, merges results into the manifest and replies (`PushBegin` ...
`PushReply`); the retention watcher measures one directory after the other,
sorts and removes (`Wake` ... `Sleep`). `BuildTestList` and `MergeResults` are
the functions that make the list of tests; directories are read in no order, so
`Manifests` is a set.

A run.json in the archive may list tests already, as the manifests of `patchbay
test` do, or not parse. `PushManifest` merges the results into the tests it
lists and drops a result whose name is listed (`lib.rs:988`); a file that does
not parse is left alone (`lib.rs:1122`); without one a manifest without tests is
written (`Minimal`).

Run `run_store`: two projects, two pushes, four archives, a limit that the
second push exceeds (2,364,972 states). In the archives, some tests of run.json
are among the results and others are not; two suites share a function name;
run.json and results disagree; run.json is missing; it does not parse.

* `PushAllOrNothing`: a refused push leaves nothing; an accepted one is complete
  and listed, unless retention took it.
* `FailuresShown`: a test that failed in run.json or in the results is shown as
  failed in the list of runs and, if the archive had a run.json, on the page of
  the run. The proviso, `OneAnswer`, is that a bare function name is one test
  and that run.json and results do not disagree. Without it the code loses
  failures: a result goes to the last directory with its function name
  (`manifest.rs:195`), and a test listed as passed stays passed whatever its
  result (`lib.rs:988`). Tests whose run.json does not parse are not shown at
  all.

What the code does beside it: a test with a directory appears twice in the list
of runs, since directory and result have different names there (`lib.rs:980`);
retention removes by name and so by project before date (`lib.rs:1217`), while
`docs/guide/testing.md:333` says that the oldest runs go. Left out: the scanner
and its stream, HTTP, the authorisation of a push.

### Proofs (ServerProofs, results)

For any projects, archives, number of pushes and limit, the module proves
`PushAllOrNothing` of `StoreSpec`. `StoreInv` adds to the shapes of the records
that no two pushes have the same run (`OwnRuns`), that a push has everything
left to unpack when its name is chosen (`AllLeft`), and that, unless retention
has attempted its run, the directory of a push holds what is not left to unpack
(`DirsFilled`).

`FailuresShown` is proved too, for archives with finitely many directories and
lists of results and of listed tests (`ArchivesAssumption`), whatever order the
directories are read in. `MergedResults` says that the tests of a manifest after
the merge are those it lists and the results, less the ones whose names are
listed. `FailureListed` is the core: a test that failed and is in the manifest
is either picked as one without a directory or is the last result of the last
directory with its function name, which under `OneAnswer` is its own. A failed
result that the merge drops has its name in the manifest, and so, under
`OneAnswer`, its failure. `PickedAll` says what filtering a list keeps, and
`MinimalListed` that a manifest written without tests shows every result.

## 12. SimConfig and SimRuns

`SimConfig` translates what happens to a file before it runs, as operators:
`Combinations` and `Variants` (matrix), `GroupEntries`, `Flattened`, `MergeUse` and `Expanded`
(groups and templates), `Parsed` (a step loses the fields its kind does not have),
`Built`, `UplinkOf` and `LabOk` (the topology, built in rounds),
`CountedStep` and `StepsToRun` (devices with a count). A text is a sequence of
tokens, so that names with numbers can collide as they do in the code.

`SimRuns` is `run_sims`: the directory of the run and the `latest` link (`MakeRoot`,
`Unlink`, `Link`), assembly of all files, then for each file and variant a directory,
its steps (which may fail) and a summary; progress, combined results and
manifest are three files written one after the other. A runner may stop
anywhere, so every state is one that a kill leaves behind.

Run `sim_runs`: two runners in one second, lists of two files; the files have a
matrix over two topologies, counted devices, a group and a template, the same
name twice, an empty axis, a cycle of routers and a conflict of binaries.

* `OwnDirs`: nobody writes where another has written.
* `VerdictRight`: success means that every variant of every file succeeded, and
  exit, manifest, counts and entries agree.
* `CombinedFirst`: the manifest names no results that the combined file lacks.
* `StepsResolve`: routers hang on the upstreams of the file, and the steps as
  expanded address devices of the lab, have unique ids and refer to captures
  that some step makes, if the author's file does (`Meant`).

Run `sim_when_dropped`: the guard `when` of a step that uses a template is lost, so
the step runs although it is guarded by false.

A count of one makes a device with a numbered name, which steps with the plain
name do not reach (`toml-reference.md:707` says they are expanded, 292 only for
counts above one); `Meant` excludes it. `write_json` writes in place, although the comment at
`progress.rs:85` calls it atomic; the model has each file whole. Left out: overrides
and builds of binaries, the `prepare` command, the wording of reports.

### Proofs (RunnerProofs, the runs)

For any number of runners, any files and any lists of them the module proves
`OwnDirs`, `CombinedFirst`, `VerdictRight` and `StepsResolve`. What is assumed of the files is
their shape, what the parsers give (`FilesAssumption`, `TopologiesAssumption`): lists are
lists, a device has a name that is not empty and at most one count, and different
numbers are written differently. That a matrix whose axes all have values has at
least one variant is proved (`SomeVariants`); without it a file could record no
outcome, and its entry would stay as it was when the run succeeds.

`RunsInv` says that a runner is alone with its directory (`RootsOwn`), so that what a
step of one runner preserves can be said of two records, the runner and its
directory; that outcomes have different directories whose summaries agree with
them, the one under way included (`DirsOwn`); and that every entry names a
directory of an outcome, whose results the combined file has wherever a manifest
is written next (`Reported`). `RightInv` adds the counting (`Counting`): an outcome belongs to a file
that has been reached (`OutcomesMade`); a file that is through has an outcome that is an
error, or as many outcomes as variants (`AllThrough`), for which the number of
outcomes of the file in hand has to follow the variant (`MidFile`); the counts of the progress
are the numbers of outcomes of each status, although they are added up file by
file (`Tallied`). `Said` relates this to the files: the directory holds the progress of its
runner, and no manifest speaks of success before the verdict.

`StepsResolve` needs of the runs only that a runner executes a variant of a file it was
given (`ItsVariant`, from `RightInv`). The rest is about the operators of `SimConfig`, for
files and topologies of any size:

* `LabUplinks`: in a lab whose rounds end with every router, each router is built
  after its upstream, and so finds it. The rounds only grow (`BuiltRec` gives their
  recursion), and a router is ready when its upstream is built or is no router.
* `SourceFits`, `TemplateFits`, `GroupFits`, `VariantFits`, `FlattenedFits`, `ExpandedIs`:
  extending, substituting, flattening and merging give lists of steps again, each
  of them as `Parsed` leaves it.
* `Flatten`: each place of a flattened list comes from one place of one of the lists
  and each such place goes to one of it.
* `LabCounts`: counted devices have the instances 0 to n - 1 in the lab, and a
  number modulo a count is one of them.
* `IdsUnique`, `RefsStay`: numbering the steps of counted devices keeps ids unique,
  and what a reference named before is captured after, by the instance it now
  names. Here `Meant` is used: an instance's name that is also an id, an id shared
  by two devices, or a plain step that refers to a counted one breaks it.

Proofs about these operators need induction. The library's theorems for it take
an operator as a parameter, which the provers cannot instantiate; `Induct` is
induction for a set instead: a set with 0 that has n + 1 whenever it has n holds
every number, since the numbers outside it would have a least one (`WFMin`). For a
recursive function the set is that of the n up to which the function exists, and
so `FlattenRec`, `BuiltRec` and `CombinationsRec` show that the definitions have the values
their equations give.

## 13. Checked and proved

`PROJECT.json` lists the runs, for each property of a passing run a mutation of
the model that violates it, the source lines of every definition, the findings,
the hazards and the theorems.

Measured with two workers:

| run | expected | distinct states | seconds |
| --- | --- | --- | --- |
| `region_links` | pass | 162,327 | 36 |
| `region_overlap` | violation | about 140,000 | 6 |
| `iface_ops` | pass | 814,264 | 40 |
| `sim_steps` | pass | 4,268 | 3 |
| `lab_events` | pass | 378,350 | 55 |
| `router_ops` | pass | 580,705 | 135 |
| `topology` | pass | 863,308 | 116 |
| `live_events` | pass | 535,535 | 85 |
| `vm_lifecycle` | pass | 1,966,066 | 69 |
| `run_store` | pass | 2,364,972 | 100 |
| `sim_runs` | pass | 1,748,456 | 140 |
| `sim_when_dropped` | violation | 26 | 1 |

Every bound is a constant of its module: `MaxBreaks`, `MaxAddrs`, `MaxNow`, `MaxEvents`,
`MaxFails`, `Budgets`, `MaxOps`, `MaxFaults`, `MaxCalls`, `MaxPushes`, `MaxSeconds` and `MaxBytes`;
each section says why its value lets the interesting cases happen. Deadlock is
not checked where the bound, or the end of the system, stops it.

Proved for every value of the constants, under the assumptions each module names
(`tlapm` checks every leaf):

| module | theorems |
| --- | --- |
| `RegionLinksProofs` | `TypeInvariant`, `InductiveInvariant`, `LoopFreedom`, `RecordsAgree`, `TwoHopsAtBreak` |
| `IfaceOpsProofs` | `Inductive`, `Types`, `UplinksSafe`, `PairsSafe`, `Matching`, `KernelFollowsRecord`, `RouteAtDefault` |
| `RunnerProofs` | `RequiredFirst`, `CollectedOnce`, `FinalResults`, `NothingLeft`, `RunsKept`, `NobodysDirectory`, `ResultsBeforeManifest`, `VerdictProved`, `StepsProved` |
| `LabEventsProofs` | `LogFirst`, `FinalStatusStays`, `PublishedAsRecorded` |
| `RouterOpsProofs` | `RepliesAlwaysPass`, `NeverOpened`, `RulesFollowRecord`, `RoutesFollowRa` |
| `TopologyProofs` | `DisjointSubnets`, `NodesFound`, `UnwrapsSafe`, `UniqueAddresses`, `PublicReached` |
| `VmLifecycleProofs` | `MachineKnown`, `UpHasItsMounts`, `DownLeavesNothing` |
| `ServerProofs` | `AllOrNothing`, `FailedTestsShown`, `MissesExplained`, `StreamImplementsFeed` (refinement) |

Every safety invariant and action property of the passing runs is stated by one
of these theorems. Model-checked only is liveness, which needs fairness and
`ENABLED`: `SimEnds`, `EventuallyWritten`, `AdvertisedEventually`, `CaughtUp`.

## 14. Not modelled

* Namespace workers (`netns.rs`): a thread for each namespace that runs closures
  in order, and a map of them behind a lock. That closures of a namespace run in
  order is used by the other modules. `remove_worker` drops the worker, and so
  joins its threads, while it holds the lock of the map (`netns.rs:475`). A task
  spawned in the namespace with a handle of its device takes that lock whenever
  it calls into a namespace; if it does while the device is removed, each waits
  for the other for ever. No property covers this.
* The IPv6 side of `IfaceOps` and of the pools of `Topology`; dummy interfaces,
  MTUs.
* Removal of nodes and single-field events in `LabEvents`; the trim of the
  page's list to 1000 events and the server's list of subscribers in
  `LiveEvents`.
* Name service, tracing, metrics, HTTP, command lines, user namespaces, build
  tooling and presentation: input and output without a protocol between their
  steps. NAT64 translation and report formats are conversions.
