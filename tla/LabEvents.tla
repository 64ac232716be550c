----------------------------- MODULE LabEvents -----------------------------
(***************************************************************************)
(* The events of a lab: operations on devices and the test guard emit      *)
(* them, a broadcast channel carries them, and the writer task appends     *)
(* them to events.jsonl, folds them into the state it shares with          *)
(* LabInner, and writes that state to state.json, as LabInner::drop does.  *)
(*                                                                         *)
(* Each device is built with one interface and then changed through its    *)
(* handle, one operation at a time under its op mutex; what the operations *)
(* do to the kernel is the subject of IfaceOps.  Routers are there from    *)
(* the start.  Removal of devices and routers, and events that only carry  *)
(* data for one field, are left out.  The lab has an output directory.     *)
(* The number of an event is taken before it is sent, and so not always in *)
(* the order of the channel; its readers are the subject of LiveEvents.    *)
(***************************************************************************)
EXTENDS Naturals, Sequences, FiniteSets

CONSTANTS
    Devices, Ifaces, Routers,
    Ports,        \* bound: the interfaces and routers a device is built on
    Guard,        \* the TestGuard, the emitter that is not a device
    NoRouter,
    Capacity,     \* of the broadcast channel: 256 in the code
    MaxEvents,    \* bound: events emitted
    MaxFaults     \* bound: the file operations in fault at one time

ASSUME EventsAssumption ==
    /\ Guard \notin Devices /\ NoRouter \notin Routers
    /\ Ports \subseteq Ifaces \X Routers
    /\ Capacity \in Nat /\ Capacity >= 2 /\ MaxEvents \in Nat /\ MaxEvents >= 2
    /\ MaxFaults \in Nat

VARIABLES
    record,       \* core: the uplink router of each interface of each device
    doing,        \* the event each emitter is about to send
    opid,         \* LabInner.opid: events sent
    queue,        \* the events the channel keeps for the writer
    lagging,      \* the channel has overwritten events the writer had not read
    test,         \* LabInner.test_status
    failed,       \* history: devices with an operation that failed half way
    lab,          \* LabInner: alive, cancelled (in drop), dropped
    writer,       \* where the writer task is
    shared,       \* LabInner.shared_state
    dirty,        \* the writer's flag
    appended,     \* events appended to the buffer of events.jsonl
    flushed,      \* those of them that are in the file
    file,         \* state.json
    faults,       \* history: the file operations whose last attempt failed
    lost,         \* history: the writer has missed events
    early         \* history: dropped before the writer applied LabCreated

emitters == <<record, doing, opid, test, failed>>
channel == <<queue, lagging, lost>>
disk == <<flushed, file, faults>>
vars == <<emitters, channel, disk, lab, writer, shared, dirty, appended, early>>

Emitters == Devices \cup {Guard}

Kinds == {"created", "ix", "device", "added", "removed", "replugged", "completed"}
Ev(k, d, i, from, to) == [kind |-> k, d |-> d, i |-> i, from |-> from, to |-> to, passed |-> FALSE]
LabEv(k) == Ev(k, Guard, Guard, NoRouter, NoRouter)
Nothing == LabEv("ix")

Stages == {"idle", "committed"}
Faults == {"flush", "state", "final"}   \* of the log, of the writer, of the drop

(* Lab::with_opts has returned: the writer is spawned and two events sent. *)
Init ==
    /\ record = [d \in Devices |-> [i \in Ifaces |-> NoRouter]]
    /\ doing = [e \in Emitters |-> [at |-> "idle", ev |-> Nothing]]
    /\ opid = 2
    /\ queue = <<LabEv("created"), LabEv("ix")>>
    /\ lagging = FALSE
    /\ test = "unknown"
    /\ failed = {}
    /\ lab = "alive"
    /\ writer = "new"
    /\ shared = [status |-> "empty", devices |-> {},
                 ifaces |-> [d \in Devices |-> {}], listed |-> [r \in Routers |-> {}]]
    /\ dirty = FALSE
    /\ appended = 0
    /\ flushed = 0
    /\ file = [status |-> "empty", at |-> 0]
    /\ faults = {}
    /\ lost = FALSE
    /\ early = FALSE

----------------------------------------------------------------------------
(* The operations: each commits its change to the core record and then     *)
(* emits its event.  A device operation holds the op mutex until the event *)
(* is sent.                                                                *)

Connected(d) == {i \in Ifaces : record[d][i] # NoRouter}

(* Bound: events sent or about to be, and operations that failed instead.  *)
Budget == opid + Cardinality({e \in Emitters : doing[e].at = "committed"})
          + Cardinality(failed) < MaxEvents

Commit(d, i, r, ev) ==
    /\ Budget /\ doing[d].at = "idle" /\ lab = "alive"
    /\ record' = [record EXCEPT ![d][i] = r]
    /\ doing' = [doing EXCEPT ![d] = [at |-> "committed", ev |-> ev]]
    /\ UNCHANGED <<opid, test, failed, channel, disk, lab, writer, shared, dirty, appended, early>>

Build(d) == \E port \in Ports :
    /\ Connected(d) = {}
    /\ Commit(d, port[1], port[2], Ev("device", d, port[1], NoRouter, port[2]))

AddIface(d) == \E i \in Ifaces \ Connected(d), r \in Routers :
    /\ Connected(d) # {}
    /\ Commit(d, i, r, Ev("added", d, i, NoRouter, r))

RemoveIface(d) == \E i \in Connected(d) :
    /\ Connected(d) # {i}
    /\ Commit(d, i, NoRouter, Ev("removed", d, i, NoRouter, NoRouter))

Replug(d) == \E i \in Connected(d), r \in Routers :
    Commit(d, i, r, Ev("replugged", d, i, record[d][i], r))

(* TestGuard::ok, and its drop when ok was not called. *)
CloseGuard == \E passed \in BOOLEAN :
    /\ Budget /\ test = "unknown" /\ lab = "alive"
    /\ test' = IF passed THEN "success" ELSE "failed"
    /\ doing' = [doing EXCEPT ![Guard] =
                   [at |-> "committed", ev |-> [LabEv("completed") EXCEPT !.passed = passed]]]
    /\ UNCHANGED <<record, opid, failed, channel, disk, lab, writer, shared, dirty, appended, early>>

(* The netlink calls between the commit and the event fail: the operation  *)
(* returns the error, undoes nothing and emits nothing.  Bound: once per   *)
(* device.                                                                 *)
Fail(d) ==
    /\ doing[d].at = "committed" /\ doing[d].ev.kind # "replugged" /\ d \notin failed
    /\ doing' = [doing EXCEPT ![d] = [at |-> "idle", ev |-> Nothing]]
    /\ failed' = failed \cup {d}
    /\ UNCHANGED <<record, opid, test, channel, disk, lab, writer, shared, dirty, appended, early>>

(* A full channel overwrites its oldest event. *)
Send(e) ==
    /\ doing[e].at = "committed"
    /\ opid' = opid + 1
    /\ IF Len(queue) < Capacity
       THEN queue' = Append(queue, doing[e].ev) /\ UNCHANGED lagging
       ELSE queue' = Append(Tail(queue), doing[e].ev) /\ lagging' = TRUE
    /\ doing' = [doing EXCEPT ![e] = [at |-> "idle", ev |-> Nothing]]
    /\ UNCHANGED <<record, test, failed, lost, disk, lab, writer, shared, dirty, appended, early>>

----------------------------------------------------------------------------
(* LabState::apply. *)

Listing(s, r, d) == [s.listed EXCEPT ![r] = @ \cup {d}]

Built(s, e) == [s EXCEPT !.devices = @ \cup {e.d}, !.ifaces[e.d] = {<<e.i, e.to>>},
                         !.listed = Listing(s, e.to, e.d)]

Added(s, e) == [s EXCEPT !.ifaces[e.d] = IF e.d \in s.devices THEN @ \cup {<<e.i, e.to>>} ELSE @,
                         !.listed = Listing(s, e.to, e.d)]

Removed(s, e) ==
    LET left == {p \in s.ifaces[e.d] : p[1] # e.i}
        on == {p[2] : p \in s.ifaces[e.d] \ left}
        gone == {r \in on : \A p \in left : p[2] # r}
    IN  [s EXCEPT !.ifaces[e.d] = left,
                  !.listed = [r \in Routers |-> IF r \in gone THEN @[r] \ {e.d} ELSE @[r]]]

(* Mutant: the interface stays where it was. *)
ReplugLists(s, e) == [s EXCEPT !.listed[e.from] = @ \ {e.d}, !.listed[e.to] = @ \cup {e.d}]

(* The old router loses the device even if another interface is on it.     *)
Replugged(s, e) ==
    [s EXCEPT !.ifaces[e.d] = {IF p[1] = e.i THEN <<p[1], e.to>> ELSE p : p \in @},
              !.listed = [r \in Routers |->
                            IF r = e.to THEN @[r] \cup {e.d}
                            ELSE IF r = e.from THEN @[r] \ {e.d} ELSE @[r]]]

Apply(s, e) ==
    CASE e.kind = "created"   -> [s EXCEPT !.status = "running"]
      [] e.kind = "ix"        -> s
      [] e.kind = "device"    -> Built(s, e)
      [] e.kind = "added"     -> Added(s, e)
      [] e.kind = "removed"   -> Removed(s, e)
      [] e.kind = "replugged" -> Replugged(s, e)
      [] e.kind = "completed" -> [s EXCEPT !.status = IF e.passed THEN "success" ELSE "failed"]

----------------------------------------------------------------------------
(* The writer task.  It shares nothing but the channel, the state and the  *)
(* cancellation token; its select! may take any branch that is ready.      *)

AppendEvent ==
    /\ queue # <<>> /\ ~lagging
    /\ shared' = Apply(shared, Head(queue))
    /\ appended' = appended + 1
    /\ queue' = Tail(queue)
    /\ UNCHANGED <<lagging, lost>>

(* The buffer is full and cannot be written: the event is not folded.      *)
(* Bound: not after the writer has missed events.                          *)
AppendFails ==
    /\ queue # <<>> /\ ~lagging /\ ~lost
    /\ queue' = Tail(queue)
    /\ lost' = TRUE
    /\ UNCHANGED <<shared, appended, lagging>>

(* The log cannot be opened: the writer ends before it has begun.          *)
Start ==
    /\ writer = "new"
    /\ writer' \in {"loop", "gone"}
    /\ UNCHANGED <<emitters, channel, disk, lab, shared, dirty, appended, early>>

(* Mutant: the state is not marked for writing. *)
RecvClean ==
    /\ writer = "loop" /\ AppendEvent
    /\ UNCHANGED <<emitters, disk, lab, writer, dirty, early>>

Recv ==
    /\ writer = "loop" /\ (AppendEvent \/ AppendFails)
    /\ dirty' = TRUE
    /\ UNCHANGED <<emitters, disk, lab, writer, early>>

RecvLagged ==
    /\ writer = "loop" /\ lagging
    /\ lagging' = FALSE /\ lost' = TRUE
    /\ UNCHANGED <<emitters, queue, disk, lab, writer, shared, dirty, appended, early>>

(* Mutant: the log is left for the end. *)
StateOnly ==
    /\ writer = "loop" /\ dirty
    /\ writer' = "state"
    /\ UNCHANGED <<emitters, channel, disk, lab, shared, dirty, appended, early>>

(* An operation on a file fails: the error is logged or ignored.           *)
Fault(f) == faults' = faults \cup {f} /\ Cardinality(faults \cup {f}) <= MaxFaults

(* BufWriter::flush: what an error keeps from the file is kept for later.  *)
FlushLog ==
    /\ flushed' \in flushed..appended
    /\ IF flushed' = appended THEN faults' = faults \ {"flush"} ELSE Fault("flush")

(* interval.tick: events.jsonl first, then state.json, come what may.      *)
Flush ==
    /\ writer = "loop" /\ dirty
    /\ FlushLog
    /\ writer' = "state"
    /\ UNCHANGED <<emitters, channel, file, lab, shared, dirty, appended, early>>

Snapshot == [status |-> shared.status, at |-> appended]

(* The temporary file is renamed only if it could be written.              *)
PutState ==
    \/ file' = Snapshot /\ faults' = faults \ {"state", "final"}
    \/ UNCHANGED file /\ Fault("state")

(* A write that failed is not repeated until the next event.               *)
WriteState ==
    /\ writer = "state"
    /\ PutState
    /\ dirty' = FALSE
    /\ writer' = "loop"
    /\ UNCHANGED <<emitters, channel, flushed, lab, shared, appended, early>>

Cancelled ==
    /\ writer = "loop" /\ lab # "alive"
    /\ writer' = "drain"
    /\ UNCHANGED <<emitters, channel, disk, lab, shared, dirty, appended, early>>

Drain ==
    /\ writer = "drain" /\ (AppendEvent \/ AppendFails)
    /\ UNCHANGED <<emitters, disk, lab, writer, dirty, early>>

(* try_recv returns an error when there is nothing, and when it lags. *)
EndDrain ==
    /\ writer = "drain" /\ (queue = <<>> \/ lagging)
    /\ writer' = "flush"
    /\ lost' = (lost \/ lagging)
    /\ UNCHANGED <<emitters, queue, lagging, disk, lab, shared, dirty, appended, early>>

Closed ==
    /\ writer = "loop" /\ lab = "dropped" /\ queue = <<>> /\ ~lagging
    /\ writer' = "flush"
    /\ UNCHANGED <<emitters, channel, disk, lab, shared, dirty, appended, early>>

FinalFlush ==
    /\ writer = "flush"
    /\ FlushLog
    /\ writer' = "final"
    /\ UNCHANGED <<emitters, channel, file, lab, shared, dirty, appended, early>>

FinalState ==
    /\ writer = "final"
    /\ PutState
    /\ writer' = "done"
    /\ UNCHANGED <<emitters, channel, flushed, lab, shared, dirty, appended, early>>

(* The runtime is shut down after the lab is gone: the task is dropped at  *)
(* its await, and its BufWriter with it, which flushes, errors aside.      *)
Abort ==
    /\ lab = "dropped" /\ writer \in {"new", "loop"}
    /\ writer' = "gone"
    /\ FlushLog
    /\ UNCHANGED <<emitters, channel, file, lab, shared, dirty, appended, early>>

----------------------------------------------------------------------------
(* LabInner::drop: runs when no handle, so no operation and no test guard, *)
(* is left.                                                                *)

Cancel ==
    /\ lab = "alive" /\ \A e \in Emitters : doing[e].at = "idle"
    /\ lab' = "cancelled"
    /\ UNCHANGED <<emitters, channel, disk, writer, shared, dirty, appended, early>>

FinalStatus == IF test = "unknown" THEN "stopped" ELSE test

(* Mutant: the status of the test guard is taken for granted. *)
WriteAsIs ==
    /\ lab = "cancelled"
    /\ file' = Snapshot
    /\ early' = (shared.status = "empty")
    /\ lab' = "dropped"
    /\ UNCHANGED <<emitters, channel, flushed, faults, writer, shared, dirty, appended>>

Torn == [status |-> "torn", at |-> 0]

(* Errors are ignored: the rename may fail, and it takes place even if the *)
(* temporary file could not be written in full.                            *)
WriteFinalState ==
    /\ lab = "cancelled"
    /\ shared' = [shared EXCEPT !.status = FinalStatus]
    /\ \/ file' = [status |-> FinalStatus, at |-> appended] /\ faults' = faults \ {"state", "final"}
       \/ file' \in {file, Torn} /\ Fault("final")
    /\ early' = (shared.status = "empty")
    /\ lab' = "dropped"
    /\ UNCHANGED <<emitters, channel, flushed, writer, dirty, appended>>

----------------------------------------------------------------------------
Writer ==
    \/ Start \/ Recv \/ RecvLagged \/ Flush \/ WriteState
    \/ Cancelled \/ Drain \/ EndDrain \/ Closed \/ FinalFlush \/ FinalState

Next ==
    \/ \E d \in Devices : Build(d) \/ AddIface(d) \/ RemoveIface(d) \/ Replug(d) \/ Fail(d)
    \/ CloseGuard
    \/ \E e \in Emitters : Send(e)
    \/ Writer \/ Abort
    \/ Cancel \/ WriteFinalState

(* The runtime polls the writer; which of the branches that are ready its  *)
(* select! takes is left open.                                             *)
Fairness == WF_vars(Writer)

Spec == Init /\ [][Next]_vars /\ Fairness

----------------------------------------------------------------------------
(* Once the writer has read all there is, what it publishes of a device    *)
(* whose last operation is over is what the core has, unless the writer    *)
(* missed an event or an operation of it failed half way: no commit is     *)
(* missing, and none was folded out of order.  A router's list does not    *)
(* name the device unless it has an interface there.                       *)
PublishedMatches ==
    (queue = <<>> /\ ~lost /\ ~lagging) =>
      \A d \in Devices \ failed : doing[d].at = "idle" =>
        /\ shared.ifaces[d] = {<<i, record[d][i]>> : i \in Connected(d)}
        /\ \A r \in Routers : d \in shared.listed[r] => \E i \in Ifaces : record[d][i] = r

(* state.json never tells of an event that events.jsonl does not have,     *)
(* while the lab is there and again when the writer has ended, unless the  *)
(* last flush of the log failed: the writer goes on then, and the next     *)
(* flush that succeeds makes up for it.                                    *)
LogCoversState ==
    (lab # "dropped" \/ writer \in {"done", "gone"}) =>
      (file.at <= flushed \/ "flush" \in faults)

(* From its drop on, the status of a lab in state.json is the one its test *)
(* guard left, whatever the writer still writes, if the lab lived until    *)
(* the writer had seen its creation and, should the drop have failed to    *)
(* write it, as soon as the writer has written the file again.             *)
StatusKept == (lab = "dropped" /\ ~early) => (file.status = FinalStatus \/ "final" \in faults)

(* Both files catch up with the events the writer has folded, each unless  *)
(* the last attempt to write it failed, or the runtime aborts the writer;  *)
(* and after the lab is gone the writer ends, with the files caught up.    *)
EventuallyWritten ==
    (file.at < appended \/ lab = "dropped") ~>
         \/ writer = "gone"
         \/ /\ file.at = appended \/ faults \cap {"state", "final"} # {}
            /\ flushed = appended \/ "flush" \in faults
            /\ lab = "dropped" => writer = "done"
============================================================================
