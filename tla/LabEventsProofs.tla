-------------------------- MODULE LabEventsProofs --------------------------
(***************************************************************************)
(* What holds of the files of a lab for every set of devices, interfaces   *)
(* and routers, every capacity of the channel and every number of events:  *)
(* the log lacks an event that the state file tells of only after a failed *)
(* flush, the final status survives the writer, and what the writer publishes is what the   *)
(* core has recorded.                                                      *)
(***************************************************************************)
EXTENDS LabEvents, TLAPS

(* The buffer, the log and the state file, in the order they are written.  *)
LogInv ==
    /\ appended \in Nat /\ flushed \in Nat /\ file.at \in Nat
    /\ flushed <= appended /\ file.at <= appended
    /\ writer = "new" => appended = 0
    /\ writer \in {"state", "final", "done", "gone"} =>
         (flushed = appended \/ "flush" \in faults)
    /\ lab # "dropped" => (file.at <= flushed \/ "flush" \in faults)

logs == <<appended, flushed, file, faults, writer, lab>>

LEMMA LogInit == Init => LogInv
  BY DEF Init, LogInv

LEMMA LogStep == LogInv /\ [Next]_vars => LogInv'
<1> SUFFICES ASSUME LogInv, [Next]_vars PROVE LogInv'
  OBVIOUS
<1> USE DEF LogInv
<1>0. ASSUME UNCHANGED logs PROVE LogInv'
  BY <1>0 DEF logs
<1>1. ASSUME NEW d \in Devices, Build(d) \/ AddIface(d) \/ RemoveIface(d) \/ Replug(d)
      PROVE LogInv'
  BY <1>0, <1>1 DEF Build, AddIface, RemoveIface, Replug, Commit, logs, disk
<1>2. ASSUME NEW d \in Devices, Fail(d) PROVE LogInv'
  BY <1>0, <1>2 DEF Fail, logs, disk
<1>3. CASE CloseGuard
  BY <1>0, <1>3 DEF CloseGuard, logs, disk
<1>4. ASSUME NEW e \in Emitters, Send(e) PROVE LogInv'
  BY <1>0, <1>4 DEF Send, logs, disk
<1>5. CASE Start
  BY <1>5 DEF Start, disk
<1>6. CASE Recv \/ Drain
  BY <1>6 DEF Recv, Drain, AppendEvent, AppendFails, disk
<1>7. CASE RecvLagged
  BY <1>0, <1>7 DEF RecvLagged, logs, disk
<1>8. CASE Flush
  BY <1>8 DEF Flush, FlushLog, Fault
<1>9. CASE WriteState
  BY <1>9 DEF WriteState, PutState, Fault, Snapshot
<1>10. CASE Cancelled \/ EndDrain \/ Closed
  BY <1>10 DEF Cancelled, EndDrain, Closed, disk
<1>11. CASE FinalFlush
  BY <1>11 DEF FinalFlush, FlushLog, Fault
<1>12. CASE FinalState
  BY <1>12 DEF FinalState, PutState, Fault, Snapshot
<1>13. CASE Abort
  BY <1>13 DEF Abort, FlushLog, Fault
<1>14. CASE Cancel
  BY <1>14 DEF Cancel, disk
<1>15. CASE WriteFinalState
  BY <1>15 DEF WriteFinalState, Torn, Fault
<1>16. CASE UNCHANGED vars
  BY <1>0, <1>16 DEF vars, logs, disk
<1> QED
  BY <1>1, <1>2, <1>3, <1>4, <1>5, <1>6, <1>7, <1>8, <1>9, <1>10, <1>11, <1>12, <1>13,
     <1>14, <1>15, <1>16 DEF Next, Writer

(* state.json tells of an event that events.jsonl does not have only while *)
(* the last flush of the log has failed, whatever else overflows, fails or *)
(* is aborted.                                                             *)
THEOREM LogFirst == Spec => []LogCoversState
<1>1. LogInv => LogCoversState
  BY DEF LogInv, LogCoversState
<1> QED
  BY <1>1, LogInit, LogStep, PTL DEF Spec

----------------------------------------------------------------------------
(* What an event does to the status of a state, and that a state keeps the *)
(* field: all that the status of the lab depends on in LabState::apply.    *)
HasStatus(s) == "status" \in DOMAIN s

StatusAfter(s, e) ==
    CASE e.kind = "created"   -> "running"
      [] e.kind = "completed" -> IF e.passed THEN "success" ELSE "failed"
      [] OTHER                -> s.status

LEMMA ApplyStatus ==
  ASSUME NEW s, HasStatus(s), NEW e, e.kind \in Kinds
  PROVE  HasStatus(Apply(s, e)) /\ Apply(s, e).status = StatusAfter(s, e)
<1> USE DEF Apply, StatusAfter, HasStatus
<1>2. CASE e.kind \in {"created", "ix", "completed"}
  BY <1>2
<1>4. CASE e.kind = "device"
  BY <1>4 DEF Built
<1>5. CASE e.kind = "added"
  BY <1>5 DEF Added
<1>6. CASE e.kind = "removed"
  BY <1>6 DEF Removed
<1>7. CASE e.kind = "replugged"
  BY <1>7 DEF Replugged
<1> QED
  BY <1>2, <1>4, <1>5, <1>6, <1>7 DEF Kinds

----------------------------------------------------------------------------
(* The events on their way, and what they say of the status.               *)
Sendable == [kind : Kinds, d : Emitters, i : Ifaces \cup {Guard},
             from : Routers \cup {NoRouter}, to : Routers \cup {NoRouter}, passed : BOOLEAN]

Typed ==
    /\ record \in [Devices -> [Ifaces -> Routers \cup {NoRouter}]]
    /\ queue \in Seq(Sendable)
    /\ doing \in [Emitters -> [at : Stages, ev : Sendable]]
    /\ opid \in Nat
    /\ test \in {"unknown", "success", "failed"}
    /\ lab \in {"alive", "cancelled", "dropped"}
    /\ early \in BOOLEAN
    /\ HasStatus(shared)

(* The outcome an event announces is the one the test guard has stored.    *)
Truthful(e) == e.kind = "completed" => test = IF e.passed THEN "success" ELSE "failed"

(* The creation of the lab is the first event, and it is not sent again.   *)
Announced ==
    /\ \A k \in 1..Len(queue) : Truthful(queue[k])
    /\ \A k \in 2..Len(queue) : queue[k].kind # "created"
    /\ \A e \in Emitters : Truthful(doing[e].ev) /\ doing[e].ev.kind # "created"

(* While the creation is on its way nothing else has set the status; once  *)
(* the lab is dropped after that, nothing on its way will change it.       *)
Settled ==
    /\ lab # "dropped" => \A k \in 1..Len(queue) :
         queue[k].kind = "created" => shared.status = "empty"
    /\ (lab = "dropped" /\ ~early) =>
         /\ \A k \in 1..Len(queue) : queue[k].kind # "created"
         /\ shared.status = FinalStatus
         /\ file.status = FinalStatus \/ "final" \in faults

StatusInv == Typed /\ Announced /\ Settled

LEMMA EvTyped ==
  ASSUME NEW k \in Kinds, NEW d \in Devices, NEW i \in Ifaces,
         NEW from \in Routers \cup {NoRouter}, NEW to \in Routers \cup {NoRouter}
  PROVE  /\ Ev(k, d, i, from, to) \in Sendable
         /\ Ev(k, d, i, from, to).kind = k
  BY DEF Ev, Sendable, Emitters

LEMMA LabEvTyped ==
  ASSUME NEW k \in Kinds
  PROVE  LabEv(k) \in Sendable /\ LabEv(k).kind = k
  BY DEF LabEv, Ev, Sendable, Emitters

LEMMA StatusInit == Init => StatusInv
<1> SUFFICES ASSUME Init PROVE StatusInv
  OBVIOUS
<1>1. /\ LabEv("created") \in Sendable /\ LabEv("created").kind = "created"
      /\ LabEv("ix") \in Sendable /\ LabEv("ix").kind = "ix"
      /\ Nothing \in Sendable /\ Nothing.kind = "ix"
  BY LabEvTyped DEF Kinds, Nothing
<1>2. /\ queue \in Seq(Sendable) /\ Len(queue) = 2
      /\ queue[1].kind = "created" /\ queue[2].kind = "ix"
  BY <1>1 DEF Init
<1>3. HasStatus(shared) /\ shared.status = "empty"
  BY DEF Init, HasStatus
<1>4. \A e \in Emitters : doing[e] = [at |-> "idle", ev |-> Nothing]
  BY DEF Init
<1>5. Typed
  BY <1>1, <1>2, <1>3 DEF Init, Typed, Stages
<1>6. Announced
  BY <1>1, <1>2, <1>4 DEF Announced, Truthful
<1>7. Settled
  BY <1>2, <1>3 DEF Init, Settled
<1> QED
  BY <1>5, <1>6, <1>7 DEF StatusInv

(* A commit puts an event in the hands of its emitter.                     *)
LEMMA CommitKeeps ==
  ASSUME StatusInv, NEW d \in Devices, NEW i \in Ifaces, NEW r \in Routers \cup {NoRouter},
         NEW ev \in Sendable, ev.kind \notin {"created", "completed"},
         Commit(d, i, r, ev)
  PROVE  StatusInv'
<1>1. d \in Emitters
  BY DEF Emitters
<1>2. doing' \in [Emitters -> [at : Stages, ev : Sendable]]
  BY <1>1 DEF StatusInv, Typed, Commit, Stages
<1>3. record' \in [Devices -> [Ifaces -> Routers \cup {NoRouter}]]
  BY DEF StatusInv, Typed, Commit
<1>4. Typed'
  BY <1>2, <1>3 DEF StatusInv, Typed, Commit, channel, HasStatus
<1>5. \A e \in Emitters : doing'[e].ev = IF e = d THEN ev ELSE doing[e].ev
  BY <1>1 DEF StatusInv, Typed, Commit
<1>6. Announced'
  BY <1>5 DEF StatusInv, Announced, Truthful, Commit, channel
<1>7. Settled'
  BY DEF StatusInv, Settled, Commit, channel, disk, FinalStatus
<1> QED
  BY <1>4, <1>6, <1>7 DEF StatusInv

LEMMA OperationKeeps ==
  ASSUME StatusInv, NEW d \in Devices, Build(d) \/ AddIface(d) \/ RemoveIface(d) \/ Replug(d)
  PROVE  StatusInv'
<1> USE DEF Connected
<1>1. CASE Build(d)
  <2>1. PICK i \in Ifaces, r \in Routers : Commit(d, i, r, Ev("device", d, i, NoRouter, r))
    BY <1>1, EventsAssumption DEF Build
  <2> QED
    BY <2>1, EvTyped, CommitKeeps DEF Kinds
<1>2. CASE AddIface(d)
  <2>1. PICK i \in Ifaces, r \in Routers : Commit(d, i, r, Ev("added", d, i, NoRouter, r))
    BY <1>2 DEF AddIface
  <2> QED
    BY SMTT(30), <2>1, EvTyped, CommitKeeps DEF Kinds
<1>3. CASE RemoveIface(d)
  <2>1. PICK i \in Ifaces : Commit(d, i, NoRouter, Ev("removed", d, i, NoRouter, NoRouter))
    BY <1>3 DEF RemoveIface
  <2> QED
    BY <2>1, EvTyped, CommitKeeps DEF Kinds
<1>4. CASE Replug(d)
  <2>1. PICK i \in Ifaces, r \in Routers :
          Commit(d, i, r, Ev("replugged", d, i, record[d][i], r))
    BY <1>4 DEF Replug
  <2>2. record[d][i] \in Routers \cup {NoRouter}
    BY DEF StatusInv, Typed
  <2> QED
    BY <2>1, <2>2, EvTyped, CommitKeeps DEF Kinds
<1> QED
  BY <1>1, <1>2, <1>3, <1>4

LEMMA GuardKeeps == StatusInv /\ CloseGuard => StatusInv'
<1> SUFFICES ASSUME StatusInv, CloseGuard PROVE StatusInv'
  OBVIOUS
<1>1. PICK passed \in BOOLEAN :
        /\ test = "unknown" /\ lab = "alive"
        /\ test' = IF passed THEN "success" ELSE "failed"
        /\ doing' = [doing EXCEPT ![Guard] =
                       [at |-> "committed", ev |-> [LabEv("completed") EXCEPT !.passed = passed]]]
  BY DEF CloseGuard
<1>2. UNCHANGED <<record, opid, queue, lab, shared, file, faults, early>>
  BY DEF CloseGuard, channel, disk
<1> DEFINE ev == [LabEv("completed") EXCEPT !.passed = passed]
<1>3. ev \in Sendable /\ ev.kind = "completed" /\ ev.passed = passed
  BY DEF LabEv, Ev, Sendable, Emitters, Kinds
<1> HIDE DEF ev
<1>4. doing' = [doing EXCEPT ![Guard] = [at |-> "committed", ev |-> ev]]
  BY <1>1 DEF ev
<1>5. \A e \in Emitters : doing'[e].ev = IF e = Guard THEN ev ELSE doing[e].ev
  BY <1>4 DEF StatusInv, Typed, Emitters
<1>6. Typed'
  <2>1. doing' \in [Emitters -> [at : Stages, ev : Sendable]]
    BY <1>3, <1>4 DEF StatusInv, Typed, Emitters, Stages
  <2> QED
    BY <1>1, <1>2, <2>1 DEF StatusInv, Typed, HasStatus
<1>7. Announced'
  BY <1>1, <1>2, <1>3, <1>5 DEF StatusInv, Announced, Truthful
<1>8. Settled'
  BY <1>1, <1>2 DEF StatusInv, Settled
<1> QED
  BY <1>6, <1>7, <1>8 DEF StatusInv

LEMMA FailKeeps ==
  ASSUME StatusInv, NEW d \in Devices, Fail(d)
  PROVE  StatusInv'
<1>1. d \in Emitters /\ Nothing \in Sendable /\ Nothing.kind = "ix"
  BY LabEvTyped DEF Emitters, Nothing, Kinds
<1>2. \A e \in Emitters : doing'[e].ev = IF e = d THEN Nothing ELSE doing[e].ev
  BY <1>1 DEF StatusInv, Typed, Fail
<1>3. Typed'
  BY <1>1 DEF StatusInv, Typed, Fail, channel, HasStatus, Stages
<1>4. Announced'
  BY <1>1, <1>2 DEF StatusInv, Announced, Truthful, Fail, channel
<1>5. Settled'
  BY DEF StatusInv, Settled, Fail, channel, disk, FinalStatus
<1> QED
  BY <1>3, <1>4, <1>5 DEF StatusInv

(* The event goes to the end; of those before it the first may be gone.    *)
LEMMA SendKeeps ==
  ASSUME StatusInv, NEW e \in Emitters, Send(e)
  PROVE  StatusInv'
<1> DEFINE kept == IF Len(queue) < Capacity THEN queue ELSE Tail(queue)
           ev == doing[e].ev
<1>1. /\ queue' = Append(kept, ev)
      /\ doing' = [doing EXCEPT ![e] = [at |-> "idle", ev |-> Nothing]]
      /\ opid' = opid + 1
      /\ UNCHANGED <<record, test, lab, shared, file, faults, early>>
  BY DEF Send, disk
<1>2. queue \in Seq(Sendable) /\ ev \in Sendable
  BY DEF StatusInv, Typed
<1>3. Nothing \in Sendable /\ Nothing.kind = "ix"
  BY LabEvTyped DEF Nothing, Kinds
<1>4. /\ kept \in Seq(Sendable)
      /\ \A k \in 1..Len(kept) : \E n \in 1..Len(queue) : n >= k /\ kept[k] = queue[n]
  <2>1. CASE Len(queue) < Capacity
    BY <1>2, <2>1
  <2>2. CASE ~(Len(queue) < Capacity)
    <3>1. queue # <<>>
      BY <1>2, <2>2, EventsAssumption
    <3>2. Tail(queue) \in Seq(Sendable) /\ Len(Tail(queue)) = Len(queue) - 1
      BY <1>2, <3>1
    <3>3. \A k \in 1..Len(Tail(queue)) : Tail(queue)[k] = queue[k + 1]
      BY <1>2, <3>1
    <3>4. \A k \in 1..Len(Tail(queue)) : k + 1 \in 1..Len(queue)
      BY <1>2, <3>2
    <3> QED
      BY <2>2, <3>2, <3>3, <3>4
  <2> QED
    BY <2>1, <2>2
<1> HIDE DEF kept
<1>5. /\ queue' \in Seq(Sendable) /\ Len(queue') = Len(kept) + 1
      /\ \A k \in 1..Len(kept) : queue'[k] = kept[k]
      /\ queue'[Len(kept) + 1] = ev
  BY <1>1, <1>2, <1>4
<1>6. \A k \in 1..Len(queue') :
        queue'[k] = ev \/ \E n \in 1..Len(queue) : n >= k /\ queue'[k] = queue[n]
  BY <1>4, <1>5
<1>7. Typed'
  BY <1>1, <1>3, <1>5 DEF StatusInv, Typed, HasStatus, Stages
<1>8. Announced'
  <2>1. \A f \in Emitters : doing'[f].ev = IF f = e THEN Nothing ELSE doing[f].ev
    BY <1>1 DEF StatusInv, Typed
  <2>2. \A f \in Emitters : Truthful(doing[f].ev)' /\ doing'[f].ev.kind # "created"
    BY <1>1, <1>3, <2>1 DEF StatusInv, Announced, Truthful
  <2>3. \A k \in 1..Len(queue') : Truthful(queue[k])'
    BY <1>1, <1>6 DEF StatusInv, Announced, Truthful
  <2>4. \A k \in 2..Len(queue') : queue'[k].kind # "created"
    <3> SUFFICES ASSUME NEW k \in 2..Len(queue') PROVE queue'[k].kind # "created"
      OBVIOUS
    <3>1. k \in 1..Len(queue')
      BY <1>5
    <3>2. queue'[k] = ev \/ \E n \in 1..Len(queue) : n >= k /\ queue'[k] = queue[n]
      BY <1>6, <3>1
    <3>3. \A n \in 1..Len(queue) : n >= k => n \in 2..Len(queue)
      BY <1>2
    <3> QED
      BY <3>2, <3>3 DEF StatusInv, Announced
  <2> QED
    BY <2>2, <2>3, <2>4 DEF Announced
<1>9. Settled'
  <2>1. ev.kind # "created"
    BY DEF StatusInv, Announced
  <2> QED
    BY <1>1, <1>6, <2>1 DEF StatusInv, Settled, FinalStatus
<1> QED
  BY <1>7, <1>8, <1>9 DEF StatusInv

----------------------------------------------------------------------------
(* The writer folds the first event or misses it.  After a drop that the   *)
(* creation preceded, only an outcome can set the status, to what it already is.    *)
LEMMA FoldKeeps ==
  ASSUME StatusInv, AppendEvent \/ AppendFails, UNCHANGED <<emitters, disk, lab, early>>
  PROVE  StatusInv'
<1> DEFINE head == Head(queue)
<1>1. UNCHANGED <<record, doing, opid, test, lab, file, faults, early>>
  BY DEF emitters, disk
<1>2. /\ queue # <<>> /\ queue' = Tail(queue)
      /\ shared' \in {shared, Apply(shared, head)}
  BY DEF AppendEvent, AppendFails
<1>3. queue \in Seq(Sendable) /\ HasStatus(shared)
  BY DEF StatusInv, Typed
<1>4. /\ head \in Sendable /\ head = queue[1] /\ 1 \in 1..Len(queue)
      /\ queue' \in Seq(Sendable) /\ Len(queue') = Len(queue) - 1
      /\ \A k \in 1..Len(queue') : k + 1 \in 2..Len(queue) /\ queue'[k] = queue[k + 1]
  BY <1>2, <1>3
<1> HIDE DEF head
<1>5. /\ HasStatus(shared')
      /\ shared'.status \in {shared.status, StatusAfter(shared, head)}
  <2>1. head.kind \in Kinds
    BY <1>4 DEF Sendable
  <2> QED
    BY <1>2, <1>3, <2>1, ApplyStatus
<1>6. \A k \in 1..Len(queue') : Truthful(queue'[k]) /\ queue'[k].kind # "created"
  <2> SUFFICES ASSUME NEW k \in 1..Len(queue')
               PROVE  Truthful(queue'[k]) /\ queue'[k].kind # "created"
    OBVIOUS
  <2>1. k + 1 \in 2..Len(queue) /\ k + 1 \in 1..Len(queue) /\ queue'[k] = queue[k + 1]
    BY <1>3, <1>4
  <2>2. Truthful(queue[k + 1]) /\ queue[k + 1].kind # "created"
    BY <2>1 DEF StatusInv, Announced
  <2> QED
    BY <2>1, <2>2
<1>7. Typed'
  BY <1>1, <1>4, <1>5 DEF StatusInv, Typed, HasStatus
<1>8. Announced'
  <2>1. \A k \in 1..Len(queue') : Truthful(queue[k])'
    BY <1>1, <1>6 DEF Truthful
  <2>2. \A k \in 2..Len(queue') : queue'[k].kind # "created"
    BY <1>4, <1>6
  <2> QED
    BY <1>1, <2>1, <2>2 DEF StatusInv, Announced, Truthful
<1>9. Settled'
  <2>1. ASSUME lab = "dropped", ~early
        PROVE  /\ shared'.status = FinalStatus
               /\ file.status = FinalStatus \/ "final" \in faults
    <3>1. /\ shared.status = FinalStatus /\ head.kind # "created"
          /\ file.status = FinalStatus \/ "final" \in faults
      BY <2>1, <1>4 DEF StatusInv, Settled
    <3>2. Truthful(head)
      BY <1>4 DEF StatusInv, Announced
    <3> QED
      BY <1>5, <3>1, <3>2 DEF StatusAfter, Truthful, FinalStatus
  <2> QED
    BY <1>1, <1>6, <2>1 DEF Settled, FinalStatus
<1> QED
  BY <1>7, <1>8, <1>9 DEF StatusInv

(* A write of the state publishes the status the writer and drop share.    *)
LEMMA WriteKeeps ==
  ASSUME StatusInv, PutState, UNCHANGED <<emitters, queue, lab, shared, early>>
  PROVE  StatusInv'
<1>1. UNCHANGED <<record, doing, opid, test, queue, lab, shared, early>>
  BY DEF emitters
<1>2. \/ file'.status = shared.status
      \/ file' = file /\ ("final" \in faults => "final" \in faults')
  BY DEF PutState, Fault, Snapshot
<1> QED
  BY <1>1, <1>2 DEF StatusInv, Typed, Announced, Truthful, Settled, FinalStatus, HasStatus

LEMMA StillKeeps ==
  ASSUME StatusInv, UNCHANGED <<emitters, queue, file, lab, shared, early>>,
         "final" \in faults => "final" \in faults'
  PROVE  StatusInv'
<1>1. UNCHANGED <<record, doing, opid, test, queue, file, lab, shared, early>>
  BY DEF emitters
<1> QED
  BY <1>1 DEF StatusInv, Typed, Announced, Truthful, Settled, FinalStatus, HasStatus

LEMMA DropKeeps == StatusInv /\ WriteFinalState => StatusInv'
<1> SUFFICES ASSUME StatusInv, WriteFinalState PROVE StatusInv'
  OBVIOUS
<1>1. /\ UNCHANGED <<record, doing, opid, test, queue>>
      /\ lab = "cancelled" /\ lab' = "dropped"
      /\ early' = (shared.status = "empty")
  BY DEF WriteFinalState, emitters, channel
<1>2. /\ HasStatus(shared') /\ shared'.status = FinalStatus
      /\ file'.status = FinalStatus \/ "final" \in faults'
  BY DEF WriteFinalState, Fault, HasStatus, StatusInv, Typed
<1>3. Typed'
  BY <1>1, <1>2 DEF StatusInv, Typed
<1>4. Announced'
  BY <1>1 DEF StatusInv, Announced, Truthful
<1>5. Settled'
  BY <1>1, <1>2 DEF StatusInv, Settled, FinalStatus
<1> QED
  BY <1>3, <1>4, <1>5 DEF StatusInv

LEMMA StatusStep == StatusInv /\ [Next]_vars => StatusInv'
<1> SUFFICES ASSUME StatusInv, [Next]_vars PROVE StatusInv'
  OBVIOUS
<1>1. ASSUME NEW d \in Devices,
             Build(d) \/ AddIface(d) \/ RemoveIface(d) \/ Replug(d) \/ Fail(d)
      PROVE StatusInv'
  BY <1>1, OperationKeeps, FailKeeps
<1>2. CASE CloseGuard
  BY <1>2, GuardKeeps
<1>3. ASSUME NEW e \in Emitters, Send(e) PROVE StatusInv'
  BY <1>3, SendKeeps
<1>4. CASE Recv \/ Drain
  BY <1>4, FoldKeeps DEF Recv, Drain
<1>5. CASE WriteState \/ FinalState
  BY <1>5, WriteKeeps DEF WriteState, FinalState, channel
<1>6. CASE Start \/ RecvLagged \/ Flush \/ Cancelled \/ EndDrain \/ Closed \/ FinalFlush \/ Abort
  BY <1>6, StillKeeps
     DEF Start, RecvLagged, Flush, FlushLog, Fault, Cancelled, EndDrain, Closed, FinalFlush, Abort,
         channel, disk
<1>7. CASE Cancel
  <2>1. /\ UNCHANGED <<record, doing, opid, test, queue, file, faults, shared, early>>
        /\ lab = "alive" /\ lab' = "cancelled"
    BY <1>7 DEF Cancel, emitters, channel, disk
  <2> QED
    BY <2>1 DEF StatusInv, Typed, Announced, Truthful, Settled, HasStatus
<1>8. CASE WriteFinalState
  BY <1>8, DropKeeps
<1>9. CASE UNCHANGED vars
  BY <1>9, StillKeeps DEF vars, channel, disk
<1> QED
  BY <1>1, <1>2, <1>3, <1>4, <1>5, <1>6, <1>7, <1>8, <1>9 DEF Next, Writer

(* The status that LabInner::drop writes stays in state.json, whatever the *)
(* writer drains and writes after it, if the creation of the lab had been  *)
(* folded by then; if the drop could not write it, the writer's next write *)
(* does.                                                                   *)
THEOREM FinalStatusStays == Spec => []StatusKept
<1>1. StatusInv => StatusKept
  BY DEF StatusInv, Settled, StatusKept
<1> QED
  BY <1>1, StatusInit, StatusStep, PTL DEF Spec
----------------------------------------------------------------------------
(* What an event tells of the uplinks of its device: what LabState::apply  *)
(* makes of them.  An added interface is only listed for a known device,   *)
(* and a replugged one was on the router the event says it left.           *)
Told(S, e) ==
    CASE e.kind = "device"    -> {<<e.i, e.to>>}
      [] e.kind = "added"     -> S \cup {<<e.i, e.to>>}
      [] e.kind = "removed"   -> {p \in S : p[1] # e.i}
      [] e.kind = "replugged" -> {IF p[1] = e.i THEN <<p[1], e.to>> ELSE p : p \in S}
      [] OTHER                -> S

ToldOf(S, e, d) == IF e.d = d THEN Told(S, e) ELSE S
Foldable(S, e, d) == e.d = d =>
    /\ e.kind = "device" => S = {}
    /\ e.kind = "added" => S # {}
    /\ e.kind = "replugged" => /\ \E p \in S : p[1] = e.i
                               /\ \A p \in S : p[1] = e.i => p[2] = e.from

Listed(s) ==
    /\ "ifaces" \in DOMAIN s /\ "devices" \in DOMAIN s /\ "listed" \in DOMAIN s
    /\ DOMAIN s.ifaces = Devices /\ DOMAIN s.listed = Routers
    /\ \A d \in Devices : s.ifaces[d] # {} => d \in s.devices

(* The routers that list a device are among those it has an interface on.  *)
Named(s, d) == \A r \in Routers : d \in s.listed[r] => \E p \in s.ifaces[d] : p[2] = r

LEMMA ApplyPlugs ==
  ASSUME NEW s, Listed(s), NEW e, e.kind \in Kinds
  PROVE  /\ Listed(Apply(s, e))
         /\ \A d \in Devices : Foldable(s.ifaces[d], e, d) =>
              /\ Apply(s, e).ifaces[d] = ToldOf(s.ifaces[d], e, d)
              /\ Named(s, d) => Named(Apply(s, e), d)
<1> PICK t : t = Apply(s, e)
  OBVIOUS
<1>1. SUFFICES /\ Listed(t)
               /\ \A d \in Devices : Foldable(s.ifaces[d], e, d) =>
                    t.ifaces[d] = ToldOf(s.ifaces[d], e, d) /\ (Named(s, d) => Named(t, d))
  OBVIOUS
<1>3. CASE e.kind \in {"created", "ix", "completed"}
  <2>1. /\ "ifaces" \in DOMAIN t /\ "devices" \in DOMAIN t /\ "listed" \in DOMAIN t
        /\ t.ifaces = s.ifaces /\ t.devices = s.devices /\ t.listed = s.listed
    BY <1>3 DEF Apply, Listed
  <2> QED
    BY <1>3, <2>1 DEF Listed, ToldOf, Told, Named
<1>4. CASE e.kind = "device"
  <2>1. /\ "ifaces" \in DOMAIN t /\ "devices" \in DOMAIN t /\ "listed" \in DOMAIN t
        /\ t.ifaces = [s.ifaces EXCEPT ![e.d] = {<<e.i, e.to>>}]
        /\ t.devices = s.devices \cup {e.d}
        /\ t.listed = [s.listed EXCEPT ![e.to] = s.listed[e.to] \cup {e.d}]
    BY <1>4 DEF Apply, Built, Listing, Listed
  <2>2. Listed(t)
    BY <2>1 DEF Listed
  <2>3. ASSUME NEW d \in Devices, Foldable(s.ifaces[d], e, d)
        PROVE  t.ifaces[d] = ToldOf(s.ifaces[d], e, d) /\ (Named(s, d) => Named(t, d))
    <3>1. CASE d # e.d
      BY <2>1, <3>1 DEF ToldOf, Named, Listed
    <3>2. CASE d = e.d
      <4>1. t.ifaces[d] = ToldOf(s.ifaces[d], e, d)
        BY <1>4, <2>1, <2>3, <3>2 DEF Listed, ToldOf, Told, Foldable
      <4>2. /\ <<e.i, e.to>> \in t.ifaces[d]
            /\ \A p \in s.ifaces[d] : p \in t.ifaces[d]
        BY <1>4, <2>1, <2>3, <3>2 DEF Listed, Foldable
      <4>3. \A r \in Routers : d \in t.listed[r] => r = e.to \/ d \in s.listed[r]
        BY <2>1 DEF Listed
      <4> QED
        BY <4>1, <4>2, <4>3 DEF Named
    <3> QED
      BY <3>1, <3>2
  <2> QED
    BY <2>2, <2>3
<1>5. CASE e.kind = "added"
  <2>1. /\ "ifaces" \in DOMAIN t /\ "devices" \in DOMAIN t /\ "listed" \in DOMAIN t
        /\ t.ifaces = [s.ifaces EXCEPT ![e.d] =
             IF e.d \in s.devices THEN s.ifaces[e.d] \cup {<<e.i, e.to>>} ELSE s.ifaces[e.d]]
        /\ t.devices = s.devices
        /\ t.listed = [s.listed EXCEPT ![e.to] = s.listed[e.to] \cup {e.d}]
    BY <1>5 DEF Apply, Added, Listing, Listed
  <2>2. Listed(t)
    BY <2>1 DEF Listed
  <2>3. ASSUME NEW d \in Devices, Foldable(s.ifaces[d], e, d)
        PROVE  t.ifaces[d] = ToldOf(s.ifaces[d], e, d) /\ (Named(s, d) => Named(t, d))
    <3>1. CASE d # e.d
      BY <2>1, <3>1 DEF ToldOf, Named, Listed
    <3>2. CASE d = e.d
      <4>1. t.ifaces[d] = ToldOf(s.ifaces[d], e, d)
        BY <1>5, <2>1, <2>3, <3>2 DEF Listed, ToldOf, Told, Foldable
      <4>2. /\ <<e.i, e.to>> \in t.ifaces[d]
            /\ \A p \in s.ifaces[d] : p \in t.ifaces[d]
        BY <1>5, <2>1, <2>3, <3>2 DEF Listed, Foldable
      <4>3. \A r \in Routers : d \in t.listed[r] => r = e.to \/ d \in s.listed[r]
        BY <2>1 DEF Listed
      <4> QED
        BY <4>1, <4>2, <4>3 DEF Named
    <3> QED
      BY <3>1, <3>2
  <2> QED
    BY <2>2, <2>3
<1>6. CASE e.kind = "removed"
  <2>1. PICK S, left, gone : /\ S = s.ifaces[e.d]
                             /\ left = {p \in S : p[1] # e.i}
                             /\ gone = {r \in {p[2] : p \in S \ left} : \A p \in left : p[2] # r}
    OBVIOUS
  <2>2. /\ "ifaces" \in DOMAIN t /\ "devices" \in DOMAIN t /\ "listed" \in DOMAIN t
        /\ t.ifaces = [s.ifaces EXCEPT ![e.d] = left]
        /\ t.devices = s.devices
        /\ t.listed = [r \in Routers |->
                         IF r \in gone THEN s.listed[r] \ {e.d} ELSE s.listed[r]]
    BY <1>6, <2>1 DEF Apply, Removed, Listed
  <2>3. Listed(t)
    BY <2>1, <2>2 DEF Listed
  <2>4. ASSUME NEW d \in Devices
        PROVE  t.ifaces[d] = ToldOf(s.ifaces[d], e, d) /\ (Named(s, d) => Named(t, d))
    <3>1. CASE d # e.d
      BY <2>2, <3>1 DEF ToldOf, Named, Listed
    <3>2. CASE d = e.d
      <4>1. S = s.ifaces[d] /\ t.ifaces[d] = left
        BY <2>1, <2>2, <3>2 DEF Listed
      <4>2. t.ifaces[d] = ToldOf(s.ifaces[d], e, d)
        BY <1>6, <2>1, <3>2, <4>1 DEF ToldOf, Told
      <4>3. ASSUME Named(s, d), NEW r \in Routers, d \in t.listed[r]
            PROVE  \E p \in left : p[2] = r
        <5>1. r \notin gone /\ d \in s.listed[r]
          BY <2>2, <3>2, <4>3
        <5>2. PICK p \in S : p[2] = r
          BY <4>1, <4>3, <5>1 DEF Named
        <5> QED
          BY <2>1, <5>1, <5>2
      <4> QED
        BY <4>1, <4>2, <4>3 DEF Named
    <3> QED
      BY <3>1, <3>2
  <2> QED
    BY <2>3, <2>4
<1>7. CASE e.kind = "replugged"
  <2>1. PICK S, moved : /\ S = s.ifaces[e.d]
                        /\ moved = {IF p[1] = e.i THEN <<p[1], e.to>> ELSE p : p \in S}
    OBVIOUS
  <2>2. /\ "ifaces" \in DOMAIN t /\ "devices" \in DOMAIN t /\ "listed" \in DOMAIN t
        /\ t.ifaces = [s.ifaces EXCEPT ![e.d] = moved]
        /\ t.devices = s.devices
        /\ t.listed = [r \in Routers |-> IF r = e.to THEN s.listed[r] \cup {e.d}
                         ELSE IF r = e.from THEN s.listed[r] \ {e.d} ELSE s.listed[r]]
    BY <1>7, <2>1 DEF Apply, Replugged, Listed
  <2>3. Listed(t)
    BY <2>1, <2>2 DEF Listed
  <2>4. ASSUME NEW d \in Devices, Foldable(s.ifaces[d], e, d)
        PROVE  t.ifaces[d] = ToldOf(s.ifaces[d], e, d) /\ (Named(s, d) => Named(t, d))
    <3>1. CASE d # e.d
      BY <2>2, <3>1 DEF ToldOf, Named, Listed
    <3>2. CASE d = e.d
      <4>1. S = s.ifaces[d] /\ t.ifaces[d] = moved
        BY <2>1, <2>2, <3>2 DEF Listed
      <4>2. t.ifaces[d] = ToldOf(s.ifaces[d], e, d)
        BY <1>7, <2>1, <3>2, <4>1 DEF ToldOf, Told
      <4>3. ASSUME NEW p \in S
            PROVE  (IF p[1] = e.i THEN <<p[1], e.to>> ELSE p) \in moved
        BY <2>1
      <4>4. /\ \E p \in S : p[1] = e.i
            /\ \A p \in S : p[1] = e.i => p[2] = e.from
        BY <1>7, <2>4, <3>2, <4>1 DEF Foldable
      <4>5. ASSUME Named(s, d), NEW r \in Routers, d \in t.listed[r]
            PROVE  \E p \in moved : p[2] = r
        <5>1. CASE r = e.to
          <6>1. PICK p \in S : p[1] = e.i
            BY <4>4
          <6>2. <<p[1], e.to>> \in moved
            BY <4>3, <6>1
          <6> QED
            BY <5>1, <6>2
        <5>2. CASE r # e.to
          <6>1. r # e.from /\ d \in s.listed[r]
            BY <2>2, <3>2, <4>5, <5>2
          <6>2. PICK p \in S : p[2] = r
            BY <4>1, <4>5, <6>1 DEF Named
          <6>3. p \in moved
            BY <4>3, <4>4, <6>1, <6>2
          <6> QED
            BY <6>2, <6>3
        <5> QED
          BY <5>1, <5>2
      <4> QED
        BY <4>1, <4>2, <4>5 DEF Named
    <3> QED
      BY <3>1, <3>2
  <2> QED
    BY <2>3, <2>4
<1> QED
  BY <1>3, <1>4, <1>5, <1>6, <1>7 DEF Kinds

----------------------------------------------------------------------------
Plugs(d) == {<<i, record[d][i]>> : i \in Connected(d)}

(* The events of a device on their way, and the one it is about to send,   *)
(* lead from what is published of it to its record.  A view stands for     *)
(* what will be published after each of them.                              *)
Views == [Nat -> SUBSET (Ifaces \X Routers)]

Reached(d, S) ==
    /\ doing[d].at = "idle" => S = Plugs(d)
    /\ doing[d].at # "idle" =>
         Foldable(S, doing[d].ev, d) /\ ToldOf(S, doing[d].ev, d) = Plugs(d)

Leads(d, v) ==
    /\ v[0] = shared.ifaces[d]
    /\ \A k \in 1..Len(queue) : /\ Foldable(v[k - 1], queue[k], d)
                                /\ v[k] = ToldOf(v[k - 1], queue[k], d)
    /\ Reached(d, v[Len(queue)])

Chained(d) == \E v \in Views : Leads(d, v)

FoldInv ==
    /\ lost \in BOOLEAN /\ lagging \in BOOLEAN
    /\ Listed(shared)
    /\ \A e \in Emitters : doing[e].at # "idle" => doing[e].ev.d = e
    /\ (~lost /\ ~lagging) => \A d \in Devices \ failed : Chained(d) /\ Named(shared, d)

LEMMA PlugsTyped ==
  ASSUME Typed, NEW d \in Devices
  PROVE  Plugs(d) \in SUBSET (Ifaces \X Routers)
  BY DEF Typed, Plugs, Connected

LEMMA FoldInit == Init => FoldInv
<1> SUFFICES ASSUME Init PROVE FoldInv
  OBVIOUS
<1>1. Listed(shared) /\ \A d \in Devices : shared.ifaces[d] = {}
  BY DEF Init, Listed
<1>2. \A e \in Emitters : doing[e].at = "idle"
  BY DEF Init
<1>3. ASSUME NEW d \in Devices PROVE Chained(d) /\ Named(shared, d)
  <2> DEFINE v == [k \in Nat |-> {}]
  <2>1. Plugs(d) = {}
    BY DEF Init, Plugs, Connected
  <2>2. queue = <<LabEv("created"), LabEv("ix")>>
    BY DEF Init
  <2>3. \A k \in 1..Len(queue) : queue[k].kind \in {"created", "ix"}
    BY <2>2 DEF LabEv, Ev
  <2>4. \A k \in 1..Len(queue) : /\ Foldable(v[k - 1], queue[k], d)
                                 /\ v[k] = ToldOf(v[k - 1], queue[k], d)
    <3> SUFFICES ASSUME NEW k \in 1..Len(queue)
                 PROVE Foldable({}, queue[k], d) /\ {} = ToldOf({}, queue[k], d)
      BY <2>2
    <3> QED
      BY <2>3 DEF Foldable, ToldOf, Told
  <2>5. v \in Views /\ v[0] = {} /\ v[Len(queue)] = {}
    BY <2>2 DEF Views
  <2> HIDE DEF v
  <2>6. doing[d].at = "idle"
    BY <1>2 DEF Emitters
  <2>7. Leads(d, v)
    BY <1>1, <2>1, <2>4, <2>5, <2>6 DEF Leads, Reached
  <2>8. Named(shared, d)
    BY DEF Init, Named
  <2> QED
    BY <2>5, <2>7, <2>8 DEF Chained
<1> QED
  BY <1>1, <1>2, <1>3 DEF FoldInv, Init

LEMMA CommitFolds ==
  ASSUME StatusInv, FoldInv, NEW d \in Devices, NEW i \in Ifaces, NEW r, NEW ev,
         Commit(d, i, r, ev), ev.d = d, Foldable(Plugs(d), ev, d),
         Told(Plugs(d), ev) = Plugs(d)'
  PROVE  FoldInv'
<1>1. /\ doing[d].at = "idle"
      /\ doing' = [doing EXCEPT ![d] = [at |-> "committed", ev |-> ev]]
      /\ record' = [record EXCEPT ![d][i] = r]
      /\ UNCHANGED <<queue, lagging, lost, shared, failed>>
  BY DEF Commit, channel
<1>2. /\ doing \in [Emitters -> [at : Stages, ev : Sendable]] /\ d \in Emitters
      /\ record \in [Devices -> [Ifaces -> Routers \cup {NoRouter}]]
  BY DEF StatusInv, Typed, Emitters
<1>3. doing'[d].at = "committed" /\ doing'[d].ev = ev
  BY <1>1, <1>2
<1>4. \A e \in Emitters \ {d} : doing'[e] = doing[e]
  BY <1>1, <1>2
<1>5. \A e \in Devices \ {d} : record'[e] = record[e]
  BY <1>1, <1>2
<1>6. \A e \in Devices \ {d} : Plugs(e)' = Plugs(e)
  BY <1>5 DEF Plugs, Connected
<1>7. \A e \in Emitters : doing'[e].at # "idle" => doing'[e].ev.d = e
  BY <1>3, <1>4 DEF FoldInv
<1>8. ASSUME ~lost', ~lagging', NEW e \in Devices \ failed' PROVE Chained(e)' /\ Named(shared, e)'
  <2>1. PICK v \in Views : Leads(e, v)
    BY <1>1, <1>8 DEF FoldInv, Chained
  <2>2. Reached(e, v[Len(queue)])'
    <3>1. CASE e = d
      BY <1>1, <1>3, <2>1, <3>1 DEF Leads, Reached, ToldOf
    <3>2. CASE e # d
      BY <1>1, <1>4, <1>6, <2>1, <3>2 DEF Leads, Reached, Emitters
    <3> QED
      BY <3>1, <3>2
  <2>3. Leads(e, v)'
    BY <1>1, <2>1, <2>2 DEF Leads
  <2>4. Named(shared, e)'
    BY <1>1, <1>8 DEF FoldInv, Named
  <2> QED
    BY <2>3, <2>4 DEF Chained
<1> QED
  BY <1>1, <1>7, <1>8 DEF FoldInv, Listed

LEMMA OperationFolds ==
  ASSUME StatusInv, FoldInv, NEW d \in Devices,
         Build(d) \/ AddIface(d) \/ RemoveIface(d) \/ Replug(d)
  PROVE  FoldInv'
<1>0. /\ record \in [Devices -> [Ifaces -> Routers \cup {NoRouter}]]
      /\ NoRouter \notin Routers
  BY EventsAssumption DEF StatusInv, Typed
<1>1. CASE Build(d)
  <2>1. PICK i \in Ifaces, r \in Routers : /\ Connected(d) = {}
                                           /\ Commit(d, i, r, Ev("device", d, i, NoRouter, r))
    BY <1>1, EventsAssumption DEF Build
  <2> DEFINE ev == Ev("device", d, i, NoRouter, r)
  <2>2. ev.kind = "device" /\ ev.d = d /\ ev.i = i /\ ev.to = r
    BY DEF Ev
  <2> HIDE DEF ev
  <2>3. Commit(d, i, r, ev)
    BY <2>1 DEF ev
  <2>4. record' = [record EXCEPT ![d][i] = r]
    BY <2>3 DEF Commit
  <2>5. Plugs(d)' = {<<i, r>>} /\ Plugs(d) = {}
    BY <1>0, <2>1, <2>4 DEF Plugs, Connected
  <2> QED
    BY <2>2, <2>3, <2>5, CommitFolds DEF Told, Foldable
<1>2. CASE AddIface(d)
  <2>1. PICK i \in Ifaces \ Connected(d), r \in Routers :
          /\ Connected(d) # {}
          /\ Commit(d, i, r, Ev("added", d, i, NoRouter, r))
    BY <1>2 DEF AddIface
  <2> DEFINE ev == Ev("added", d, i, NoRouter, r)
  <2>2. ev.kind = "added" /\ ev.d = d /\ ev.i = i /\ ev.to = r
    BY DEF Ev
  <2> HIDE DEF ev
  <2>3. Commit(d, i, r, ev)
    BY <2>1 DEF ev
  <2>4. record' = [record EXCEPT ![d][i] = r]
    BY <2>3 DEF Commit
  <2>5. Plugs(d)' = Plugs(d) \cup {<<i, r>>}
    BY <1>0, <2>1, <2>4 DEF Plugs, Connected
  <2>6. Plugs(d) # {}
    BY <2>1 DEF Plugs
  <2> QED
    BY <2>2, <2>3, <2>5, <2>6, CommitFolds DEF Told, Foldable
<1>3. CASE RemoveIface(d)
  <2>1. PICK i \in Connected(d) :
          Commit(d, i, NoRouter, Ev("removed", d, i, NoRouter, NoRouter))
    BY <1>3 DEF RemoveIface
  <2> DEFINE ev == Ev("removed", d, i, NoRouter, NoRouter)
  <2>2. ev.kind = "removed" /\ ev.d = d /\ ev.i = i
    BY DEF Ev
  <2> HIDE DEF ev
  <2>3. Commit(d, i, NoRouter, ev) /\ i \in Ifaces
    BY <2>1 DEF ev, Connected
  <2>4. record' = [record EXCEPT ![d][i] = NoRouter]
    BY <2>3 DEF Commit
  <2>5. Plugs(d)' = {p \in Plugs(d) : p[1] # i}
    BY <1>0, <2>3, <2>4 DEF Plugs, Connected
  <2> QED
    BY <2>2, <2>3, <2>5, CommitFolds DEF Told, Foldable
<1>4. CASE Replug(d)
  <2>1. PICK i \in Connected(d), r \in Routers :
          Commit(d, i, r, Ev("replugged", d, i, record[d][i], r))
    BY <1>4 DEF Replug
  <2> DEFINE ev == Ev("replugged", d, i, record[d][i], r)
  <2>2. ev.kind = "replugged" /\ ev.d = d /\ ev.i = i /\ ev.to = r /\ ev.from = record[d][i]
    BY DEF Ev
  <2> HIDE DEF ev
  <2>3. Commit(d, i, r, ev) /\ i \in Ifaces
    BY <2>1 DEF ev, Connected
  <2>4. record' = [record EXCEPT ![d][i] = r]
    BY <2>3 DEF Commit
  <2>5. Plugs(d)' = {IF p[1] = i THEN <<p[1], r>> ELSE p : p \in Plugs(d)}
    <3>1. Connected(d)' = Connected(d)
      BY <1>0, <2>1, <2>4 DEF Connected
    <3>2. \A j \in Ifaces : record'[d][j] = IF j = i THEN r ELSE record[d][j]
      BY <1>0, <2>3, <2>4
    <3> DEFINE Moved(p) == IF p[1] = i THEN <<p[1], r>> ELSE p
    <3>3. \A j \in Connected(d) : Moved(<<j, record[d][j]>>) = <<j, record'[d][j]>>
      BY <3>2 DEF Connected
    <3>4. Plugs(d)' = {<<j, record'[d][j]>> : j \in Connected(d)}
      BY <3>1 DEF Plugs
    <3>5. {Moved(p) : p \in Plugs(d)} = {Moved(<<j, record[d][j]>>) : j \in Connected(d)}
      <4> HIDE DEF Moved
      <4> QED
        BY DEF Plugs
    <3>6. {Moved(<<j, record[d][j]>>) : j \in Connected(d)}
            = {<<j, record'[d][j]>> : j \in Connected(d)}
      <4> HIDE DEF Moved
      <4> QED
        BY <3>3
    <3> QED
      BY <3>4, <3>5, <3>6
  <2>6. Foldable(Plugs(d), ev, d)
    <3>1. <<i, record[d][i]>> \in Plugs(d)
      BY <2>1 DEF Plugs
    <3>2. \A p \in Plugs(d) : p[1] = i => p[2] = record[d][i]
      BY DEF Plugs
    <3> QED
      BY <2>2, <3>1, <3>2 DEF Foldable
  <2> QED
    BY <2>2, <2>3, <2>5, <2>6, CommitFolds DEF Told
<1> QED
  BY <1>1, <1>2, <1>3, <1>4

(* A failed operation is not spoken for; the guard speaks of no device.    *)
LEMMA SilentFolds ==
  ASSUME StatusInv, FoldInv,
         UNCHANGED <<record, queue, lagging, lost>>, failed \subseteq failed',
         shared'.ifaces = shared.ifaces, shared'.listed = shared.listed, Listed(shared'),
         \A e \in Emitters : doing'[e].at # "idle" => doing'[e].ev.d = e,
         \A d \in Devices \ failed' : /\ (doing'[d].at = "idle") = (doing[d].at = "idle")
                                      /\ doing'[d].ev.d = doing[d].ev.d
                                      /\ doing'[d].ev.kind = doing[d].ev.kind
                                      /\ doing'[d].ev.i = doing[d].ev.i
                                      /\ doing'[d].ev.from = doing[d].ev.from
                                      /\ doing'[d].ev.to = doing[d].ev.to
  PROVE  FoldInv'
<1>1. ASSUME ~lost', ~lagging', NEW d \in Devices \ failed' PROVE Chained(d)' /\ Named(shared, d)'
  <2>1. PICK v \in Views : Leads(d, v)
    BY <1>1 DEF FoldInv, Chained
  <2>2. Plugs(d)' = Plugs(d)
    BY DEF Plugs, Connected
  <2>3. \A S : /\ Foldable(S, doing'[d].ev, d) = Foldable(S, doing[d].ev, d)
               /\ ToldOf(S, doing'[d].ev, d) = ToldOf(S, doing[d].ev, d)
    <3> DEFINE a == doing'[d].ev
               b == doing[d].ev
    <3>1. a.d = b.d /\ a.kind = b.kind /\ a.i = b.i /\ a.from = b.from /\ a.to = b.to
      BY <1>1
    <3> HIDE DEF a, b
    <3>2. ASSUME NEW S PROVE Told(S, a) = Told(S, b)
      BY <3>1 DEF Told
    <3>3. \A S : Foldable(S, a, d) = Foldable(S, b, d) /\ ToldOf(S, a, d) = ToldOf(S, b, d)
      BY <3>1, <3>2 DEF Foldable, ToldOf
    <3> QED
      BY <3>3 DEF a, b
  <2>4. Reached(d, v[Len(queue)])'
    BY <1>1, <2>1, <2>2, <2>3 DEF Leads, Reached
  <2>5. Leads(d, v)'
    BY <2>1, <2>4 DEF Leads
  <2>6. Named(shared, d)'
    BY <1>1 DEF FoldInv, Named
  <2> QED
    BY <2>5, <2>6 DEF Chained
<1> QED
  BY <1>1 DEF FoldInv

LEMMA HandFolds ==
  ASSUME StatusInv, FoldInv,
         CloseGuard \/ (\E d \in Devices : Fail(d))
  PROVE  FoldInv'
<1>0. /\ doing \in [Emitters -> [at : Stages, ev : Sendable]]
      /\ \A e \in Emitters : doing[e].at # "idle" => doing[e].ev.d = e
      /\ Listed(shared)
  BY DEF StatusInv, Typed, FoldInv
<1>1. CASE CloseGuard
  <2>1. PICK passed \in BOOLEAN :
          doing' = [doing EXCEPT ![Guard] =
                      [at |-> "committed", ev |-> [LabEv("completed") EXCEPT !.passed = passed]]]
    BY <1>1 DEF CloseGuard
  <2>2. UNCHANGED <<record, queue, lagging, lost, shared, failed>>
    BY <1>1 DEF CloseGuard, channel
  <2>3. Guard \in Emitters /\ \A d \in Devices : d \in Emitters /\ d # Guard
    BY EventsAssumption DEF Emitters
  <2>4. \A e \in Emitters \ {Guard} : doing'[e] = doing[e]
    BY <1>0, <2>1
  <2>5. doing'[Guard].ev.d = Guard
    BY <1>0, <2>1, <2>3 DEF LabEv, Ev
  <2> QED
    BY <1>0, <2>2, <2>3, <2>4, <2>5, SilentFolds
<1>2. ASSUME NEW d \in Devices, Fail(d) PROVE FoldInv'
  <2>1. /\ UNCHANGED <<record, queue, lagging, lost, shared>>
        /\ failed' = failed \cup {d}
        /\ doing' = [doing EXCEPT ![d] = [at |-> "idle", ev |-> Nothing]]
        /\ d \in Emitters
    BY <1>2 DEF Fail, channel, Emitters
  <2>2. doing'[d].at = "idle" /\ \A e \in Emitters \ {d} : doing'[e] = doing[e]
    BY <1>0, <2>1
  <2>3. \A e \in Devices \ failed' : e \in Emitters \ {d}
    BY <2>1 DEF Emitters
  <2> QED
    BY <1>0, <2>1, <2>2, <2>3, SilentFolds
<1> QED
  BY <1>1, <1>2

(* The event at the end of the channel carries its device to its record.   *)
LEMMA SendFolds ==
  ASSUME StatusInv, FoldInv, NEW e \in Emitters, Send(e)
  PROVE  FoldInv'
<1> DEFINE ev == doing[e].ev
<1>0. /\ doing \in [Emitters -> [at : Stages, ev : Sendable]]
      /\ record \in [Devices -> [Ifaces -> Routers \cup {NoRouter}]]
      /\ queue \in Seq(Sendable)
      /\ \A f \in Emitters : doing[f].at # "idle" => doing[f].ev.d = f
      /\ \A d \in Devices : d \in Emitters
  BY DEF StatusInv, Typed, FoldInv, Emitters
<1>1. /\ UNCHANGED <<record, lost, shared, failed>>
      /\ doing[e].at = "committed"
      /\ doing' = [doing EXCEPT ![e] = [at |-> "idle", ev |-> Nothing]]
      /\ lagging' \in {lagging, TRUE}
  BY DEF Send
<1>2. doing'[e].at = "idle" /\ \A f \in Emitters \ {e} : doing'[f] = doing[f]
  BY <1>0, <1>1
<1>3. ev.d = e
  BY <1>0, <1>1
<1>4. ASSUME ~lost', ~lagging', NEW d \in Devices \ failed' PROVE Chained(d)' /\ Named(shared, d)'
  <2>1. ~lost /\ ~lagging /\ queue' = Append(queue, ev)
    BY <1>1, <1>4 DEF Send, FoldInv
  <2>2. PICK v \in Views : Leads(d, v)
    BY <1>1, <1>4, <2>1 DEF FoldInv, Chained
  <2>0. PICK n, S, w : /\ n = Len(queue) /\ S = ToldOf(v[n], ev, d)
                       /\ w = [v EXCEPT ![n + 1] = S]
    OBVIOUS
  <2>3. /\ n \in Nat /\ Len(queue') = n + 1 /\ queue'[n + 1] = ev
        /\ \A k \in 1..n : queue'[k] = queue[k]
    BY <1>0, <2>0, <2>1
  <2>4. Plugs(d)' = Plugs(d)
    BY <1>1 DEF Plugs, Connected
  <2>5. v[0] = shared.ifaces[d] /\ Reached(d, v[n])
    BY <2>0, <2>2 DEF Leads
  <2>6. \A k \in 1..n : /\ Foldable(v[k - 1], queue[k], d)
                        /\ v[k] = ToldOf(v[k - 1], queue[k], d)
    BY <2>0, <2>2 DEF Leads
  <2>7. d = e => Foldable(v[n], ev, d) /\ S = Plugs(d)
    BY <1>1, <2>0, <2>5 DEF Reached
  <2>8. d # e => Foldable(v[n], ev, d) /\ S = v[n]
    BY <1>3, <2>0 DEF Foldable, ToldOf
  <2> HIDE DEF ev
  <2>9. w \in Views
    BY <2>0, <2>3, <2>7, <2>8, PlugsTyped DEF Views, StatusInv
  <2>10. w[n + 1] = S /\ \A k \in 0..n : w[k] = v[k]
    BY <2>0, <2>3 DEF Views
  <2>11. Reached(d, S)'
    <3>1. CASE d = e
      BY <1>2, <2>4, <2>7, <3>1 DEF Reached
    <3>2. CASE d # e
      <4>1. doing'[d] = doing[d]
        BY <1>0, <1>2, <1>4, <3>2
      <4> QED
        BY <2>4, <2>5, <2>8, <3>2, <4>1 DEF Reached
    <3> QED
      BY <3>1, <3>2
  <2>12. \A k \in 1..n + 1 : /\ Foldable(w[k - 1], queue'[k], d)
                             /\ w[k] = ToldOf(w[k - 1], queue'[k], d)
    <3>1. ASSUME NEW k \in 1..n
          PROVE  Foldable(w[k - 1], queue'[k], d) /\ w[k] = ToldOf(w[k - 1], queue'[k], d)
      <4>1. w[k - 1] = v[k - 1] /\ w[k] = v[k]
        BY <2>3, <2>10
      <4> QED
        BY <2>3, <2>6, <4>1
    <3>2. Foldable(w[n], ev, d) /\ w[n + 1] = ToldOf(w[n], ev, d)
      <4>1. w[n] = v[n]
        BY <2>3, <2>10
      <4> QED
        BY <2>0, <2>7, <2>8, <2>10, <4>1
    <3>3. (n + 1) - 1 = n /\ \A k \in 1..n + 1 : k \in 1..n \/ k = n + 1
      BY <2>3
    <3> QED
      BY <2>3, <3>1, <3>2, <3>3
  <2>13. w[0] = shared'.ifaces[d]
    BY <1>1, <2>3, <2>5, <2>10
  <2>14. Leads(d, w)'
    BY <2>3, <2>10, <2>11, <2>12, <2>13 DEF Leads
  <2>15. Named(shared, d)'
    BY <1>1, <1>4, <2>1 DEF FoldInv, Named
  <2> QED
    BY <2>9, <2>14, <2>15 DEF Chained
<1> QED
  BY <1>0, <1>1, <1>2, <1>4 DEF FoldInv

(* The writer folds the first event: every view but the first is still due. *)
LEMMA AppendFolds ==
  ASSUME StatusInv, FoldInv, AppendEvent, UNCHANGED emitters
  PROVE  FoldInv'
<1> DEFINE head == Head(queue)
<1>0. /\ UNCHANGED <<record, doing, failed, lagging, lost>>
      /\ queue # <<>> /\ queue' = Tail(queue) /\ ~lagging
      /\ shared' = Apply(shared, head)
      /\ queue \in Seq(Sendable)
      /\ Listed(shared)
  BY DEF AppendEvent, emitters, StatusInv, Typed, FoldInv
<1>1. /\ head = queue[1] /\ 1 \in 1..Len(queue) /\ head.kind \in Kinds
      /\ Len(queue') = Len(queue) - 1 /\ Len(queue') \in Nat
      /\ \A k \in 1..Len(queue') : k + 1 \in 1..Len(queue) /\ queue'[k] = queue[k + 1]
  <2>1. head \in Sendable /\ head = queue[1] /\ 1 \in 1..Len(queue)
    BY <1>0
  <2>2. Len(queue') = Len(queue) - 1 /\ Len(queue') \in Nat
    BY <1>0
  <2>3. \A k \in 1..Len(queue') : k + 1 \in 1..Len(queue) /\ queue'[k] = queue[k + 1]
    BY <1>0, <2>2
  <2> QED
    BY <2>1, <2>2, <2>3 DEF Sendable
<1> HIDE DEF head
<1>2. /\ Listed(shared')
      /\ \A d \in Devices : Foldable(shared.ifaces[d], head, d) =>
           /\ shared'.ifaces[d] = ToldOf(shared.ifaces[d], head, d)
           /\ Named(shared, d) => Named(shared', d)
  BY <1>0, <1>1, ApplyPlugs
<1>3. ASSUME ~lost', ~lagging', NEW d \in Devices \ failed' PROVE Chained(d)' /\ Named(shared, d)'
  <2>1. PICK v \in Views : Leads(d, v)
    BY <1>0, <1>3 DEF FoldInv, Chained
  <2>2. PICK w \in Views : \A k \in Nat : w[k] = v[k + 1]
    <3>1. [k \in Nat |-> v[k + 1]] \in Views
      BY DEF Views
    <3> QED
      BY <3>1
  <2>3. /\ v[0] = shared.ifaces[d]
        /\ \A k \in 1..Len(queue) : /\ Foldable(v[k - 1], queue[k], d)
                                    /\ v[k] = ToldOf(v[k - 1], queue[k], d)
        /\ Reached(d, v[Len(queue)])
    BY <2>1 DEF Leads
  <2>4. Foldable(v[0], head, d) /\ v[1] = ToldOf(v[0], head, d)
    <3>1. /\ Foldable(v[1 - 1], queue[1], d)
          /\ v[1] = ToldOf(v[1 - 1], queue[1], d)
      BY <1>1, <2>3
    <3> QED
      BY <1>1, <3>1
  <2>5. w[0] = shared'.ifaces[d]
    BY <1>2, <2>2, <2>3, <2>4
  <2>6. ASSUME NEW k \in 1..Len(queue')
        PROVE  Foldable(w[k - 1], queue'[k], d) /\ w[k] = ToldOf(w[k - 1], queue'[k], d)
    <3>1. k + 1 \in 1..Len(queue) /\ queue'[k] = queue[k + 1]
      BY <1>1
    <3>2. /\ Foldable(v[(k + 1) - 1], queue[k + 1], d)
          /\ v[k + 1] = ToldOf(v[(k + 1) - 1], queue[k + 1], d)
      BY <2>3, <3>1
    <3>3. (k + 1) - 1 = k /\ w[k] = v[k + 1] /\ w[k - 1] = v[k]
      <4>1. k \in Nat /\ k - 1 \in Nat /\ (k + 1) - 1 = k /\ (k - 1) + 1 = k
        BY <1>1
      <4> QED
        BY <2>2, <4>1
    <3> QED
      BY <3>1, <3>2, <3>3
  <2>7. Reached(d, w[Len(queue)])'
    <3>1. w[Len(queue')] = v[Len(queue)]
      BY <1>0, <1>1, <2>2
    <3>2. Plugs(d)' = Plugs(d)
      BY <1>0 DEF Plugs, Connected
    <3> QED
      BY <1>0, <2>3, <3>1, <3>2 DEF Reached
  <2>8. Leads(d, w)'
    BY <2>5, <2>6, <2>7 DEF Leads
  <2>9. Named(shared', d)
    BY <1>0, <1>2, <1>3, <2>3, <2>4 DEF FoldInv
  <2> QED
    BY <2>8, <2>9 DEF Chained, Named
<1> QED
  BY <1>0, <1>2, <1>3 DEF FoldInv

(* A step that moves no event: it may lose some, and it may set the status. *)
LEMMA StillFolds ==
  ASSUME StatusInv, FoldInv, UNCHANGED <<emitters, queue, lagging>>, lost' = lost,
         shared'.ifaces = shared.ifaces, shared'.listed = shared.listed, Listed(shared')
  PROVE  FoldInv'
  BY SilentFolds DEF emitters, FoldInv

LEMMA LoseFolds ==
  ASSUME FoldInv, UNCHANGED <<emitters, queue, shared>>,
         lost' \in BOOLEAN, lagging' \in BOOLEAN, (~lost' /\ ~lagging') => ~lost /\ ~lagging
  PROVE  FoldInv'
<1>1. UNCHANGED <<record, doing, failed, queue, shared>>
  BY DEF emitters
<1>2. ASSUME ~lost', ~lagging', NEW d \in Devices \ failed' PROVE Chained(d)' /\ Named(shared, d)'
  <2>1. PICK v \in Views : Leads(d, v)
    BY <1>1, <1>2 DEF FoldInv, Chained
  <2>2. Leads(d, v)'
    BY <1>1, <2>1 DEF Leads, Reached, Plugs, Connected
  <2>3. Named(shared, d)'
    BY <1>1, <1>2 DEF FoldInv, Named
  <2> QED
    BY <2>2, <2>3 DEF Chained
<1> QED
  BY <1>1, <1>2 DEF FoldInv, Listed

(* An event that cannot be appended is missed.                             *)
LEMMA MissFolds ==
  ASSUME FoldInv, AppendFails, UNCHANGED emitters
  PROVE  FoldInv'
  BY DEF FoldInv, AppendFails, emitters, Listed

LEMMA FoldStep == StatusInv /\ FoldInv /\ [Next]_vars => FoldInv'
<1> SUFFICES ASSUME StatusInv, FoldInv, [Next]_vars PROVE FoldInv'
  OBVIOUS
<1>1. ASSUME NEW d \in Devices, Build(d) \/ AddIface(d) \/ RemoveIface(d) \/ Replug(d)
      PROVE FoldInv'
  BY <1>1, OperationFolds
<1>2. CASE CloseGuard \/ (\E d \in Devices : Fail(d))
  BY <1>2, HandFolds
<1>3. ASSUME NEW e \in Emitters, Send(e) PROVE FoldInv'
  BY <1>3, SendFolds
<1>4. CASE Recv \/ Drain
  BY <1>4, AppendFolds, MissFolds DEF Recv, Drain
<1>5. CASE RecvLagged \/ EndDrain
  <2>1. UNCHANGED <<emitters, queue, shared>> /\ lost' \in BOOLEAN /\ lagging' \in BOOLEAN
    BY <1>5 DEF RecvLagged, EndDrain, FoldInv
  <2>2. (~lost' /\ ~lagging') => ~lost /\ ~lagging
    BY <1>5 DEF RecvLagged, EndDrain
  <2> QED
    BY <2>1, <2>2, LoseFolds
<1>6. CASE UNCHANGED <<emitters, channel, shared>>
  BY <1>6, LoseFolds DEF channel, FoldInv
<1>7. CASE \/ Start \/ Flush \/ WriteState \/ Cancelled \/ Closed \/ FinalFlush \/ FinalState
           \/ Abort \/ Cancel
  BY <1>6, <1>7 DEF Start, Flush, WriteState, Cancelled, Closed, FinalFlush, FinalState,
                    Abort, Cancel
<1>8. CASE WriteFinalState
  <2>1. UNCHANGED <<emitters, channel>> /\ shared' = [shared EXCEPT !.status = FinalStatus]
    BY <1>8 DEF WriteFinalState
  <2>2. shared'.ifaces = shared.ifaces /\ shared'.listed = shared.listed /\ Listed(shared')
    BY <2>1 DEF FoldInv, Listed
  <2> QED
    BY <2>1, <2>2, StillFolds DEF channel
<1>9. CASE UNCHANGED vars
  BY <1>6, <1>9 DEF vars
<1> QED
  BY <1>1, <1>2, <1>3, <1>4, <1>5, <1>7, <1>8, <1>9 DEF Next, Writer

(* What the writer publishes of a device is what the core has recorded,    *)
(* once the events of the device's operations are folded: none is folded   *)
(* out of order or twice, and none is missing unless the writer missed it. *)
(* The lists of the routers claim no interface it does not have.           *)
THEOREM PublishedAsRecorded == Spec => []PublishedMatches
<1>1. FoldInv => PublishedMatches
  <2> SUFFICES ASSUME FoldInv, queue = <<>>, ~lost, ~lagging,
                      NEW d \in Devices \ failed, doing[d].at = "idle"
               PROVE  /\ shared.ifaces[d] = Plugs(d)
                      /\ \A r \in Routers : d \in shared.listed[r] =>
                           \E i \in Ifaces : record[d][i] = r
    BY DEF PublishedMatches, Plugs
  <2>1. PICK v \in Views : Leads(d, v)
    BY DEF FoldInv, Chained
  <2>2. Len(queue) = 0
    OBVIOUS
  <2>3. shared.ifaces[d] = Plugs(d)
    BY <2>1, <2>2 DEF Leads, Reached
  <2>4. \A p \in Plugs(d) : \E i \in Ifaces : p[2] = record[d][i]
    BY DEF Plugs, Connected
  <2> QED
    BY <2>3, <2>4 DEF FoldInv, Named
<1>2. Init => StatusInv /\ FoldInv
  BY StatusInit, FoldInit
<1>3. StatusInv /\ FoldInv /\ [Next]_vars => StatusInv' /\ FoldInv'
  BY StatusStep, FoldStep
<1> QED
  BY <1>1, <1>2, <1>3, PTL DEF Spec
============================================================================
