---------------------------- MODULE RunnerProofs ----------------------------
(***************************************************************************)
(* The two modules of the runner, each about its own variables.            *)
(*                                                                         *)
(* The step loop (SimSteps), for any simulations, deadline and timeouts:   *)
(* commands start after what they require, results are collected once and  *)
(* are final, and nothing is left running by a script whose author was     *)
(* careful.                                                                *)
(*                                                                         *)
(* The runs (SimRuns), for any files, runners and directory names: no two  *)
(* simulations share a directory, results are combined before a manifest   *)
(* names them, and the verdict is the one the outcomes deserve; and, for   *)
(* any simulation, the lab is the one its file describes and its steps     *)
(* find in that lab what they name.                                        *)
(***************************************************************************)
EXTENDS SimSteps, SimRuns, SequenceTheorems, FiniteSetTheorems, TLAPS

----------------------------------------------------------------------------
(* The step loop. *)
Value == [by : Nat, stream : Streams, n : Nat]
Process == [st : {"none", "running", "ended"}, ok : BOOLEAN, open : BOOLEAN, parsed : BOOLEAN,
            printed : [Streams -> Nat], read : [Streams -> Nat]]
Result == [id : Ids, by : Nat, value : Value]
InStep == {"requires", "refs", "exec", "sleep", "child", "join"}

(* The loop is at a step of the script, and every table has its shape.      *)
LoopTyped ==
    /\ script \in Seq(Step)
    /\ pc \in Nat \ {0}
    /\ phase \in InStep \cup {"next", "closing", "done"}
    /\ phase \in InStep => pc \in Steps
    /\ keys \in Seq(Ids)
TablesTyped ==
    /\ proc \in [Steps -> Process]
    /\ store \in [Ids -> Seq(Value)]
    /\ spawned \in [Ids -> Nat]
    /\ pending \subseteq Ids
    /\ results \in Seq(Result)
Typed == LoopTyped /\ TablesTyped

LEMMA EveryStep ==
    ASSUME LoopTyped
    PROVE  \A p \in Steps : p \in Nat /\ script[p] \in Step /\ script[p].id \in Ids
                           /\ script[p].requires \in Seq(Ids) /\ script[p].refs \in Seq(Ids)
<1>1. \A p \in Steps : p \in Nat /\ script[p] \in Step
    BY DEF LoopTyped, Steps
<1>2. \A r \in Step : r.id \in Ids /\ r.requires \in Seq(Ids) /\ r.refs \in Seq(Ids)
    BY DEF Step
<1> QED
    BY <1>1, <1>2

(* One more line printed or read.                                           *)
LEMMA OneLine ==
    ASSUME TablesTyped, NEW p \in Steps, NEW s \in Streams
    PROVE  /\ [proc EXCEPT ![p].printed[s] = @ + 1] \in [Steps -> Process]
           /\ [proc EXCEPT ![p].read[s] = @ + 1] \in [Steps -> Process]
<1>1. proc[p] \in Process
    BY DEF TablesTyped
<1> DEFINE printed == [proc[p].printed EXCEPT ![s] = @ + 1]
           read == [proc[p].read EXCEPT ![s] = @ + 1]
<1>2. printed \in [Streams -> Nat] /\ read \in [Streams -> Nat]
    BY <1>1 DEF Process
<1>3. [proc[p] EXCEPT !.printed = printed] \in Process /\ [proc[p] EXCEPT !.read = read] \in Process
    <2> HIDE DEF printed, read
    <2> QED
        BY <1>1, <1>2 DEF Process
<1>4. /\ [proc EXCEPT ![p] = [proc[p] EXCEPT !.printed = printed]] \in [Steps -> Process]
      /\ [proc EXCEPT ![p] = [proc[p] EXCEPT !.read = read]] \in [Steps -> Process]
    <2> HIDE DEF printed, read
    <2> QED
        BY <1>3 DEF TablesTyped
<1> QED
    BY <1>4

(* A process starts, exits, is killed, has its document parsed, or what it  *)
(* left behind gives its pipes up.                                          *)
LEMMA OneEvent ==
    ASSUME NEW r \in Process, NEW b \in BOOLEAN
    PROVE  /\ [r EXCEPT !.st = "running", !.open = b] \in Process
           /\ [r EXCEPT !.open = FALSE] \in Process
           /\ [r EXCEPT !.st = "ended"] \in Process
           /\ [r EXCEPT !.st = "ended", !.ok = b] \in Process
           /\ [r EXCEPT !.parsed = TRUE] \in Process
BY DEF Process

LEMMA AppendNotEmpty == \A q \in Seq(Value), v \in Value : Append(q, v) # <<>>
<1> SUFFICES ASSUME NEW q \in Seq(Value), NEW v \in Value PROVE Append(q, v) # <<>>
    OBVIOUS
<1> QED
    BY AppendProperties, Zenon

LEMMA Append1 ==
    ASSUME TablesTyped, NEW i \in Ids, NEW v \in Value, Recorded(i, v)
    PROVE  /\ store' \in [Ids -> Seq(Value)]
           /\ \A k \in Ids : store'[k] = IF k = i THEN Append(store[k], v) ELSE store[k]
BY DEF Recorded, TablesTyped

LEMMA LoopTypedStep == Typed /\ [Next]_vars => LoopTyped'
<1> SUFFICES ASSUME Typed, [Next]_vars PROVE LoopTyped'
    OBVIOUS
<1> USE DEF Typed, LoopTyped, InStep, step, Steps, Fail, Advance, Goto
<1> step \in Step \/ phase \notin InStep
    OBVIOUS
<1>1. CASE BeginStep
    <2>1. pc \in Steps
        BY <1>1 DEF BeginStep
    <2>2. script[pc] \in Step
        BY <2>1
    <2>3. step.requires \in Seq(Ids)
        BY <2>2 DEF Step
    <2> QED
        BY <1>1, <2>1, <2>3 DEF BeginStep
<1>2. CASE Block \/ TimedOut \/ Start \/ Wait \/ Wake \/ WaitFor \/ ChildExited \/
           WaitForTimedOut \/ Join \/ AssertLatest \/ Gen \/ LabStep \/ EndOfScript \/ Close
    BY <1>2 DEF Block, TimedOut, Start, Wait, Wake, WaitFor, ChildExited,
       WaitForTimedOut, Join, AssertLatest, Gen, LabStep, EndOfScript, Close
<1>3. CASE Found
    BY <1>3 DEF Found, Waiting
<1>4. CASE Resolve
    BY <1>4 DEF Resolve, Step
<1>5. CASE UNCHANGED loop
    BY <1>5 DEF loop
<1> QED
    BY <1>1, <1>2, <1>3, <1>4, <1>5 DEF Next, Loop, vars, Kill, Tick, Reader, Child,
       ReadDocument, ReadLine, Output, Exit, Release

LEMMA TablesTypedStep == Typed /\ [Next]_vars => TablesTyped'
<1> SUFFICES ASSUME Typed, [Next]_vars PROVE TablesTyped'
    OBVIOUS
<1> USE DEF Typed, LoopTyped, TablesTyped, InStep, step, Steps
<1>1. phase \in InStep => step \in Step
    OBVIOUS
<1>2. CASE BeginStep \/ Block \/ Found \/ TimedOut \/ Resolve \/ Wait \/ WaitFor \/ ChildExited \/
           WaitForTimedOut \/ AssertLatest \/ LabStep \/ EndOfScript \/ Close \/ Tick \/ UNCHANGED vars
    BY <1>2 DEF BeginStep, Block, Found, TimedOut, Resolve, Wait, WaitFor,
       ChildExited,
       WaitForTimedOut, AssertLatest, LabStep, EndOfScript, Close, Tick, vars, loop, data, Fail, Advance, Goto
<1>3. CASE Start
    <2>1. proc' = [proc EXCEPT ![pc].st = "running", ![pc].open = (step.left # "nothing")]
          /\ script' = script /\ UNCHANGED <<data, store>>
        BY <1>3 DEF Start, Fail, Goto
    <2>2. PICK b \in BOOLEAN : b = (step.left # "nothing")
        OBVIOUS
    <2>3. proc' = [proc EXCEPT ![pc] = [proc[pc] EXCEPT !.st = "running", !.open = b]]
        BY <2>1, <2>2
    <2>4. pc \in Steps => proc[pc] \in Process
        OBVIOUS
    <2>5. proc' \in [Steps -> Process]
        BY <2>3, <2>4, OneEvent
    <2> QED
        BY <2>1, <2>5 DEF data
<1>4. CASE Wake
    <2>1. step.id \in Ids /\ pc \in Nat
        BY <1>4, <1>1 DEF Wake, Step
    <2> QED
        BY <1>4, <2>1 DEF Wake, Advance
<1>5. CASE Join
    <2>1. /\ script' = script /\ proc' = proc /\ store' = store /\ spawned' = spawned
          /\ pending' \subseteq pending
          /\ results' = results \/ results' = Collected(step.id)
        BY <1>5 DEF Join, Fail, Advance, data
    <2>2. step.id \in Ids
        BY <1>1, <1>5 DEF Join, Step
    <2>3. Awaited \in Nat
        BY <2>2 DEF Awaited
    <2>4. store[step.id] # <<>> => store[step.id][Len(store[step.id])] \in Value
        BY <2>2
    <2>5. Collected(step.id) \in Seq(Result)
        <3>1. CASE store[step.id] = <<>>
            BY <3>1 DEF Collected
        <3>2. CASE store[step.id] # <<>>
            <4>1. [id |-> step.id, by |-> Awaited, value |-> store[step.id][Len(store[step.id])]] \in Result
                BY <2>2, <2>3, <2>4, <3>2 DEF Result
            <4> QED
                BY <3>2, <4>1 DEF Collected
        <3> QED
            BY <3>1, <3>2
    <2> QED
        BY <2>1, <2>5
<1>6. CASE Gen
    <2>1. step.id \in Ids
        BY <1>1, <1>6 DEF Gen, Step
    <2>2. [by |-> pc, stream |-> "out", n |-> 1] \in Value
        BY DEF Value, Streams
    <2>3. store' \in [Ids -> Seq(Value)]
        BY <1>6, <2>1, <2>2 DEF Gen, Recorded
    <2> QED
        BY <1>6, <2>3 DEF Gen, data, Advance
<1>7. CASE Kill
    <2>1. proc' = [p \in Steps |-> IF p \in InTable /\ proc[p].st = "running"
                                  THEN [proc[p] EXCEPT !.st = "ended"] ELSE proc[p]]
          /\ UNCHANGED <<script, data, store>>
        BY <1>7 DEF Kill, loop
    <2>2. proc' \in [Steps -> Process]
        BY <2>1, OneEvent
    <2> QED
        BY <2>1, <2>2 DEF data
<1>8. ASSUME NEW p \in Steps, Reader(p) PROVE TablesTyped'
    <2>1. script[p].id \in Ids
        BY EveryStep
    <2>2. CASE ReadDocument(p)
        <3>1. [by |-> p, stream |-> "out", n |-> 1] \in Value
            BY DEF Value, Streams
        <3>2. store' \in [Ids -> Seq(Value)]
            BY <2>1, <2>2, <3>1, Append1 DEF ReadDocument
        <3>3. proc' \in [Steps -> Process]
            BY <2>2, OneEvent DEF ReadDocument
        <3> QED
            BY <2>2, <3>2, <3>3 DEF ReadDocument, data, loop
    <2>3. ASSUME NEW s \in Streams, ReadLine(p, s) PROVE TablesTyped'
        <3>1. [by |-> p, stream |-> s, n |-> proc[p].read[s] + 1] \in Value
            BY DEF Value, Process
        <3>2. store' \in [Ids -> Seq(Value)]
            BY <2>1, <2>3, <3>1, Append1 DEF ReadLine
        <3>3. proc' \in [Steps -> Process]
            BY <2>3, OneLine DEF ReadLine
        <3> QED
            BY <2>3, <3>2, <3>3 DEF ReadLine, data, loop
    <2> QED
        BY <1>8, <2>2, <2>3 DEF Reader
<1>9. ASSUME NEW p \in Steps, Child(p) PROVE TablesTyped'
    <2>1. ASSUME NEW s \in Streams, Output(p, s) PROVE proc' \in [Steps -> Process]
        BY <2>1, OneLine DEF Output
    <2>2. ASSUME NEW b \in BOOLEAN, Exit(p, b) PROVE proc' \in [Steps -> Process]
        BY <2>2, OneEvent DEF Exit
    <2>3. ASSUME Release(p) PROVE proc' \in [Steps -> Process]
        BY <2>3, OneEvent DEF Release
    <2>4. UNCHANGED <<script, data, store>>
        BY <1>9 DEF Child, Output, Exit, Release, loop
    <2> QED
        BY <1>9, <2>1, <2>2, <2>3, <2>4 DEF Child, data
<1> QED
    BY <1>2, <1>3, <1>4, <1>5, <1>6, <1>7, <1>8, <1>9 DEF Next, Loop

LEMMA TypedInit == Init => Typed
BY SimAssumption DEF Init, Typed, LoopTyped, TablesTyped, InStep, Steps,
   NoProcess, Process, Streams

LEMMA TypedAlways == Spec => []Typed
BY TypedInit, LoopTypedStep, TablesTypedStep, PTL DEF Spec, Typed

----------------------------------------------------------------------------
(* Captures a step needs have been recorded or are still waited for.        *)
RecordedAll(q) == \A k \in 1..Len(q) : store[q[k]] # <<>>
Waited(q) == \A k \in 1..Len(q) : store[q[k]] # <<>> \/ \E j \in 1..Len(keys) : keys[j] = q[k]
KeysInv ==
    /\ phase = "requires" => Waited(step.requires)
    /\ phase \in {"refs", "exec"} => RecordedAll(step.requires)
    /\ phase = "refs" => Waited(step.refs)
    /\ phase = "exec" => RecordedAll(step.refs)

(* What is recorded stays.                                                  *)
LEMMA StoreGrows ==
    ASSUME Typed, [Next]_vars
    PROVE  \A i \in Ids : store[i] # <<>> => store'[i] # <<>>
<1> USE DEF Typed, LoopTyped, TablesTyped
<1>1. ASSUME NEW i \in Ids, NEW v \in Value, Recorded(i, v)
      PROVE  \A k \in Ids : store[k] # <<>> => store'[k] # <<>>
    <2>1. \A k \in Ids : store[k] \in Seq(Value)
        OBVIOUS
    <2>2. \A q \in Seq(Value) : Append(q, v) # <<>>
        BY <1>1, AppendNotEmpty
    <2> QED
        BY <1>1, <2>1, <2>2, Append1
<1>2. CASE Gen
    <2>1. step.id \in Ids
        BY <1>2, EveryStep DEF Gen, InStep, step
    <2> QED
        BY <1>1, <1>2, <2>1 DEF Gen, Value, Streams
<1>3. ASSUME NEW p \in Steps, Reader(p) PROVE \A i \in Ids : store[i] # <<>> => store'[i] # <<>>
    <2>1. script[p].id \in Ids
        BY EveryStep
    <2>2. p \in Nat
        BY DEF Steps
    <2>3. CASE ReadDocument(p)
        BY <1>1, <2>1, <2>2, <2>3 DEF ReadDocument, Value, Streams
    <2>4. ASSUME NEW s \in Streams, ReadLine(p, s) PROVE \A i \in Ids : store[i] # <<>> => store'[i] # <<>>
        <3>1. [by |-> p, stream |-> s, n |-> proc[p].read[s] + 1] \in Value
            BY <2>2 DEF Value, Process
        <3> QED
            BY <1>1, <2>1, <2>4, <3>1 DEF ReadLine
    <2> QED
        BY <1>3, <2>3, <2>4 DEF Reader
<1>4. CASE UNCHANGED store
    BY <1>4
<1> QED
    BY <1>2, <1>3, <1>4 DEF Next, Loop, vars, BeginStep, Block, Found, TimedOut,
       Resolve, Start, Wait,
       Wake, WaitFor, ChildExited, WaitForTimedOut, Join, AssertLatest, LabStep, EndOfScript, Kill, Close,
       Tick, Child, Output, Exit, Release

(* The answer for the key at the head was there.                            *)
LEMMA WaitedStep ==
    ASSUME NEW q \in Seq(Ids), Waited(q), keys \in Seq(Ids), keys # <<>>, keys' = Tail(keys),
           store[Head(keys)] # <<>>, store' = store
    PROVE  \A k \in 1..Len(q) : store'[q[k]] # <<>> \/ \E j \in 1..Len(keys') : keys'[j] = q[k]
<1> SUFFICES ASSUME NEW k \in 1..Len(q), store[q[k]] = <<>>
             PROVE  \E j \in 1..Len(keys') : keys'[j] = q[k]
    OBVIOUS
<1>1. PICK j \in 1..Len(keys) : keys[j] = q[k]
    BY DEF Waited
<1>2. j # 1
    BY <1>1
<1>3. j - 1 \in 1..Len(keys') /\ keys'[j - 1] = keys[j]
    BY <1>1, <1>2
<1> QED
    BY <1>1, <1>3

LEMMA KeysStep == Typed /\ Typed' /\ KeysInv /\ [Next]_vars => KeysInv'
<1> SUFFICES ASSUME Typed, Typed', KeysInv, [Next]_vars PROVE KeysInv'
    OBVIOUS
<1>1. \A i \in Ids : store[i] # <<>> => store'[i] # <<>>
    BY StoreGrows
<1>2. phase \in InStep => step.requires \in Seq(Ids) /\ step.refs \in Seq(Ids)
    BY EveryStep DEF Typed, LoopTyped, step
<1>3. CASE BeginStep
    BY <1>3 DEF BeginStep, KeysInv, Waited, step, Fail
<1>4. CASE Found
    <2>1. keys \in Seq(Ids) /\ keys # <<>> /\ keys' = Tail(keys) /\ store[Head(keys)] # <<>>
          /\ phase' = phase /\ phase \in {"requires", "refs"} /\ store' = store /\ step' = step
        BY <1>4 DEF Found, Waiting, Typed, LoopTyped, step
    <2>2. step.requires \in Seq(Ids) /\ step.refs \in Seq(Ids)
        BY <1>2, <2>1 DEF InStep
    <2>3. CASE phase = "requires"
        <3>1. \A k \in 1..Len(step.requires) : store'[step.requires[k]] # <<>>
                 \/ \E j \in 1..Len(keys') : keys'[j] = step.requires[k]
            BY <2>1, <2>2, <2>3, WaitedStep DEF KeysInv
        <3> QED
            BY <2>1, <2>3, <3>1 DEF KeysInv, Waited
    <2>4. CASE phase = "refs"
        <3>1. \A k \in 1..Len(step.refs) : store'[step.refs[k]] # <<>>
                 \/ \E j \in 1..Len(keys') : keys'[j] = step.refs[k]
            BY <2>1, <2>2, <2>4, WaitedStep DEF KeysInv
        <3> QED
            BY <2>1, <2>4, <3>1 DEF KeysInv, Waited, RecordedAll
    <2> QED
        BY <2>1, <2>3, <2>4
<1>5. CASE Resolve
    <2>1. keys = <<>> /\ phase \in {"requires", "refs"} /\ script' = script /\ pc' = pc /\ store' = store
          /\ step' = step /\ (phase = "requires" => phase' = "refs" /\ keys' = step.refs)
          /\ (phase = "refs" => phase' = "exec")
        BY <1>5 DEF Resolve, step
    <2>2. step.requires \in Seq(Ids) /\ step.refs \in Seq(Ids)
        BY <1>2, <2>1 DEF InStep
    <2> QED
        BY <2>1, <2>2 DEF KeysInv, Waited, RecordedAll
<1>6. CASE TimedOut \/ Start \/ Wait \/ Wake \/ WaitFor \/ ChildExited \/ WaitForTimedOut \/ Join
           \/ AssertLatest \/ Gen \/ LabStep \/ EndOfScript \/ Close
    <2>1. phase' \notin {"requires", "refs", "exec"}
        BY <1>6 DEF TimedOut, Start, Wait, Wake, WaitFor, ChildExited,
           WaitForTimedOut, Join,
           AssertLatest, Gen, LabStep, EndOfScript, Close, Fail, Advance, Goto
    <2> QED
        BY <2>1 DEF KeysInv
<1>7. CASE UNCHANGED <<script, pc, phase, keys>>
    <2>1. step' = step /\ phase' = phase /\ keys' = keys
        BY <1>7 DEF step
    <2>2. phase \in InStep => \A q \in {step.requires, step.refs} : \A k \in 1..Len(q) : q[k] \in Ids
        BY <1>2
    <2> QED
        BY <1>1, <2>1, <2>2 DEF KeysInv, Waited, RecordedAll, InStep
<1> QED
    BY <1>3, <1>4, <1>5, <1>6, <1>7 DEF Next, Loop, vars, loop, Block, Kill, Tick,
       Reader, Child,
       ReadDocument, ReadLine, Output, Exit, Release

(* A command starts only when every capture it requires and every one it    *)
(* refers to has been recorded (steps.rs:93-174, 577-679), for any          *)
(* simulations and timeouts.                                                *)
THEOREM RequiredFirst == Spec => StartsAfterRequired
<1>1. Init => KeysInv
    BY DEF Init, KeysInv
<1>2. Typed /\ KeysInv /\ [Next]_vars =>
        [\A p \in Steps : proc[p].st = "none" /\ proc'[p].st = "running" =>
             /\ \A k \in 1..Len(script[p].requires) : store[script[p].requires[k]] # <<>>
             /\ \A k \in 1..Len(script[p].refs) : store[script[p].refs[k]] # <<>>]_vars
    <2> SUFFICES ASSUME Typed, KeysInv, Next, NEW p \in Steps,
                        proc[p].st = "none", proc'[p].st = "running"
                 PROVE  /\ \A k \in 1..Len(script[p].requires) : store[script[p].requires[k]] # <<>>
                        /\ \A k \in 1..Len(script[p].refs) : store[script[p].refs[k]] # <<>>
        BY DEF vars
    <2> USE DEF Typed, TablesTyped
    <2>1. ASSUME NEW q \in Steps, Reader(q) \/ Child(q) PROVE FALSE
        <3>1. CASE Reader(q)
            BY <3>1 DEF Reader, ReadDocument, ReadLine, Process
        <3>2. CASE Child(q)
            <4>1. ASSUME NEW s \in Streams, Output(q, s) PROVE FALSE
                BY <4>1 DEF Output, Process
            <4>2. ASSUME NEW b \in BOOLEAN, Exit(q, b) PROVE FALSE
                BY <4>2 DEF Exit, Process
            <4>3. CASE Release(q)
                BY <4>3 DEF Release, Process
            <4> QED
                BY <3>2, <4>1, <4>2, <4>3 DEF Child
        <3> QED
            BY <2>1, <3>1, <3>2
    <2>2. Start
        BY <2>1 DEF Next, Loop, BeginStep, Block, Found, TimedOut, Resolve, Wait,
           Wake, WaitFor,
           ChildExited, WaitForTimedOut, Join, AssertLatest, Gen, LabStep, EndOfScript, Kill, Close, Tick
    <2>3. p = pc
        BY <2>2 DEF Start
    <2> QED
        BY <2>2, <2>3 DEF Start, KeysInv, RecordedAll, step
<1> QED
    BY <1>1, <1>2, TypedAlways, KeysStep, PTL DEF Spec, StartsAfterRequired

----------------------------------------------------------------------------
(* Which processes there are, and which of them the table and the loop know. *)
Begun == {"sleep", "child", "join", "closing", "done"}
StartedInv == \A p \in Steps : proc[p].st # "none" =>
    /\ script[p].kind \in {"run", "spawn"}
    /\ p < pc \/ (p = pc /\ phase \in Begun)
SilentInv == \A p \in Steps : proc[p].st = "none" =>
    ~proc[p].open /\ \A s \in Streams : proc[p].printed[s] = 0
TableInv == \A i \in Ids : spawned[i] # 0 =>
    /\ spawned[i] \in Steps /\ spawned[i] < pc
    /\ script[spawned[i]].id = i /\ script[spawned[i]].kind = "spawn"
WaitInv ==
    /\ phase = "sleep" => step.kind \in {"wait", "spawn"}
    /\ phase \in {"child", "join"} =>
           step.kind = "run" \/ (step.kind = "wait-for" /\ spawned[step.id] # 0)
    /\ phase = "join" => proc[Awaited].st = "ended"
PlaceInv == StartedInv /\ SilentInv /\ TableInv /\ WaitInv

(* A process that was started never starts again, one that has ended does   *)
(* not run again, and none prints before it starts.                         *)
Onward ==
    /\ \A p \in Steps : proc[p].st # "none" => proc'[p].st # "none"
    /\ \A p \in Steps : proc'[p].st # "none" => proc[p].st # "none" \/ (Start /\ p = pc)
    /\ \A p \in Steps : proc'[p].st = "running" => proc[p].st = "running" \/ (Start /\ p = pc)
    /\ \A p \in Steps : proc[p].st = "ended" /\ ~(Start /\ p = pc) => proc'[p].st = "ended"
    /\ \A p \in Steps : proc'[p].st = "none" /\ ~proc[p].open =>
           ~proc'[p].open /\ proc'[p].printed = proc[p].printed

LEMMA OnwardStep == ASSUME Typed, [Next]_vars PROVE Onward
<1> USE DEF Typed, TablesTyped
<1>1. CASE UNCHANGED proc
    BY <1>1 DEF Onward
<1>2. CASE Start
    <2>1. proc' = [proc EXCEPT ![pc].st = "running", ![pc].open = (step.left # "nothing")]
        BY <1>2 DEF Start
    <2>2. \A p \in Steps : /\ p # pc => proc'[p] = proc[p]
                           /\ p = pc => proc'[p].st = "running"
        BY <2>1 DEF Process
    <2> QED
        BY <1>2, <2>2 DEF Onward
<1>3. CASE Kill
    BY <1>3 DEF Kill, Onward, Process
<1>4. ASSUME NEW q \in Steps, Reader(q) PROVE Onward
    <2>1. \A p \in Steps : proc'[p].st = proc[p].st /\ proc'[p].printed = proc[p].printed
                          /\ proc'[p].open = proc[p].open
        <3>1. CASE ReadDocument(q)
            BY <3>1 DEF ReadDocument, Process
        <3>2. ASSUME NEW s \in Streams, ReadLine(q, s)
              PROVE  \A p \in Steps : proc'[p].st = proc[p].st /\ proc'[p].printed = proc[p].printed
                                /\ proc'[p].open = proc[p].open
            <4>1. proc' = [proc EXCEPT ![q] = [proc[q] EXCEPT !.read = [proc[q].read EXCEPT ![s] = @ + 1]]]
                BY <3>2 DEF ReadLine
            <4> QED
                BY <4>1 DEF Process
        <3> QED
            BY <1>4, <3>1, <3>2 DEF Reader
    <2> QED
        BY <2>1 DEF Onward
<1>5. ASSUME NEW q \in Steps, Child(q) PROVE Onward
    <2>1. ASSUME NEW s \in Streams, Output(q, s) PROVE Onward
        BY <2>1 DEF Output, Onward, Process
    <2>2. ASSUME NEW b \in BOOLEAN, Exit(q, b) PROVE Onward
        BY <2>2 DEF Exit, Onward, Process
    <2>3. CASE Release(q)
        BY <2>3 DEF Release, Onward, Process
    <2> QED
        BY <1>5, <2>1, <2>2, <2>3 DEF Child
<1> QED
    BY <1>1, <1>2, <1>3, <1>4, <1>5 DEF Next, Loop, vars, BeginStep, Block, Found,
       TimedOut, Resolve,
       Wait, Wake, WaitFor, ChildExited, WaitForTimedOut, Join, AssertLatest, Gen, LabStep, EndOfScript,
       Close, Tick

(* How the loop moves.                                                      *)
Moves ==
    /\ script' = script
    /\ pc' = pc \/ (pc' = pc + 1 /\ phase' = "next")
    /\ phase \in Begun => phase' \in Begun \/ pc' = pc + 1
    /\ Start => pc' = pc /\ phase' \in Begun
    /\ spawned' = spawned \/ (Wake /\ step.kind = "spawn")
    /\ phase' = "sleep" => pc' = pc /\ (phase = "sleep" \/ Start \/ Wait)
    /\ phase' \in {"child", "join"} => pc' = pc /\ (phase \in {"child", "join"} \/ Start \/ WaitFor)
    /\ phase' = "join" => phase = "join" \/ ChildExited

LEMMA MovesStep == ASSUME Typed, [Next]_vars PROVE Moves
<1> USE DEF Begun, Fail, Advance, Goto, data
<1>1. CASE Start
    BY <1>1 DEF Start, Moves
<1>2. CASE BeginStep \/ Block \/ Found \/ TimedOut \/ Resolve \/ Wait
    BY <1>2 DEF BeginStep, Block, Found, TimedOut, Resolve, Wait, Moves, Start
<1>3. CASE Wake \/ WaitFor \/ ChildExited \/ WaitForTimedOut \/ Join
    BY <1>3 DEF Wake, WaitFor, ChildExited, WaitForTimedOut, Join, Moves, Start
<1>4. CASE AssertLatest \/ Gen \/ LabStep \/ EndOfScript \/ Close
    BY <1>4 DEF AssertLatest, Gen, LabStep, EndOfScript, Close, Moves, Start
<1>5. CASE UNCHANGED <<loop, data>> /\ ~Start
    BY <1>5 DEF loop, Moves
<1> QED
    BY <1>1, <1>2, <1>3, <1>4, <1>5 DEF Next, Loop, vars, Kill, Tick, Reader,
       Child, ReadDocument,
       ReadLine, Output, Exit, Release

LEMMA PlaceInit == Init => PlaceInv
BY DEF Init, PlaceInv, StartedInv, SilentInv, TableInv, WaitInv, NoProcess, Steps

LEMMA PlaceStep == Typed /\ Typed' /\ PlaceInv /\ [Next]_vars => PlaceInv'
<1> SUFFICES ASSUME Typed, Typed', PlaceInv, [Next]_vars PROVE PlaceInv'
    OBVIOUS
<1> USE DEF PlaceInv
<1>1. Moves /\ Onward
    BY OnwardStep, MovesStep
<1>2. script' = script /\ Steps' = Steps
    BY <1>1 DEF Moves, Steps
<1>3. pc \in Nat /\ \A p \in Steps : p \in Nat /\ script[p].id \in Ids
    BY EveryStep DEF Typed, LoopTyped
<1>4. StartedInv'
    <2>1. Start => step.kind \in {"run", "spawn"}
        BY DEF Start
    <2> QED
        BY <1>1, <1>2, <1>3, <2>1 DEF Moves, Onward, StartedInv, step
<1>5. SilentInv'
    BY <1>1, <1>2 DEF Onward, SilentInv
<1>6. TableInv'
    <2>1. CASE spawned' = spawned
        BY <1>1, <1>2, <1>3, <2>1 DEF Moves, TableInv
    <2>2. CASE Wake /\ step.kind = "spawn"
        <3>1. pc \in Steps /\ pc' = pc + 1 /\ spawned' = [spawned EXCEPT ![step.id] = pc]
            BY <2>2 DEF Wake, Advance, Typed, LoopTyped, InStep
        <3>2. \A i \in Ids : spawned'[i] = IF i = step.id THEN pc ELSE spawned[i]
            BY <3>1 DEF Typed, TablesTyped
        <3> QED
            <4>1. ASSUME NEW i \in Ids, spawned'[i] # 0, i = step.id
                  PROVE  /\ spawned'[i] \in Steps' /\ spawned'[i] < pc'
                         /\ script'[spawned'[i]].id = i /\ script'[spawned'[i]].kind = "spawn"
                BY <1>2, <1>3, <2>2, <3>1, <3>2, <4>1 DEF step
            <4>2. ASSUME NEW i \in Ids, spawned'[i] # 0, i # step.id
                  PROVE  /\ spawned'[i] \in Steps' /\ spawned'[i] < pc'
                         /\ script'[spawned'[i]].id = i /\ script'[spawned'[i]].kind = "spawn"
                <5>1. spawned'[i] = spawned[i] /\ spawned[i] # 0
                    BY <3>2, <4>2
                <5>2. /\ spawned[i] \in Steps /\ spawned[i] < pc
                      /\ script[spawned[i]].id = i /\ script[spawned[i]].kind = "spawn"
                    BY <5>1 DEF TableInv
                <5>3. spawned[i] < pc + 1
                    BY <1>3, <5>2
                <5>4. spawned'[i] \in Steps'
                    BY <1>2, <5>1, <5>2
                <5>5. spawned'[i] < pc'
                    BY <3>1, <5>1, <5>3
                <5>6. script'[spawned'[i]].id = i
                    BY <1>2, <5>1, <5>2
                <5>7. script'[spawned'[i]].kind = "spawn"
                    BY <1>2, <5>1, <5>2
                <5> QED
                    BY <5>4, <5>5, <5>6, <5>7
            <4> QED
                BY <4>1, <4>2 DEF TableInv
    <2> QED
        BY <1>1, <2>1, <2>2 DEF Moves
<1>7. WaitInv'
    <2>1. phase' = "sleep" => step'.kind \in {"wait", "spawn"}
        BY <1>1, <1>2 DEF Moves, WaitInv, Start, Wait, Goto, Fail, step
    <2>2. phase' \in {"child", "join"} => spawned' = spawned /\ step' = step /\ Awaited' = Awaited
        BY <1>1, <1>2 DEF Moves, Wake, Advance, step, Awaited
    <2>3. phase' \in {"child", "join"} =>
             step.kind = "run" \/ (step.kind = "wait-for" /\ spawned[step.id] # 0)
        BY <1>1 DEF Moves, WaitInv, Start, WaitFor, Goto, Fail, Advance
    <2>4. phase' = "join" => proc'[Awaited].st = "ended"
        <3> SUFFICES ASSUME phase' = "join" PROVE proc'[Awaited].st = "ended"
            OBVIOUS
        <3>1. phase = "join" \/ ChildExited
            BY <1>1 DEF Moves
        <3>2. proc[Awaited].st = "ended" /\ phase \in {"child", "join"}
            BY <3>1 DEF WaitInv, ChildExited
        <3>3. Awaited \in Steps /\ ~Start
            BY <1>3, <3>2 DEF WaitInv, TableInv, Awaited, Start, Typed, LoopTyped,
               InStep, step
        <3> QED
            BY <1>1, <3>2, <3>3 DEF Onward
    <2> QED
        BY <2>1, <2>2, <2>3, <2>4 DEF WaitInv
<1> QED
    BY <1>4, <1>5, <1>6, <1>7

----------------------------------------------------------------------------
(* Results: of commands that are behind, and none of what is still to be    *)
(* collected.                                                               *)
OnceInv ==
    /\ \A k \in 1..Len(results) : results[k].by < pc
    /\ \A i \in pending : spawned[i] # 0 /\ \A k \in 1..Len(results) : results[k].by # spawned[i]
    /\ ResultsOnce

LEMMA OnceStep == Typed /\ PlaceInv /\ OnceInv /\ [Next]_vars => OnceInv'
<1> SUFFICES ASSUME Typed, PlaceInv, OnceInv, [Next]_vars PROVE OnceInv'
    OBVIOUS
<1>1. Moves
    BY MovesStep
<1>2. pc \in Nat /\ results \in Seq(Result) /\ \A k \in 1..Len(results) : results[k].by \in Nat
    <2>1. \A r \in Result : r.by \in Nat
        BY DEF Result
    <2>2. \A k \in 1..Len(results) : results[k] \in Result
        BY DEF Typed, TablesTyped
    <2> QED
        BY <2>1, <2>2 DEF Typed, LoopTyped, TablesTyped
<1>3. CASE results' = results /\ spawned' = spawned /\ pending' \subseteq pending
    BY <1>1, <1>2, <1>3 DEF OnceInv, ResultsOnce, Moves
<1>4. CASE Wake /\ step.kind = "spawn"
    <2>1. /\ pc' = pc + 1 /\ results' = results /\ pending' \subseteq pending \cup {step.id}
          /\ spawned' = [spawned EXCEPT ![step.id] = pc] /\ pc # 0
        BY <1>4 DEF Wake, Advance, Typed, LoopTyped
    <2>2. \A i \in Ids : spawned'[i] = IF i = step.id THEN pc ELSE spawned[i]
        BY <2>1 DEF Typed, TablesTyped
    <2>3. pending' \subseteq Ids
        BY <1>4, <2>1, EveryStep DEF Wake, Typed, LoopTyped, TablesTyped, InStep,
           step
    <2> QED
        BY <1>2, <2>1, <2>2, <2>3 DEF OnceInv, ResultsOnce
<1>5. CASE Join
    <2>1. step.id \in Ids /\ pc \in Steps /\ (step.kind # "run" => step.kind = "wait-for" /\ spawned[step.id] # 0)
        BY <1>5, EveryStep DEF Join, PlaceInv, WaitInv, Typed, LoopTyped, InStep,
           step
    <2>2. CASE UNCHANGED results
        BY <1>3, <1>5, <2>2 DEF Join, data
    <2>3. CASE results' # results
        <3> DEFINE new == [id |-> step.id, by |-> Awaited, value |-> store[step.id][Len(store[step.id])]]
        <3>1. /\ results' = Append(results, new) /\ pc' = pc + 1 /\ ToCollect /\ spawned' = spawned
              /\ pending' = IF step.kind = "run" THEN pending ELSE pending \ {step.id}
            BY <1>5, <2>3 DEF Join, Fail, Advance, data, Collected
        <3>2. new.by = Awaited
            OBVIOUS
        <3> HIDE DEF new
        <3>3. /\ Len(results') = Len(results) + 1 /\ results'[Len(results) + 1] = new
              /\ \A k \in 1..Len(results) : results'[k] = results[k]
            BY <1>2, <3>1
        <3>4. Awaited \in Nat /\ Awaited < pc + 1 /\ \A k \in 1..Len(results) : results[k].by # Awaited
            <4>1. CASE step.kind = "run"
                BY <1>2, <4>1 DEF Awaited, OnceInv
            <4>2. CASE step.kind # "run"
                <5>1. step.id \in pending /\ Awaited = spawned[step.id]
                    BY <3>1, <4>2 DEF Awaited, ToCollect
                <5>2. Awaited \in Nat /\ Awaited < pc
                    BY <2>1, <4>2, <5>1 DEF PlaceInv, TableInv, Typed, TablesTyped
                <5>. QED  BY <1>2, <5>1, <5>2 DEF OnceInv
            <4>. QED  BY <4>1, <4>2
        <3>5. \A i \in pending' : i \in pending /\ spawned[i] # Awaited
            <4> SUFFICES ASSUME NEW i \in pending' PROVE i \in pending /\ spawned[i] # Awaited
                OBVIOUS
            <4>1. i \in pending /\ i \in Ids /\ spawned[i] # 0
                BY <3>1 DEF OnceInv, Typed, TablesTyped
            <4>2. spawned[i] < pc /\ script[spawned[i]].id = i /\ spawned[i] \in Nat
                BY <4>1 DEF PlaceInv, TableInv, Typed, TablesTyped
            <4>3. CASE step.kind = "run"
                BY <1>2, <4>1, <4>2, <4>3 DEF Awaited
            <4>4. CASE step.kind # "run"
                <5>1. i # step.id
                    BY <3>1, <4>4
                <5>2. script[spawned[step.id]].id = step.id
                    BY <2>1, <4>4 DEF PlaceInv, TableInv
                <5> QED
                    BY <4>1, <4>2, <4>4, <5>1, <5>2 DEF Awaited
            <4> QED
                BY <4>3, <4>4
        <3>6. Len(results) \in Nat
            BY <1>2
        <3>7. \A k \in 1..Len(results') :
                 IF k = Len(results) + 1 THEN results'[k].by = Awaited
                 ELSE k \in 1..Len(results) /\ results'[k] = results[k]
            BY <3>2, <3>3, <3>6
        <3>8. ResultsOnce'
            BY <3>4, <3>7 DEF OnceInv, ResultsOnce
        <3>9. \A k \in 1..Len(results') : results'[k].by < pc + 1
            BY <1>2, <3>4, <3>7 DEF OnceInv
        <3>10. \A i \in pending' : spawned[i] # 0 /\ \A k \in 1..Len(results') : results'[k].by # spawned[i]
            BY <3>5, <3>7 DEF OnceInv
        <3> QED
            BY <3>1, <3>8, <3>9, <3>10 DEF OnceInv
    <2> QED
        BY <2>2, <2>3
<1> QED
    BY <1>3, <1>4, <1>5 DEF Next, Loop, vars, data, BeginStep, Block, Found,
       TimedOut, Resolve, Start,
       Wait, Wake, WaitFor, ChildExited, WaitForTimedOut, AssertLatest, Gen, LabStep, EndOfScript, Kill,
       Close, Tick, Reader, Child, ReadDocument, ReadLine, Output, Exit, Release

LEMMA OnceAlways == Spec => [](Typed /\ PlaceInv /\ OnceInv)
<1>1. Init => OnceInv
    BY DEF Init, OnceInv, ResultsOnce
<1> QED
    BY <1>1, TypedAlways, PlaceInit, PlaceStep, OnceStep, PTL DEF Spec

(* One run of a command yields one result, however often its id is waited   *)
(* for or spawned again (steps.rs:345-386), for any simulations.            *)
THEOREM CollectedOnce == Spec => []ResultsOnce
BY OnceAlways, PTL DEF OnceInv

----------------------------------------------------------------------------
(* Scripts whose author was careful: no two steps capture under one id, and *)
(* every ready_after parses.                                                *)
Writers == {"run", "spawn", "gen"}
Careful(s) ==
    /\ \A p, q \in DOMAIN s :
           s[p].kind \in Writers /\ s[q].kind \in Writers /\ s[p].id = s[q].id => p = q
    /\ \A p \in DOMAIN s : s[p].kind = "spawn" => s[p].sleep # NoParse

(* A process that runs is in the table, or the loop is at its step.         *)
LeftInv ==
    /\ \A p \in Steps : proc[p].st = "running" =>
           \/ \E i \in Ids : spawned[i] = p
           \/ p = pc /\ phase = "sleep" /\ step.kind = "spawn"
           \/ p = pc /\ phase = "child" /\ step.kind = "run"
    /\ NothingLeftRunning

LEMMA LeftStep == Careful(script) /\ Typed /\ PlaceInv /\ LeftInv /\ [Next]_vars => LeftInv'
<1> SUFFICES ASSUME Careful(script), Typed, PlaceInv, LeftInv, [Next]_vars PROVE LeftInv'
    OBVIOUS
<1>1. Moves /\ Onward
    BY OnwardStep, MovesStep
<1>2. script' = script /\ Steps' = Steps /\ pc \in Nat /\ pc # 0
    BY <1>1 DEF Moves, Steps, Typed, LoopTyped
<1>3. \A p \in Steps : p \in Nat /\ p # 0 /\ script[p].id \in Ids
    BY EveryStep DEF Typed, LoopTyped, Steps
<1>4. ASSUME NEW i \in Ids, spawned[i] # 0 PROVE spawned'[i] = spawned[i]
    <2>1. CASE spawned' = spawned
        BY <2>1
    <2>2. CASE Wake /\ step.kind = "spawn"
        <3>1. spawned' = [spawned EXCEPT ![step.id] = pc] /\ pc \in Steps
            BY <2>2 DEF Wake, Typed, LoopTyped, InStep
        <3>2. i # step.id
            BY <1>2, <1>3, <1>4, <2>2, <3>1 DEF PlaceInv, TableInv, Careful,
               Writers, Steps, step
        <3> QED
            BY <3>1, <3>2 DEF Typed, TablesTyped
    <2> QED
        BY <1>1, <2>1, <2>2 DEF Moves
<1>5. ASSUME NEW p \in Steps, proc'[p].st = "running"
      PROVE  \/ \E i \in Ids : spawned'[i] = p
             \/ p = pc' /\ phase' = "sleep" /\ step'.kind = "spawn"
             \/ p = pc' /\ phase' = "child" /\ step'.kind = "run"
    <2>1. CASE Start /\ p = pc
        <3>1. step.kind \in {"run", "spawn"} /\ (step.kind = "spawn" => step.sleep # NoParse)
            BY <2>1 DEF Start, Careful, Steps, step
        <3> QED
            BY <1>2, <2>1, <3>1 DEF Start, Goto, step
    <2>2. CASE proc[p].st = "running" /\ \E i \in Ids : spawned[i] = p
        BY <1>3, <1>4, <2>2
    <2>3. CASE proc[p].st = "running" /\ p = pc /\ phase = "sleep" /\ step.kind = "spawn"
        <3>1. CASE Wake
            <4>1. spawned' = [spawned EXCEPT ![step.id] = pc] /\ step.id \in Ids
                BY <1>3, <2>3, <3>1 DEF Wake, step
            <4> QED
                BY <2>3, <4>1 DEF Typed, TablesTyped
        <3>2. CASE ~Wake
            <4>1. UNCHANGED <<phase, pc>>
                BY <2>3, <3>2 DEF Next, Loop, vars, loop, BeginStep, Block, Found,
                   TimedOut, Waiting, Resolve,
                   Start, Wait, WaitFor, ChildExited, WaitForTimedOut, Join, AssertLatest, Gen, LabStep,
                   EndOfScript, Kill, Close, Tick, Reader, Child, ReadDocument, ReadLine, Output, Exit, Release
            <4> QED
                BY <1>2, <2>3, <4>1 DEF step
        <3> QED
            BY <3>1, <3>2
    <2>4. CASE proc[p].st = "running" /\ p = pc /\ phase = "child" /\ step.kind = "run"
        <3>1. ~ChildExited /\ ~WaitForTimedOut
            BY <2>4 DEF ChildExited, WaitForTimedOut, Awaited
        <3>2. UNCHANGED <<phase, pc>>
            BY <2>4, <3>1 DEF Next, Loop, vars, loop, BeginStep, Block, Found,
               TimedOut, Waiting, Resolve,
               Start, Wait, Wake, WaitFor, Join, AssertLatest, Gen, LabStep,
               EndOfScript, Kill, Close, Tick, Reader, Child, ReadDocument, ReadLine, Output, Exit, Release
        <3> QED
            BY <1>2, <2>4, <3>2 DEF step
    <2> QED
        BY <1>1, <1>5, <2>1, <2>2, <2>3, <2>4 DEF Onward, LeftInv
<1>6. NothingLeftRunning'
    <2> SUFFICES ASSUME phase' = "done", NEW p \in Steps, proc'[p].st = "running" PROVE FALSE
        BY <1>2 DEF NothingLeftRunning
    <2>1. proc[p].st = "running" /\ ~Start
        BY <1>1 DEF Onward, Start, Goto, Fail
    <2>2. phase # "done"
        BY <2>1 DEF LeftInv, NothingLeftRunning
    <2>3. Close
        BY <2>2 DEF Next, Loop, vars, loop, BeginStep, Block, Found, TimedOut,
           Resolve, Start, Wait, Wake,
           WaitFor, ChildExited, WaitForTimedOut, Join, AssertLatest, Gen, LabStep, EndOfScript, Kill, Tick,
           Reader, Child, ReadDocument, ReadLine, Output, Exit, Release, Fail, Advance, Goto
    <2>4. p \in InTable
        BY <1>3, <2>1, <2>3 DEF LeftInv, Close, InTable
    <2> QED
        BY <2>1, <2>3, <2>4 DEF Close, Drained
<1> QED
    BY <1>2, <1>5, <1>6 DEF LeftInv

(* A script does not change.                                                *)
LEMMA CarefulAlways ==
    ASSUME \A s \in Scripts : Careful(s)
    PROVE  Spec => []Careful(script)
<1>1. Init => Careful(script)
    BY DEF Init
<1>2. Typed /\ Careful(script) /\ [Next]_vars => Careful(script)'
    BY MovesStep DEF Moves
<1> QED
    BY <1>1, <1>2, TypedAlways, PTL DEF Spec

(* When the simulation is over no process it started is running             *)
(* (steps.rs:300-343, sim/mod.rs), however it ended: only a spawn whose     *)
(* ready_after does not parse, or whose id is used again, is lost.          *)
THEOREM NothingLeft ==
    ASSUME \A s \in Scripts : Careful(s)
    PROVE  Spec => []NothingLeftRunning
<1>1. Init => LeftInv
    BY DEF Init, LeftInv, NothingLeftRunning, NoProcess, Steps
<1>2. LeftInv => NothingLeftRunning
    BY DEF LeftInv
<1> QED
    BY <1>1, <1>2, CarefulAlways, OnceAlways, LeftStep, PTL DEF Spec

----------------------------------------------------------------------------
(* The command of a result has ended, all it printed has been read, and     *)
(* nothing else is captured under its id.                                   *)
FinalInv == \A k \in 1..Len(results) :
    LET b == results[k].by IN
    /\ b \in Steps /\ b < pc /\ script[b].kind \in {"run", "spawn"}
    /\ script[b].id = results[k].id
    /\ proc[b].st = "ended" /\ Drained(b)
    /\ results[k].value = store[results[k].id][Len(store[results[k].id])]

LEMMA CommandStays ==
    ASSUME Careful(script), Typed, PlaceInv, [Next]_vars,
           NEW b \in Steps, b < pc, script[b].kind \in {"run", "spawn"},
           proc[b].st = "ended", Drained(b)
    PROVE  proc'[b].st = "ended" /\ Drained(b)' /\ store'[script[b].id] = store[script[b].id]
<1>0. script' = script /\ Steps' = Steps
    BY MovesStep DEF Moves, Steps
<1>1. \A p \in Steps : p \in Nat /\ script[p].id \in Ids
    BY EveryStep DEF Typed, LoopTyped
<1>2. \A p \in Steps : p # b /\ script[p].kind \in Writers => script[p].id # script[b].id
    BY DEF Careful, Writers, Steps
<1>3. \A p \in Steps : proc[p].st # "none" => script[p].kind \in Writers
    BY DEF PlaceInv, StartedInv, Writers
<1>4. pc \in Nat
    BY DEF Typed, LoopTyped
<1>5. ASSUME Start PROVE proc'[b] = proc[b] /\ store'[script[b].id] = store[script[b].id]
    BY <1>1, <1>4, <1>5 DEF Start, Typed, TablesTyped
<1>6. ASSUME Gen PROVE proc'[b] = proc[b] /\ store'[script[b].id] = store[script[b].id]
    <2>1. /\ script[pc].kind = "gen" /\ pc \in Steps
          /\ store' = [store EXCEPT ![script[pc].id] =
                            Append(@, [by |-> pc, stream |-> "out", n |-> 1])]
        BY <1>6 DEF Gen, Recorded, step, Typed, LoopTyped, InStep
    <2>2. script[pc].id # script[b].id
        BY <1>1, <1>2, <1>4, <2>1 DEF Writers
    <2> QED
        BY <1>1, <1>6, <2>1, <2>2 DEF Gen, Typed, TablesTyped
<1>7. ASSUME Kill PROVE proc'[b] = proc[b] /\ store'[script[b].id] = store[script[b].id]
    BY <1>7 DEF Kill, Typed, TablesTyped
<1>8. ASSUME NEW p \in Steps, ReadDocument(p)
      PROVE  proc'[b] = proc[b] /\ store'[script[b].id] = store[script[b].id]
    <2>1. p # b
        BY <1>8 DEF ReadDocument, Drained
    <2>2. script[p].id # script[b].id
        BY <1>2, <1>3, <1>8, <2>1 DEF ReadDocument
    <2> QED
        BY <1>1, <1>8, <2>1, <2>2 DEF ReadDocument, Recorded, Typed, TablesTyped
<1>9. ASSUME NEW p \in Steps, NEW s \in Streams, ReadLine(p, s)
      PROVE  proc'[b] = proc[b] /\ store'[script[b].id] = store[script[b].id]
    <2>1. proc[p].read[s] \in Nat /\ proc[p].printed[s] \in Nat /\ proc[p].read[s] < proc[p].printed[s]
        BY <1>9 DEF ReadLine, Typed, TablesTyped, Process
    <2>2. p # b
        BY <1>9, <2>1 DEF ReadLine, Drained
    <2>3. proc[p].st # "none"
        BY <2>1 DEF PlaceInv, SilentInv
    <2>4. script[p].id # script[b].id
        BY <1>2, <1>3, <2>2, <2>3
    <2> QED
        BY <1>1, <1>9, <2>2, <2>4 DEF ReadLine, Recorded, Typed, TablesTyped
<1>10. ASSUME NEW p \in Steps, Child(p), p # b
       PROVE  proc'[b] = proc[b] /\ store'[script[b].id] = store[script[b].id]
    BY <1>10 DEF Child, Output, Exit, Release, Typed, TablesTyped
<1>11. ASSUME UNCHANGED <<proc, store>> PROVE proc'[b] = proc[b] /\ store'[script[b].id] = store[script[b].id]
    BY <1>11
<1>12. (proc'[b] = proc[b]) => proc'[b].st = "ended" /\ Drained(b)'
    BY <1>0 DEF Drained, Piped, Forwarded
<1>13. ASSUME Child(b) PROVE proc'[b].st = "ended" /\ Drained(b)' /\ store'[script[b].id] = store[script[b].id]
    <2>1. store' = store /\ proc[b] \in Process
        BY <1>13 DEF Child, Output, Exit, Release, Typed, TablesTyped
    <2>2. ~Piped(b) /\ proc[b].open
        BY <1>13 DEF Child, Output, Exit, Release, Drained
    <2>3. \A s \in Streams : ~Forwarded(b, s)
        BY <2>2 DEF Piped, Forwarded
    <2>4. proc'[b].st = "ended"
        <3>1. ASSUME NEW s \in Streams, Output(b, s) PROVE proc'[b].st = "ended"
            BY <2>1, <3>1 DEF Output, Process, Typed, TablesTyped
        <3>2. CASE Release(b)
            BY <2>1, <3>2 DEF Release, Process, Typed, TablesTyped
        <3> QED
            BY <1>13, <3>1, <3>2 DEF Child, Exit
    <2> QED
        BY <1>0, <2>1, <2>2, <2>3, <2>4 DEF Drained, Piped, Forwarded
<1> QED
    BY <1>5, <1>6, <1>7, <1>8, <1>9, <1>10, <1>11, <1>12, <1>13 DEF Next, Loop, Reader, vars,
       BeginStep, Block, Found,
       TimedOut, Resolve, Wait, Wake, WaitFor, ChildExited, WaitForTimedOut, Join, AssertLatest, LabStep,
       EndOfScript, Close, Tick

LEMMA FinalStep == Careful(script) /\ Typed /\ PlaceInv /\ FinalInv /\ [Next]_vars => FinalInv'
<1> SUFFICES ASSUME Careful(script), Typed, PlaceInv, FinalInv, [Next]_vars PROVE FinalInv'
    OBVIOUS
<1>1. Moves
    BY MovesStep
<1>2. script' = script /\ Steps' = Steps /\ pc \in Nat /\ results \in Seq(Result)
    BY <1>1 DEF Moves, Steps, Typed, LoopTyped, TablesTyped
<1>3. \A p \in Steps : p \in Nat /\ script[p].id \in Ids
    BY EveryStep DEF Typed, LoopTyped
<1> DEFINE Final(b, i, v) ==
              /\ b \in Steps /\ b < pc /\ script[b].kind \in {"run", "spawn"} /\ script[b].id = i
              /\ proc[b].st = "ended" /\ Drained(b) /\ v = store[i][Len(store[i])]
<1>4. \A k \in 1..Len(results) : Final(results[k].by, results[k].id, results[k].value)
    BY DEF FinalInv
<1>5. ASSUME NEW b, NEW i, NEW v, b \in Steps, b < pc \/ (b = pc /\ pc' = pc + 1 /\ UNCHANGED <<proc, store>>),
             script[b].kind \in {"run", "spawn"}, script[b].id = i,
             proc[b].st = "ended", Drained(b), v = store[i][Len(store[i])]
      PROVE  Final(b, i, v)'
    <2>1. proc'[b].st = "ended" /\ Drained(b)' /\ store'[i] = store[i]
        <3>1. CASE b < pc
            BY <1>3, <1>5, <3>1, CommandStays
        <3>2. CASE b = pc /\ UNCHANGED <<proc, store>>
            BY <1>2, <1>5, <3>2 DEF Drained, Piped, Forwarded
        <3> QED
            BY <1>5, <3>1, <3>2
    <2>2. b < pc'
        BY <1>1, <1>2, <1>3, <1>5 DEF Moves
    <2> QED
        BY <1>2, <1>5, <2>1, <2>2
<1>6. CASE results' = results
    <2>1. ASSUME NEW k \in 1..Len(results')
          PROVE  \E b, i, v :
                     /\ results'[k].by = b /\ results'[k].id = i /\ results'[k].value = v
                     /\ Final(b, i, v)'
        <3>1. PICK b, i, v : results[k].by = b /\ results[k].id = i /\ results[k].value = v
            OBVIOUS
        <3>2. Final(b, i, v)
            BY <1>4, <1>6, <2>1, <3>1
        <3>3. Final(b, i, v)'
            BY <1>5, <3>2
        <3> QED
            BY <1>6, <3>1, <3>3
    <2> QED
        BY <2>1 DEF FinalInv
<1>7. CASE Join /\ results' # results
    <2>1. step.id \in Ids /\ pc \in Steps /\ (step.kind # "run" => step.kind = "wait-for" /\ spawned[step.id] # 0)
        BY <1>3, <1>7 DEF Join, PlaceInv, WaitInv, Typed, LoopTyped, InStep, step
    <2> DEFINE new == [id |-> step.id, by |-> Awaited, value |-> store[step.id][Len(store[step.id])]]
    <2>2. /\ results' = Append(results, new) /\ pc' = pc + 1 /\ UNCHANGED <<proc, store>>
        BY <1>7 DEF Join, Fail, Advance, data, Collected
    <2>3. new.by = Awaited /\ new.id = step.id /\ new.value = store[step.id][Len(store[step.id])]
        OBVIOUS
    <2> HIDE DEF new
    <2>4. /\ Awaited \in Steps /\ (Awaited < pc \/ Awaited = pc) /\ script[Awaited].kind \in {"run", "spawn"}
          /\ script[Awaited].id = step.id /\ proc[Awaited].st = "ended" /\ Drained(Awaited)
        BY <1>7, <2>1 DEF Awaited, PlaceInv, TableInv, WaitInv, Join, step
    <2>5. \E b, i, v : new.by = b /\ new.id = i /\ new.value = v /\ Final(b, i, v)'
        <3>1. PICK b, i, v : Awaited = b /\ step.id = i /\ new.value = v
            OBVIOUS
        <3>2. Final(b, i, v)'
            BY <1>5, <2>2, <2>3, <2>4, <3>1
        <3> QED
            BY <2>3, <3>1, <3>2
    <2>6. \A k \in 1..Len(results') : results'[k] = new \/ (k \in 1..Len(results) /\ results'[k] = results[k])
        BY <1>2, <2>2
    <2>7. ASSUME NEW k \in 1..Len(results')
          PROVE  \E b, i, v :
                     /\ results'[k].by = b /\ results'[k].id = i /\ results'[k].value = v
                     /\ Final(b, i, v)'
        <3>1. CASE results'[k] = new
            BY <2>5, <3>1
        <3>2. CASE k \in 1..Len(results) /\ results'[k] = results[k]
            <4>1. PICK b, i, v : results[k].by = b /\ results[k].id = i /\ results[k].value = v
                OBVIOUS
            <4>2. Final(b, i, v)
                BY <1>4, <3>2, <4>1
            <4>3. Final(b, i, v)'
                BY <1>5, <4>2
            <4> QED
                BY <3>2, <4>1, <4>3
        <3> QED
            BY <2>6, <3>1, <3>2
    <2> QED
        BY <2>7 DEF FinalInv
<1> QED
    BY <1>6, <1>7 DEF Next, Loop, vars, data, BeginStep, Block, Found, TimedOut,
       Resolve, Start,
       Wait, Wake, WaitFor, ChildExited, WaitForTimedOut, AssertLatest, Gen, LabStep, EndOfScript, Kill,
       Close, Tick, Reader, Child, ReadDocument, ReadLine, Output, Exit, Release

(* A result is the last value its command ever prints, for any careful      *)
(* scripts (steps.rs:384-403): all threads are joined before the results    *)
(* are collected.                                                           *)
THEOREM FinalResults ==
    ASSUME \A s \in Scripts : Careful(s)
    PROVE  Spec => []ResultsFinal
<1>1. Init => FinalInv
    BY DEF Init, FinalInv
<1>2. FinalInv => ResultsFinal
    BY DEF FinalInv, ResultsFinal
<1> QED
    BY <1>1, <1>2, CarefulAlways, OnceAlways, FinalStep, PTL DEF Spec

----------------------------------------------------------------------------
(***************************************************************************)
(* Numbers, lists and tables.                                              *)
(***************************************************************************)

(* A set of numbers that is not empty has a least one.                      *)
LEMMA LeastOf ==
    ASSUME NEW T, T \subseteq Nat, T # {}
    PROVE  \E x \in T : \A y \in T : x <= y
<1>1. PICK x \in T : \A y \in T : ~ (<<y, x>> \in OpToRel(<, Nat))
    <2>1. \E x \in T : \A y \in T : ~ (<<y, x>> \in OpToRel(<, Nat))
        BY NatLessThanWellFounded, WFMin
    <2>. QED  BY <2>1
<1>2. \A y \in T : ~ (y < x)
    BY <1>1 DEF OpToRel
<1>. QED  BY <1>2

(* What holds of zero, and of n + 1 whenever of n, holds of every number.   *)
LEMMA Induct ==
    ASSUME NEW S, 0 \in S, \A n \in Nat : n \in S => n + 1 \in S
    PROVE  Nat \subseteq S
<1>1. SUFFICES ASSUME NEW T, T = {n \in Nat : n \notin S}, T # {} PROVE FALSE
    OBVIOUS
<1>2. PICK x \in T : \A y \in T : x <= y
    BY <1>1, LeastOf
<1>3. x \in Nat /\ x \notin S /\ x # 0
    BY <1>1, <1>2
<1>4. x - 1 \in Nat /\ x - 1 + 1 = x /\ ~(x <= x - 1)
    BY <1>3
<1>5. x - 1 \notin T
    BY <1>2, <1>4
<1>. QED  BY <1>1, <1>3, <1>4, <1>5

(* A set of indices has a first one and a last one.                         *)
LEMMA FirstIndex ==
    ASSUME NEW n \in Nat, NEW I \in SUBSET (1..n), I # {}
    PROVE  Min(I) \in I
<1>1. I \subseteq Nat
    OBVIOUS
<1>2. PICK x \in I : \A y \in I : x <= y
    BY <1>1, LeastOf
<1>. QED  BY <1>2 DEF Min

(* A list has a length, which is its domain.                                *)
LEMMA ListLen ==
    ASSUME NEW x, IsList(x)
    PROVE  Len(x) \in Nat /\ DOMAIN x = 1..Len(x) /\ x = [i \in 1..Len(x) |-> x[i]]
<1>1. x \in Seq(Range(x))
    BY DEF IsList
<1>. QED  BY <1>1, LenProperties

LEMMA SeqIsList ==
    ASSUME NEW S, NEW x \in Seq(S)
    PROVE  IsList(x)
<1>1. Len(x) \in Nat /\ DOMAIN x = 1..Len(x) /\ \A i \in 1..Len(x) : x[i] \in S
    BY LenProperties, ElementOfSeq
<1>2. x = [i \in 1..Len(x) |-> x[i]]
    BY <1>1, LenProperties
<1>3. \A i \in 1..Len(x) : x[i] \in Range(x)
    BY <1>1 DEF Range
<1>4. x \in Seq(Range(x))
    BY <1>1, <1>2, <1>3, IsASeq
<1>. QED  BY <1>4 DEF IsList

(* A table with the domain of a list is a list.                             *)
LEMMA ListOf ==
    ASSUME NEW n \in Nat, NEW x, x = [i \in 1..n |-> x[i]]
    PROVE  IsList(x) /\ Len(x) = n
<1>1. PICK S : S = {x[i] : i \in 1..n}
    OBVIOUS
<1>2. \A i \in 1..n : x[i] \in S
    BY <1>1
<1>3. x \in Seq(S) /\ Len(x) = n
    BY <1>2, IsASeq, LenProperties
<1>. QED  BY <1>3, SeqIsList
----------------------------------------------------------------------------
(***************************************************************************)
(* FlattenSeq.                                                             *)
(***************************************************************************)

(* The recursion of FlattenSeq has a solution, and FlattenSeq is its end.   *)
LEMMA FlattenRec ==
    ASSUME NEW ss, NEW n \in Nat \ {0}, Len(ss) = n
    PROVE  \E f : /\ f = [i \in 1..n |-> IF i = 1 THEN ss[i] ELSE f[i - 1] \o ss[i]]
                  /\ FlattenSeq(ss) = f[n]
<1>1. PICK S : S = {m \in Nat : \E f : f = [i \in 1..m |-> IF i = 1 THEN ss[i] ELSE f[i - 1] \o ss[i]]}
    OBVIOUS
<1>2. 0 \in S
    <2>1. PICK f : f = [i \in 1..0 |-> ss[i]]
        OBVIOUS
    <2>2. f = [i \in 1..0 |-> IF i = 1 THEN ss[i] ELSE f[i - 1] \o ss[i]]
        BY <2>1
    <2>. QED  BY <1>1, <2>2
<1>3. ASSUME NEW m \in Nat, m \in S PROVE m + 1 \in S
    <2>1. PICK f : f = [i \in 1..m |-> IF i = 1 THEN ss[i] ELSE f[i - 1] \o ss[i]]
        BY <1>1, <1>3
    <2>2. PICK g : g = [i \in 1..m + 1 |-> IF i <= m THEN f[i] ELSE
                                           IF i = 1 THEN ss[i] ELSE f[i - 1] \o ss[i]]
        OBVIOUS
    <2>3. ASSUME NEW i \in 1..m + 1
          PROVE  g[i] = IF i = 1 THEN ss[i] ELSE g[i - 1] \o ss[i]
        <3>1. CASE i <= m
            <4>1. i \in 1..m /\ (i # 1 => i - 1 \in 1..m /\ i - 1 \in 1..m + 1 /\ i - 1 <= m)
                BY <3>1
            <4>2. g[i] = f[i] /\ (i # 1 => g[i - 1] = f[i - 1])
                BY <2>2, <3>1, <4>1
            <4>3. f[i] = IF i = 1 THEN ss[i] ELSE f[i - 1] \o ss[i]
                BY <2>1, <4>1
            <4>. QED  BY <4>2, <4>3
        <3>2. CASE ~(i <= m)
            <4>1. i # 1 => i - 1 \in 1..m + 1 /\ i - 1 <= m
                BY <3>2
            <4>. QED  BY <2>2, <3>2, <4>1
        <3>. QED  BY <3>1, <3>2
    <2>4. PICK j \in Nat : j = m + 1
        OBVIOUS
    <2>5. g = [i \in 1..j |-> IF i = 1 THEN ss[i] ELSE g[i - 1] \o ss[i]]
        BY <2>2, <2>3, <2>4
    <2>6. j \in S
        BY <1>1, <2>5
    <2>. QED  BY <2>4, <2>6
<1>4. n \in S
    BY <1>2, <1>3, Induct
<1>5. \E f : f = [i \in 1..n |-> IF i = 1 THEN ss[i] ELSE f[i - 1] \o ss[i]]
    BY <1>1, <1>4
<1>6. PICK f : f = CHOOSE g : g = [i \in 1..n |-> IF i = 1 THEN ss[i] ELSE g[i - 1] \o ss[i]]
    OBVIOUS
<1>7. f = [i \in 1..n |-> IF i = 1 THEN ss[i] ELSE f[i - 1] \o ss[i]]
    BY <1>5, <1>6
<1>8. FlattenSeq(ss) = f[n]
    BY <1>6 DEF FlattenSeq
<1>. QED  BY <1>7, <1>8
(* Where each element of the flat list F comes from: pos gives the list and *)
(* the place in it, once for every place of the first n lists of ss.        *)
Places(ss, n, F, pos) ==
    /\ IsList(F) /\ DOMAIN pos = DOMAIN F
    /\ \A p \in DOMAIN F : /\ pos[p] = <<pos[p][1], pos[p][2]>>
                           /\ pos[p][1] \in 1..n /\ pos[p][2] \in DOMAIN ss[pos[p][1]]
                           /\ F[p] = ss[pos[p][1]][pos[p][2]]
    /\ \A p, q \in DOMAIN F : pos[p] = pos[q] => p = q
    /\ \A i \in 1..n : \A k \in DOMAIN ss[i] : \E p \in DOMAIN F : pos[p] = <<i, k>>

LEMMA PlacesOne ==
    ASSUME NEW ss, IsList(ss[1])
    PROVE  \E pos : Places(ss, 1, ss[1], pos)
<1>1. PICK F : F = ss[1] /\ IsList(F)
    OBVIOUS
<1>2. PICK pos : pos = [p \in DOMAIN F |-> <<1, p>>]
    OBVIOUS
<1>3. \A p \in DOMAIN F : pos[p] = <<1, p>> /\ pos[p][1] = 1 /\ pos[p][2] = p
    <2> SUFFICES ASSUME NEW p \in DOMAIN F
                 PROVE  pos[p] = <<1, p>> /\ pos[p][1] = 1 /\ pos[p][2] = p
        OBVIOUS
    <2>1. pos[p] = <<1, p>>
        BY <1>2
    <2>. QED  BY <2>1
<1>4. \A p, q \in DOMAIN F : pos[p] = pos[q] => p = q
    BY <1>3
<1>5. \A i \in 1..1 : i = 1
    OBVIOUS
<1>6. \A i \in 1..1 : \A k \in DOMAIN ss[i] : \E p \in DOMAIN F : pos[p] = <<i, k>>
    BY <1>1, <1>3, <1>5
<1>7. \A p \in DOMAIN F : /\ pos[p] = <<pos[p][1], pos[p][2]>>
                          /\ pos[p][1] \in 1..1 /\ pos[p][2] \in DOMAIN ss[pos[p][1]]
                          /\ F[p] = ss[pos[p][1]][pos[p][2]]
    BY <1>1, <1>3
<1>8. DOMAIN pos = DOMAIN F
    BY <1>2
<1>9. Places(ss, 1, F, pos)
    BY <1>1, <1>4, <1>6, <1>7, <1>8 DEF Places
<1>. QED  BY <1>1, <1>9

(* A concatenation of lists.                                                *)
LEMMA ConcatList ==
    ASSUME NEW s, NEW t, IsList(s), IsList(t)
    PROVE  /\ IsList(s \o t) /\ Len(s) \in Nat /\ Len(t) \in Nat
           /\ DOMAIN s = 1..Len(s) /\ DOMAIN t = 1..Len(t)
           /\ DOMAIN (s \o t) = 1..(Len(s) + Len(t))
           /\ \A p \in 1..(Len(s) + Len(t)) :
                  (s \o t)[p] = IF p <= Len(s) THEN s[p] ELSE t[p - Len(s)]
<1>1. PICK S : S = Range(s) \cup Range(t)
    OBVIOUS
<1>2. s \in Seq(S) /\ t \in Seq(S)
    BY <1>1, SeqDef DEF IsList
<1>3. s \o t \in Seq(S) /\ Len(s \o t) = Len(s) + Len(t)
      /\ \A p \in 1..(Len(s) + Len(t)) :
             (s \o t)[p] = IF p <= Len(s) THEN s[p] ELSE t[p - Len(s)]
    BY <1>2, ConcatProperties
<1>4. IsList(s \o t)
    BY <1>3, SeqIsList
<1>5. Len(s) \in Nat /\ Len(t) \in Nat /\ DOMAIN s = 1..Len(s) /\ DOMAIN t = 1..Len(t)
      /\ DOMAIN (s \o t) = 1..(Len(s) + Len(t))
    BY <1>2, <1>3, LenProperties
<1>. QED  BY <1>3, <1>4, <1>5

LEMMA PlacesMore ==
    ASSUME NEW ss, NEW m \in Nat, NEW F, NEW pos, Places(ss, m, F, pos), IsList(ss[m + 1])
    PROVE  \E new : Places(ss, m + 1, F \o ss[m + 1], new)
<1>1. PICK t : t = ss[m + 1] /\ IsList(t) /\ IsList(F)
    BY DEF Places
<1>2. PICK a \in Nat, b \in Nat : a = Len(F) /\ b = Len(t)
    BY <1>1, ConcatList
<1>3. PICK G : G = F \o t
    OBVIOUS
<1>4. /\ IsList(G) /\ DOMAIN F = 1..a /\ DOMAIN t = 1..b /\ DOMAIN G = 1..(a + b)
      /\ \A p \in 1..(a + b) : G[p] = IF p <= a THEN F[p] ELSE t[p - a]
    BY <1>1, <1>2, <1>3, ConcatList
<1>5. PICK new : new = [p \in 1..(a + b) |-> IF p <= a THEN pos[p] ELSE <<m + 1, p - a>>]
    OBVIOUS
<1>6. \A p \in 1..(a + b) : p <= a => p \in 1..a /\ new[p] = pos[p] /\ G[p] = F[p]
    BY <1>4, <1>5
<1>7. \A p \in 1..(a + b) : ~(p <= a) => p - a \in 1..b /\ new[p] = <<m + 1, p - a>> /\ G[p] = t[p - a]
                                         /\ new[p][1] = m + 1 /\ new[p][2] = p - a
    BY <1>4, <1>5
<1>8. ASSUME NEW p \in 1..(a + b)
      PROVE  /\ new[p] = <<new[p][1], new[p][2]>>
             /\ new[p][1] \in 1..m + 1 /\ new[p][2] \in DOMAIN ss[new[p][1]]
             /\ G[p] = ss[new[p][1]][new[p][2]]
    <2>1. CASE p <= a
        <3>1. /\ pos[p] = <<pos[p][1], pos[p][2]>>
              /\ pos[p][1] \in 1..m /\ pos[p][2] \in DOMAIN ss[pos[p][1]]
              /\ F[p] = ss[pos[p][1]][pos[p][2]]
            BY <1>4, <1>6, <2>1 DEF Places
        <3>2. new[p] = pos[p] /\ G[p] = F[p]
            BY <1>6, <2>1
        <3>3. pos[p][1] \in 1..m + 1
            BY <3>1
        <3>. QED  BY <3>1, <3>2, <3>3
    <2>2. CASE ~(p <= a)
        BY <1>1, <1>4, <1>7, <2>2
    <2>. QED  BY <2>1, <2>2
<1>9. ASSUME NEW p \in 1..(a + b), NEW q \in 1..(a + b), new[p] = new[q]
      PROVE  p = q
    <2>1. CASE p <= a /\ q <= a
        <3>1. p \in DOMAIN F /\ q \in DOMAIN F /\ pos[p] = pos[q]
            BY <1>4, <1>6, <1>9, <2>1
        <3>. QED  BY <3>1 DEF Places
    <2>2. CASE ~(p <= a) /\ ~(q <= a)
        BY <1>7, <1>9, <2>2
    <2>3. ASSUME NEW x \in 1..(a + b), NEW y \in 1..(a + b), x <= a, ~(y <= a)
          PROVE  new[x] # new[y]
        <3>1. new[x][1] \in 1..m
            BY <1>4, <1>6, <2>3 DEF Places
        <3>2. new[y][1] = m + 1
            BY <1>7, <2>3
        <3>. QED  BY <3>1, <3>2
    <2>. QED  BY <1>9, <2>1, <2>2, <2>3
<1>10. ASSUME NEW i \in 1..m + 1, NEW k \in DOMAIN ss[i]
       PROVE  \E p \in 1..(a + b) : new[p] = <<i, k>>
    <2>1. CASE i \in 1..m
        <3>1. PICK p \in DOMAIN F : pos[p] = <<i, k>>
            BY <2>1 DEF Places
        <3>2. p \in 1..(a + b) /\ p <= a
            BY <1>4, <3>1
        <3>. QED  BY <1>6, <3>1, <3>2
    <2>2. CASE i = m + 1
        <3>1. k \in 1..b
            BY <1>1, <1>4, <2>2
        <3>2. PICK p \in 1..(a + b) : ~(p <= a) /\ p - a = k
            <4>1. k \in Nat /\ 1 <= k /\ k <= b
                BY <3>1
            <4>2. PICK p : p = a + k
                OBVIOUS
            <4>3. p \in 1..(a + b) /\ ~(p <= a) /\ p - a = k
                BY <1>2, <4>1, <4>2
            <4>. QED  BY <4>3
        <3>3. new[p] = <<m + 1, p - a>>
            BY <1>7, <3>2
        <3>. QED  BY <2>2, <3>2, <3>3
    <2>. QED  BY <2>1, <2>2
<1>11. DOMAIN new = DOMAIN G
    BY <1>4, <1>5
<1>12. Places(ss, m + 1, G, new)
    <2>1. \A p \in DOMAIN G :
              /\ new[p] = <<new[p][1], new[p][2]>>
              /\ new[p][1] \in 1..m + 1 /\ new[p][2] \in DOMAIN ss[new[p][1]]
              /\ G[p] = ss[new[p][1]][new[p][2]]
        BY <1>4, <1>8
    <2>2. \A p, q \in DOMAIN G : new[p] = new[q] => p = q
        BY <1>4, <1>9
    <2>3. \A i \in 1..m + 1 : \A k \in DOMAIN ss[i] : \E p \in DOMAIN G : new[p] = <<i, k>>
        BY <1>4, <1>10
    <2>. QED  BY <1>4, <1>11, <2>1, <2>2, <2>3 DEF Places
<1>. QED  BY <1>1, <1>3, <1>12

(* FlattenSeq puts the lists of a list one after the other.                 *)
LEMMA Flatten ==
    ASSUME NEW ss, IsList(ss), \A i \in DOMAIN ss : IsList(ss[i])
    PROVE  \E pos : Places(ss, Len(ss), FlattenSeq(ss), pos)
<1>1. PICK n \in Nat : n = Len(ss) /\ DOMAIN ss = 1..n
    BY ListLen
<1>2. CASE n = 0
    <2>1. FlattenSeq(ss) = ss /\ DOMAIN ss = {}
        BY <1>1, <1>2 DEF FlattenSeq
    <2>2. PICK pos : pos = [p \in {} |-> 0]
        OBVIOUS
    <2>3. Places(ss, n, ss, pos)
        BY <1>1, <1>2, <2>1, <2>2 DEF Places
    <2>. QED  BY <1>1, <2>1, <2>3
<1>3. CASE n # 0
    <2>1. PICK f : /\ f = [i \in 1..n |-> IF i = 1 THEN ss[i] ELSE f[i - 1] \o ss[i]]
                   /\ FlattenSeq(ss) = f[n]
        BY <1>1, <1>3, FlattenRec
    <2>2. PICK S : S = {m \in Nat : m + 1 <= n => \E pos : Places(ss, m + 1, f[m + 1], pos)}
        OBVIOUS
    <2>3. 0 \in S
        <3>1. 1 \in 1..n /\ IsList(ss[1])
            BY <1>1, <1>3
        <3>2. f[1] = ss[1]
            BY <2>1, <3>1
        <3>. QED  BY <2>2, <3>1, <3>2, PlacesOne
    <2>4. ASSUME NEW m \in Nat, m \in S PROVE m + 1 \in S
        <3> SUFFICES ASSUME m + 1 + 1 <= n PROVE \E pos : Places(ss, m + 1 + 1, f[m + 1 + 1], pos)
            BY <2>2
        <3>1. PICK k \in Nat : k = m + 1 /\ k + 1 \in 1..n /\ k + 1 # 1 /\ k + 1 - 1 = k
            OBVIOUS
        <3>2. PICK pos : Places(ss, k, f[k], pos)
            BY <2>2, <2>4, <3>1
        <3>3. f[k + 1] = f[k] \o ss[k + 1] /\ IsList(ss[k + 1])
            <4>1. IsList(ss[k + 1])
                BY <1>1, <3>1
            <4>2. PICK j \in 1..n : j = k + 1 /\ j # 1
                BY <3>1
            <4>3. f[j] = f[j - 1] \o ss[j]
                BY <2>1, <4>2
            <4>. QED  BY <3>1, <4>1, <4>2, <4>3
        <3>4. \E new : Places(ss, k + 1, f[k + 1], new)
            BY <3>2, <3>3, PlacesMore
        <3>. QED  BY <3>1, <3>4
    <2>5. n - 1 \in S
        <3>1. n - 1 \in Nat
            BY <1>3
        <3>. QED  BY <2>3, <2>4, <3>1, Induct
    <2>6. \E pos : Places(ss, n, f[n], pos)
        <3>1. n - 1 + 1 = n
            OBVIOUS
        <3>. QED  BY <2>2, <2>5, <3>1
    <2>. QED  BY <1>1, <2>1, <2>6
<1>. QED  BY <1>2, <1>3
----------------------------------------------------------------------------
(***************************************************************************)
(* The lab of a simulation.                                                *)
(***************************************************************************)

(* The rounds in which the routers are built.                               *)
LEMMA BuiltRec ==
    ASSUME NEW topo, NEW n \in Nat, Len(topo.routers) = n
    PROVE  Built(topo) = [k \in 0..n |-> IF k = 0 THEN {} ELSE
                              Built(topo)[k - 1] \cup Ready(topo, Built(topo)[k - 1])]
<1>1. PICK S : S = {m \in Nat : \E f : f = [k \in 0..m |->
                       IF k = 0 THEN {} ELSE f[k - 1] \cup Ready(topo, f[k - 1])]}
    OBVIOUS
<1>2. 0 \in S
    <2>1. PICK f : f = [k \in 0..0 |-> {}]
        OBVIOUS
    <2>2. f = [k \in 0..0 |-> IF k = 0 THEN {} ELSE f[k - 1] \cup Ready(topo, f[k - 1])]
        BY <2>1
    <2>. QED  BY <1>1, <2>2
<1>3. ASSUME NEW m \in Nat, m \in S PROVE m + 1 \in S
    <2>1. PICK f : f = [k \in 0..m |-> IF k = 0 THEN {} ELSE f[k - 1] \cup Ready(topo, f[k - 1])]
        BY <1>1, <1>3
    <2>2. PICK g : g = [k \in 0..m + 1 |-> IF k <= m THEN f[k] ELSE f[m] \cup Ready(topo, f[m])]
        OBVIOUS
    <2>3. ASSUME NEW k \in 0..m + 1
          PROVE  g[k] = IF k = 0 THEN {} ELSE g[k - 1] \cup Ready(topo, g[k - 1])
        <3>1. CASE k <= m
            <4>1. k \in 0..m /\ (k # 0 => k - 1 \in 0..m /\ k - 1 \in 0..m + 1 /\ k - 1 <= m)
                BY <3>1
            <4>2. g[k] = f[k] /\ (k # 0 => g[k - 1] = f[k - 1])
                BY <2>2, <3>1, <4>1
            <4>3. f[k] = IF k = 0 THEN {} ELSE f[k - 1] \cup Ready(topo, f[k - 1])
                BY <2>1, <4>1
            <4>. QED  BY <4>2, <4>3
        <3>2. CASE ~(k <= m)
            <4>1. k # 0 /\ m = k - 1 /\ m \in 0..m + 1 /\ m <= m
                BY <3>2
            <4>2. g[k] = f[m] \cup Ready(topo, f[m]) /\ g[m] = f[m]
                BY <2>2, <3>2, <4>1
            <4>. QED  BY <4>1, <4>2
        <3>. QED  BY <3>1, <3>2
    <2>4. PICK j \in Nat : j = m + 1
        OBVIOUS
    <2>5. g = [k \in 0..j |-> IF k = 0 THEN {} ELSE g[k - 1] \cup Ready(topo, g[k - 1])]
        BY <2>2, <2>3, <2>4
    <2>6. j \in S
        BY <1>1, <2>5
    <2>. QED  BY <2>4, <2>6
<1>4. n \in S
    BY <1>2, <1>3, Induct
<1>5. \E f : f = [k \in 0..n |-> IF k = 0 THEN {} ELSE f[k - 1] \cup Ready(topo, f[k - 1])]
    BY <1>1, <1>4
<1>6. PICK f : f = CHOOSE g : g = [k \in 0..n |-> IF k = 0 THEN {} ELSE
                                                 g[k - 1] \cup Ready(topo, g[k - 1])]
    OBVIOUS
<1>7. f = [k \in 0..n |-> IF k = 0 THEN {} ELSE f[k - 1] \cup Ready(topo, f[k - 1])]
    BY <1>5, <1>6
<1>8. Built(topo) = f
    BY <1>6 DEF Built
<1>. QED  BY <1>7, <1>8

(* In a lab without a cycle every router has a round, its upstream an       *)
(* earlier one, so it is connected to that.                                 *)
LEMMA LabUplinks ==
    ASSUME NEW topo, TopologyFits(topo), LabOk(topo)
    PROVE  LabAsDescribed(topo)
<1>1. PICK n \in Nat : n = Len(topo.routers)
    BY ListLen DEF TopologyFits
<1>2. PICK built : built = Built(topo)
    OBVIOUS
<1>3. built = [k \in 0..n |-> IF k = 0 THEN {} ELSE built[k - 1] \cup Ready(topo, built[k - 1])]
    BY <1>1, <1>2, BuiltRec
<1>4. built[0] = {} /\ built[n] = RouterNames(topo)
    BY <1>1, <1>2, <1>3 DEF LabOk
<1>5. ASSUME NEW x \in RouterNames(topo)
      PROVE  \E k \in 1..n : x \in built[k] /\ x \notin built[k - 1]
    <2>1. SUFFICES ASSUME \A k \in 1..n : x \in built[k] => x \in built[k - 1] PROVE FALSE
        OBVIOUS
    <2>2. PICK S : S = {m \in Nat : m <= n => x \notin built[m]}
        OBVIOUS
    <2>3. 0 \in S
        BY <1>4, <2>2
    <2>4. ASSUME NEW m \in Nat, m \in S PROVE m + 1 \in S
        <3>1. PICK k \in Nat : k = m + 1 /\ m = k - 1
            OBVIOUS
        <3>2. ASSUME k <= n PROVE x \notin built[k]
            <4>1. k \in 1..n /\ m <= n
                BY <3>1, <3>2
            <4>2. x \notin built[k - 1]
                BY <2>2, <2>4, <3>1, <4>1
            <4>. QED  BY <2>1, <4>1, <4>2
        <3>3. k \in S
            BY <2>2, <3>2
        <3>. QED  BY <3>1, <3>3
    <2>5. n \in S
        BY <2>3, <2>4, Induct
    <2>. QED  BY <1>4, <2>2, <2>5
<1>6. ASSUME NEW x \in RouterNames(topo), UpstreamIn(topo, x) \in RouterNames(topo)
      PROVE  UplinkOf(topo, x) = UpstreamIn(topo, x)
    <2>1. PICK round : round = CHOOSE k \in 1..n : x \in built[k] /\ x \notin built[k - 1]
        OBVIOUS
    <2>2. round \in 1..n /\ x \in built[round] /\ x \notin built[round - 1]
        BY <1>5, <2>1
    <2>3. built[round] = built[round - 1] \cup Ready(topo, built[round - 1])
        <3>1. round \in 0..n /\ round # 0
            BY <2>2
        <3>. QED  BY <1>3, <3>1
    <2>4. x \in Ready(topo, built[round - 1])
        BY <2>2, <2>3
    <2>5. UpstreamIn(topo, x) \in built[round - 1]
        BY <1>6, <2>4 DEF Ready
    <2>. QED  BY <1>1, <1>2, <2>1, <2>5 DEF UplinkOf
<1>. QED  BY <1>6 DEF LabAsDescribed
----------------------------------------------------------------------------
(***************************************************************************)
(* The steps of a simulation.                                              *)
(***************************************************************************)

(* A definition is that of one of the files.                                *)
LEMMA MergedFrom ==
    ASSUME NEW n \in Nat, NEW tables, DOMAIN tables = 1..n, NEW name \in DOMAIN Merged(tables)
    PROVE  \E i \in 1..n : name \in DOMAIN tables[i] /\ Merged(tables)[name] = tables[i][name]
<1>1. PICK I : I = {i \in 1..n : name \in DOMAIN tables[i]}
    OBVIOUS
<1>2. name \in UNION {DOMAIN tables[i] : i \in 1..n}
    BY DEF Merged
<1>3. PICK i \in 1..n : name \in DOMAIN tables[i]
    BY <1>2
<1>4. I \in SUBSET (1..n) /\ I # {}
    BY <1>1, <1>3
<1>5. Min(I) \in I
    BY <1>4, FirstIndex
<1>6. Merged(tables)[name] = tables[Min(I)][name]
    BY <1>1, <1>2 DEF Merged
<1>. QED  BY <1>1, <1>5, <1>6

SimFits(sim) ==
    /\ EntriesFit(sim.entries) /\ DefinitionsFit(sim) /\ TopologyFits(sim.inline)
    /\ IsList(sim.extends) /\ \A i \in DOMAIN sim.extends : DefinitionsFit(sim.extends[i])

LEMMA SourceFits ==
    ASSUME NEW sim, SimFits(sim)
    PROVE  \E n \in Nat : DOMAIN Sources(sim) = 1..n /\ \A i \in 1..n : DefinitionsFit(Sources(sim)[i])
<1>1. PICK m \in Nat : m = Len(sim.extends) /\ DOMAIN sim.extends = 1..m
    BY ListLen DEF SimFits
<1>2. Sources(sim) = [i \in 1..m + 1 |-> IF i = 1 THEN sim ELSE sim.extends[i - 1]]
    BY <1>1 DEF Sources
<1>3. ASSUME NEW i \in 1..m + 1 PROVE DefinitionsFit(Sources(sim)[i])
    <2>1. CASE i = 1
        BY <1>2, <2>1 DEF SimFits
    <2>2. CASE i # 1
        <3>1. i - 1 \in 1..m
            BY <2>2
        <3>2. Sources(sim)[i] = sim.extends[i - 1]
            BY <1>2, <2>2
        <3>. QED  BY <1>1, <3>1, <3>2 DEF SimFits
    <2>. QED  BY <2>1, <2>2
<1>4. DOMAIN Sources(sim) = 1..m + 1 /\ m + 1 \in Nat
    BY <1>2
<1>. QED  BY <1>3, <1>4

LEMMA TemplateFits ==
    ASSUME NEW sim, SimFits(sim), NEW t \in DOMAIN Templates(sim)
    PROVE  IsList(Templates(sim)[t].refs)
<1>1. PICK n \in Nat : DOMAIN Sources(sim) = 1..n /\ \A i \in 1..n : DefinitionsFit(Sources(sim)[i])
    BY SourceFits
<1>2. PICK tables : tables = [i \in 1..n |-> Sources(sim)[i].templates]
    OBVIOUS
<1>3. Templates(sim) = Merged(tables)
    BY <1>1, <1>2 DEF Templates
<1>4. PICK i \in 1..n : t \in DOMAIN tables[i] /\ Merged(tables)[t] = tables[i][t]
    <2>1. DOMAIN tables = 1..n
        BY <1>2
    <2>. QED  BY <1>3, <2>1, MergedFrom
<1>. QED  BY <1>1, <1>2, <1>3, <1>4 DEF DefinitionsFit

LEMMA GroupFits ==
    ASSUME NEW sim, SimFits(sim), NEW g \in DOMAIN Groups(sim)
    PROVE  EntriesFit(Groups(sim)[g].steps)
<1>1. PICK n \in Nat : DOMAIN Sources(sim) = 1..n /\ \A i \in 1..n : DefinitionsFit(Sources(sim)[i])
    BY SourceFits
<1>2. PICK tables : tables = [i \in 1..n |-> Sources(sim)[i].groups]
    OBVIOUS
<1>3. Groups(sim) = Merged(tables)
    BY <1>1, <1>2 DEF Groups
<1>4. PICK i \in 1..n : g \in DOMAIN tables[i] /\ Merged(tables)[g] = tables[i][g]
    <2>1. DOMAIN tables = 1..n
        BY <1>2
    <2>. QED  BY <1>3, <2>1, MergedFrom
<1>. QED  BY <1>1, <1>2, <1>3, <1>4 DEF DefinitionsFit

(* Substitution keeps the shape of a step.                                  *)
LEMMA SubstitutedRefs ==
    ASSUME NEW s, NEW map, IsList(s.refs)
    PROVE  IsList(SubstituteStep(s, map).refs)
<1>1. PICK n \in Nat : DOMAIN s.refs = 1..n
    BY ListLen
<1>2. PICK refs : refs = [i \in 1..n |-> Substitute(s.refs[i], map)]
    OBVIOUS
<1>3. SubstituteStep(s, map).refs = refs
    BY <1>1, <1>2 DEF SubstituteStep, SimStep
<1>4. refs = [i \in 1..n |-> refs[i]]
    BY <1>2
<1>. QED  BY <1>3, <1>4, ListOf

LEMMA SubstitutedEntries ==
    ASSUME NEW entries, NEW map, EntriesFit(entries)
    PROVE  EntriesFit(SubstituteEntries(entries, map))
<1>1. PICK n \in Nat : DOMAIN entries = 1..n
    BY ListLen DEF EntriesFit
<1>2. PICK new : new = SubstituteEntries(entries, map)
    OBVIOUS
<1>3. DOMAIN new = 1..n /\ new = [i \in 1..n |-> new[i]]
    BY <1>1, <1>2 DEF SubstituteEntries
<1>4. ASSUME NEW i \in 1..n PROVE IsList(new[i].step.refs)
    <2>1. new[i].step = SubstituteStep(entries[i].step, map)
        BY <1>1, <1>2 DEF SubstituteEntries, Use
    <2>2. IsList(entries[i].step.refs)
        BY <1>1 DEF EntriesFit
    <2>. QED  BY <2>1, <2>2, SubstitutedRefs
<1>5. IsList(new)
    BY <1>3, ListOf
<1>. QED  BY <1>2, <1>3, <1>4, <1>5 DEF EntriesFit

LEMMA VariantFits ==
    ASSUME NEW file, NEW map, FileFits(file)
    PROVE  SimFits(Variant(file, map)) /\ Variant(file, map).inline = file.inline
<1>1. PICK sim : sim = Variant(file, map)
    OBVIOUS
<1>2. /\ sim.inline = file.inline /\ sim.extends = file.extends
      /\ sim.entries = SubstituteEntries(file.entries, map)
      /\ sim.templates = [t \in DOMAIN file.templates |-> SubstituteStep(file.templates[t], map)]
      /\ sim.groups = [g \in DOMAIN file.groups |->
            [keys |-> file.groups[g].keys,
             steps |-> SubstituteEntries(file.groups[g].steps, map)]]
    BY <1>1 DEF Variant, FileFits
<1>3. EntriesFit(sim.entries)
    BY <1>2, SubstitutedEntries DEF FileFits
<1>4. ASSUME NEW t \in DOMAIN sim.templates PROVE IsList(sim.templates[t].refs)
    <2>1. IsList(file.templates[t].refs) /\ sim.templates[t] = SubstituteStep(file.templates[t], map)
        BY <1>2, <1>4 DEF FileFits, DefinitionsFit
    <2>. QED  BY <2>1, SubstitutedRefs
<1>5. ASSUME NEW g \in DOMAIN sim.groups PROVE EntriesFit(sim.groups[g].steps)
    <2>1. /\ EntriesFit(file.groups[g].steps)
          /\ sim.groups[g].steps = SubstituteEntries(file.groups[g].steps, map)
        BY <1>2, <1>5 DEF FileFits, DefinitionsFit
    <2>. QED  BY <2>1, SubstitutedEntries
<1>6. DefinitionsFit(sim)
    BY <1>4, <1>5 DEF DefinitionsFit
<1>. QED  BY <1>1, <1>2, <1>3, <1>6 DEF SimFits, FileFits
----------------------------------------------------------------------------
LEMMA GroupEntriesFit ==
    ASSUME NEW e, NEW group, EntriesFit(group.steps)
    PROVE  EntriesFit(GroupEntries(e, group))
<1>1. PICK n \in Nat : DOMAIN group.steps = 1..n
    BY ListLen DEF EntriesFit
<1>2. PICK new : new = GroupEntries(e, group)
    OBVIOUS
<1>3. DOMAIN new = 1..n /\ new = [i \in 1..n |-> new[i]]
    BY <1>1, <1>2 DEF GroupEntries
<1>4. ASSUME NEW i \in 1..n PROVE IsList(new[i].step.refs)
    <2>1. PICK s : s = SubstituteStep(group.steps[i].step, e.vars)
        OBVIOUS
    <2>2. IsList(s.refs)
        BY <1>1, <2>1, SubstitutedRefs DEF EntriesFit
    <2>3. new[i].step.refs = s.refs
        BY <1>1, <1>2, <2>1 DEF GroupEntries, Concrete, Use, SimStep
    <2>. QED  BY <2>2, <2>3
<1>5. IsList(new)
    BY <1>3, ListOf
<1>. QED  BY <1>2, <1>3, <1>4, <1>5 DEF EntriesFit

LEMMA FlattenedFits ==
    ASSUME NEW sim, SimFits(sim)
    PROVE  EntriesFit(Flattened(sim))
<1>1. PICK n \in Nat : DOMAIN sim.entries = 1..n
    BY ListLen DEF SimFits, EntriesFit
<1>2. PICK parts : parts = [i \in 1..n |->
          IF sim.entries[i].use \in DOMAIN Groups(sim)
          THEN GroupEntries(sim.entries[i], Groups(sim)[sim.entries[i].use])
          ELSE <<sim.entries[i]>>]
    OBVIOUS
<1>3. Flattened(sim) = FlattenSeq(parts)
    BY <1>1, <1>2 DEF Flattened
<1>4. ASSUME NEW i \in 1..n PROVE EntriesFit(parts[i])
    <2>1. PICK e : e = sim.entries[i]
        OBVIOUS
    <2>2. CASE e.use \in DOMAIN Groups(sim)
        <3>1. parts[i] = GroupEntries(e, Groups(sim)[e.use])
            BY <1>2, <2>1, <2>2
        <3>2. EntriesFit(Groups(sim)[e.use].steps)
            BY <2>2, GroupFits
        <3>. QED  BY <3>1, <3>2, GroupEntriesFit
    <2>3. CASE e.use \notin DOMAIN Groups(sim)
        <3>1. parts[i] = <<e>>
            BY <1>2, <2>1, <2>3
        <3>2. IsList(e.step.refs)
            BY <1>1, <2>1 DEF SimFits, EntriesFit
        <3>3. <<e>> = [k \in 1..1 |-> <<e>>[k]] /\ DOMAIN <<e>> = 1..1 /\ <<e>>[1] = e
            OBVIOUS
        <3>4. IsList(<<e>>)
            BY <3>3, ListOf
        <3>5. \A k \in DOMAIN <<e>> : <<e>>[k] = e
            BY <3>3
        <3>. QED  BY <3>1, <3>2, <3>4, <3>5 DEF EntriesFit
    <2>. QED  BY <2>2, <2>3
<1>5. IsList(parts) /\ Len(parts) = n /\ DOMAIN parts = 1..n
    <2>1. parts = [i \in 1..n |-> parts[i]] /\ DOMAIN parts = 1..n
        BY <1>2
    <2>. QED  BY <2>1, ListOf
<1>6. PICK pos : Places(parts, n, FlattenSeq(parts), pos)
    BY <1>4, <1>5, Flatten DEF EntriesFit
<1>7. ASSUME NEW p \in DOMAIN FlattenSeq(parts) PROVE IsList(FlattenSeq(parts)[p].step.refs)
    <2>1. PICK i \in 1..n : \E k \in DOMAIN parts[i] : FlattenSeq(parts)[p] = parts[i][k]
        BY <1>6 DEF Places
    <2>. QED  BY <1>4, <2>1 DEF EntriesFit
<1>8. IsList(FlattenSeq(parts))
    BY <1>6 DEF Places
<1>. QED  BY <1>3, <1>7, <1>8 DEF EntriesFit

(* A step that was read has no more than its kind has fields for.           *)
IsParsed(s) ==
    /\ s = [kind |-> s.kind, device |-> s.device, id |-> s.id, refs |-> s.refs, when |-> s.when]
    /\ IsList(s.refs)
    /\ s.kind \in {"wait", "wait-for", "assert"} => s.device = None
    /\ s.kind \notin {"run", "spawn", "gen-file", "assert"} => DOMAIN s.refs = {}

LEMMA ParsedIs ==
    ASSUME NEW s, IsList(s.refs)
    PROVE  IsParsed(Parsed(s))
<1>1. IsList(<<>>) /\ DOMAIN <<>> = {}
    <2>1. <<>> = [k \in 1..0 |-> <<>>[k]] /\ DOMAIN <<>> = {}
        OBVIOUS
    <2>. QED  BY <2>1, ListOf
<1>2. PICK p : p = Parsed(s)
    OBVIOUS
<1>3. p = [kind |-> p.kind, device |-> p.device, id |-> p.id, refs |-> p.refs, when |-> p.when]
    BY <1>2 DEF Parsed, SimStep
<1>4. p.kind = s.kind /\ (p.kind \in {"wait", "wait-for", "assert"} => p.device = None)
    BY <1>2 DEF Parsed, SimStep
<1>5. p.refs = IF p.kind \in {"run", "spawn", "gen-file", "assert"} THEN s.refs ELSE <<>>
    BY <1>2, <1>4 DEF Parsed, SimStep
<1>. QED  BY <1>1, <1>2, <1>3, <1>4, <1>5 DEF IsParsed

LEMMA ExpandedIs ==
    ASSUME NEW sim, SimFits(sim), StepsOk(sim)
    PROVE  IsList(Expanded(sim)) /\ \A i \in DOMAIN Expanded(sim) : IsParsed(Expanded(sim)[i])
<1>1. PICK flat : flat = Flattened(sim) /\ EntriesFit(flat)
    BY FlattenedFits
<1>2. PICK n \in Nat : DOMAIN flat = 1..n
    BY <1>1, ListLen DEF EntriesFit
<1>3. PICK steps : steps = Expanded(sim)
    OBVIOUS
<1>4. DOMAIN steps = 1..n /\ steps = [i \in 1..n |-> steps[i]]
    BY <1>1, <1>2, <1>3 DEF Expanded
<1>5. ASSUME NEW i \in 1..n PROVE IsParsed(steps[i])
    <2>1. PICK e : e = flat[i] /\ IsList(e.step.refs)
        BY <1>1, <1>2 DEF EntriesFit
    <2>2. CASE e.use = "none"
        <3>1. steps[i] = Parsed(e.step)
            BY <1>1, <1>2, <1>3, <2>1, <2>2 DEF Expanded
        <3>. QED  BY <2>1, <3>1, ParsedIs
    <2>3. CASE e.use # "none"
        <3>1. PICK t : t = Templates(sim)[e.use]
            OBVIOUS
        <3>2. steps[i] = Parsed(MergeUse(e, t))
            BY <1>1, <1>2, <1>3, <2>1, <2>3, <3>1 DEF Expanded
        <3>3. IsList(t.refs)
            <4>1. e.use \in DOMAIN Templates(sim)
                BY <1>1, <1>2, <2>1, <2>3 DEF StepsOk
            <4>. QED  BY <3>1, <4>1, TemplateFits
        <3>4. PICK m \in Nat : DOMAIN (t.refs \o e.step.refs) = 1..m
            BY <2>1, <3>3, ConcatList
        <3>5. PICK new : new = MergeUse(e, t).refs
            OBVIOUS
        <3>6. DOMAIN new = 1..m /\ new = [k \in 1..m |-> new[k]]
            BY <3>4, <3>5 DEF MergeUse, SimStep
        <3>7. IsList(new)
            BY <3>6, ListOf
        <3>. QED  BY <3>2, <3>5, <3>7, ParsedIs
    <2>. QED  BY <2>2, <2>3
<1>6. IsList(steps)
    BY <1>4, ListOf
<1>. QED  BY <1>3, <1>4, <1>5, <1>6
----------------------------------------------------------------------------
(***************************************************************************)
(* Counted devices.                                                        *)
(***************************************************************************)

(* A numbered name has the name and the number.                             *)
LEMMA NumberedOnce ==
    ASSUME NEW d, d \in Seq(STRING), NEW e, e \in Seq(STRING), NEW i \in Nat, NEW j \in Nat,
           Numbered(d, i) = Numbered(e, j)
    PROVE  d = e /\ ToString(i) = ToString(j)
<1>1. PICK a, b : a = ToString(i) /\ b = ToString(j)
    OBVIOUS
<1>2. PICK S : S = STRING \cup {a, b}
    OBVIOUS
<1>3. d \in Seq(S) /\ e \in Seq(S) /\ a \in S /\ b \in S
    BY <1>2, SeqDef
<1>4. Append(d, a) = Append(e, b)
    BY <1>1 DEF Numbered
<1>5. d = e /\ a = b
    BY <1>3, <1>4, AppendInjective
<1>. QED  BY <1>1, <1>5

LEMMA NumberedNotNone ==
    ASSUME NEW d, d \in Seq(STRING), NEW i
    PROVE  Numbered(d, i) # None
<1>1. PICK a : a = ToString(i)
    OBVIOUS
<1>2. PICK S : S = STRING \cup {a}
    OBVIOUS
<1>3. d \in Seq(S) /\ a \in S
    BY <1>2, SeqDef
<1>4. Append(d, a) # <<>>
    BY <1>3, AppendProperties
<1>. QED  BY <1>1, <1>4 DEF Numbered, None

(* What a step with a counted device or a reference to one relies on.       *)
CountsFit(topo, counts) ==
    /\ \A d \in DOMAIN counts :
           /\ d \in Seq(STRING) /\ counts[d] \in Nat \ {0}
           /\ \A i \in 0..(counts[d] - 1) : Numbered(d, i) \in LabDevices(topo)
           /\ \A i, j \in 0..(counts[d] - 1) : Numbered(d, i) = Numbered(d, j) => i = j
    /\ None \notin DOMAIN counts
    /\ \A d \in DOMAIN topo.devices : d \notin DOMAIN counts => d \in LabDevices(topo)
NoCountOfOne(topo) == \A d \in DOMAIN topo.devices : topo.devices[d].count # <<1>>

LEMMA LabCounts ==
    ASSUME NEW topo, TopologyFits(topo), LabOk(topo), NoCountOfOne(topo)
    PROVE  CountsFit(topo, DeviceCounts(topo))
<1>1. PICK counts : counts = DeviceCounts(topo)
    OBVIOUS
<1>2. ASSUME NEW d \in DOMAIN counts
      PROVE  /\ d \in DOMAIN topo.devices /\ topo.devices[d].count # None
             /\ counts[d] = topo.devices[d].count[1]
    BY <1>1, <1>2 DEF DeviceCounts, None
<1>3. ASSUME NEW d \in DOMAIN topo.devices
      PROVE  d \in Seq(STRING) /\ d # None
    BY <1>3 DEF TopologyFits
<1>4. ASSUME NEW d \in DOMAIN counts
      PROVE  counts[d] \in Nat \ {0}
    <2>1. PICK c : c = topo.devices[d].count
        OBVIOUS
    <2>2. c \in Seq(Nat) /\ Len(c) <= 1
        BY <1>2, <2>1 DEF TopologyFits
    <2>3. c # None
        BY <1>2, <2>1
    <2>4. c # <<0>>
        BY <1>2, <2>1 DEF LabOk
    <2>5. Len(c) = 1
        <3>1. c # <<>>
            BY <2>3 DEF None
        <3>2. Len(c) \in Nat \ {0}
            BY <2>2, <3>1, EmptySeq
        <3>3. PICK k : k = Len(c)
            OBVIOUS
        <3>4. k \in Nat \ {0} /\ k <= 1
            BY <2>2, <3>2, <3>3
        <3>5. k = 1
            BY <3>4
        <3>. QED  BY <3>3, <3>5
    <2>6. c[1] \in Nat
        <3>1. 1 \in 1..Len(c)
            BY <2>5
        <3>. QED  BY <2>2, <3>1, ElementOfSeq
    <2>7. c[1] # 0
        <3>1. SUFFICES ASSUME c[1] = 0 PROVE FALSE
            OBVIOUS
        <3>2. <<0>> \in Seq(Nat) /\ Len(<<0>>) = 1 /\ <<0>>[1] = 0
            OBVIOUS
        <3>3. c = <<0>>
            BY <2>2, <2>5, <3>1, <3>2, SeqEqual
        <3>. QED  BY <2>4, <3>3
    <2>. QED  BY <1>2, <2>1, <2>6, <2>7
<1>5. ASSUME NEW d \in DOMAIN counts, NEW i \in 0..(counts[d] - 1)
      PROVE  Numbered(d, i) \in LabDevices(topo)
    <2>1. DevicesOf(topo, d) = Instances(d, counts[d])
        BY <1>2 DEF DevicesOf, None
    <2>2. Numbered(d, i) \in Instances(d, counts[d])
        BY DEF Instances
    <2>. QED  BY <1>2, <2>1, <2>2 DEF LabDevices
<1>6. ASSUME NEW d \in DOMAIN counts,
             NEW i \in 0..(counts[d] - 1), NEW j \in 0..(counts[d] - 1), Numbered(d, i) = Numbered(d, j)
      PROVE  i = j
    <2>1. i \in Nat /\ j \in Nat
        BY <1>4
    <2>2. ToString(i) = ToString(j)
        BY <1>2, <1>3, <1>6, <2>1, NumberedOnce
    <2>. QED  BY <1>2, <1>6, <2>2 DEF TopologyFits
<1>7. None \notin DOMAIN counts
    BY <1>2, <1>3
<1>8. ASSUME NEW d \in DOMAIN topo.devices, d \notin DOMAIN counts
      PROVE  d \in LabDevices(topo)
    <2>1. topo.devices[d].count = <<>>
        BY <1>1, <1>8 DEF DeviceCounts, NoCountOfOne
    <2>2. DevicesOf(topo, d) = {d}
        BY <2>1 DEF DevicesOf
    <2>. QED  BY <2>2 DEF LabDevices
<1>9. \A d \in DOMAIN counts : d \in Seq(STRING)
    BY <1>2, <1>3
<1>. QED  BY <1>1, <1>4, <1>5, <1>6, <1>7, <1>8, <1>9 DEF CountsFit

(* The four ways in which a step is expanded.                               *)
LEMMA OfCounted ==
    ASSUME NEW topo, NEW counts, CountsFit(topo, counts), NEW s, IsParsed(s), s.device \in DOMAIN counts
    PROVE  /\ IsList(CountedStep(s, counts)) /\ DOMAIN CountedStep(s, counts) = 1..counts[s.device]
           /\ \A i \in 1..counts[s.device] : LET c == CountedStep(s, counts)[i] IN
                  /\ c.kind = s.kind /\ c.device = Numbered(s.device, i - 1)
                  /\ c.id = IF s.id = None THEN None ELSE Numbered(s.id, i - 1)
                  /\ DOMAIN c.refs = DOMAIN s.refs
                  /\ \A k \in DOMAIN s.refs : c.refs[k] = CountedRef(s.refs[k], i - 1, counts)
<1>1. PICK n \in Nat : n = counts[s.device]
    BY DEF CountsFit
<1>2. PICK new : new = CountedStep(s, counts)
    OBVIOUS
<1>3. DOMAIN new = 1..n
    BY <1>1, <1>2 DEF CountedStep
<1>4. ASSUME NEW i \in 1..n
      PROVE  /\ new[i].kind = s.kind /\ new[i].device = Numbered(s.device, i - 1)
             /\ new[i].id = IF s.id = None THEN None ELSE Numbered(s.id, i - 1)
             /\ new[i].refs = IF s.kind \in {"run", "spawn", "gen-file"}
                              THEN [k \in DOMAIN s.refs |-> CountedRef(s.refs[k], i - 1, counts)]
                              ELSE s.refs
    BY <1>1, <1>2 DEF CountedStep, SimStep
<1>5. s.kind \in {"run", "spawn", "gen-file"} \/ DOMAIN s.refs = {}
    BY DEF IsParsed, CountsFit
<1>6. ASSUME NEW i \in 1..n
      PROVE  /\ DOMAIN new[i].refs = DOMAIN s.refs
             /\ \A k \in DOMAIN s.refs : new[i].refs[k] = CountedRef(s.refs[k], i - 1, counts)
    BY <1>4, <1>5
<1>7. new = [i \in 1..n |-> new[i]]
    BY <1>1, <1>2, <1>3 DEF CountedStep
<1>8. IsList(new)
    BY <1>7, ListOf
<1>. QED  BY <1>1, <1>2, <1>3, <1>4, <1>6, <1>8

LEMMA OfWait ==
    ASSUME NEW topo, NEW counts, CountsFit(topo, counts), NEW s, IsParsed(s),
           s.kind = "wait-for", s.id \in DOMAIN counts
    PROVE  /\ IsList(CountedStep(s, counts)) /\ DOMAIN CountedStep(s, counts) = 1..counts[s.id]
           /\ \A i \in 1..counts[s.id] : LET c == CountedStep(s, counts)[i] IN
                  c.kind = "wait-for" /\ c.device = None /\ c.id = Numbered(s.id, i - 1)
                      /\ DOMAIN c.refs = {}
<1>1. PICK n \in Nat : n = counts[s.id]
    BY DEF CountsFit
<1>2. s.device = None /\ None \notin DOMAIN counts /\ DOMAIN s.refs = {}
    BY DEF IsParsed, CountsFit
<1>3. PICK new : new = CountedStep(s, counts)
    OBVIOUS
<1>4. new = [i \in 1..n |-> [s EXCEPT !.id = Numbered(s.id, i - 1)]]
    BY <1>1, <1>2, <1>3 DEF CountedStep
<1>5. DOMAIN new = 1..n /\ new = [i \in 1..n |-> new[i]]
    BY <1>4
<1>6. ASSUME NEW i \in 1..n
      PROVE  /\ new[i].kind = "wait-for" /\ new[i].device = None
             /\ new[i].id = Numbered(s.id, i - 1) /\ DOMAIN new[i].refs = {}
    <2>1. PICK x : x = Numbered(s.id, i - 1)
        OBVIOUS
    <2>2. new[i] = [s EXCEPT !.id = x]
        BY <1>4, <2>1
    <2>. QED  BY <1>2, <2>1, <2>2 DEF IsParsed
<1>7. IsList(new)
    BY <1>5, ListOf
<1>. QED  BY <1>1, <1>3, <1>5, <1>6, <1>7

LEMMA OfAssert ==
    ASSUME NEW topo, NEW counts, CountsFit(topo, counts), NEW s, IsParsed(s), s.kind = "assert"
    PROVE  /\ IsList(CountedStep(s, counts)) /\ DOMAIN CountedStep(s, counts) = 1..1
           /\ LET c == CountedStep(s, counts)[1] IN
              /\ c.kind = "assert" /\ c.device = None
              /\ \A k \in DOMAIN c.refs : \E l \in DOMAIN s.refs :
                     IF s.refs[l] \in DOMAIN counts
                     THEN \E i \in 0..(counts[s.refs[l]] - 1) : c.refs[k] = Numbered(s.refs[l], i)
                     ELSE c.refs[k] = s.refs[l]
<1>1. s.device = None /\ None \notin DOMAIN counts /\ IsList(s.refs)
    BY DEF IsParsed, CountsFit
<1>2. PICK n \in Nat : DOMAIN s.refs = 1..n
    BY <1>1, ListLen
<1>3. PICK all : all = [l \in 1..n |-> IF s.refs[l] \notin DOMAIN counts THEN <<s.refs[l]>>
                           ELSE [i \in 1..counts[s.refs[l]] |-> Numbered(s.refs[l], i - 1)]]
    OBVIOUS
<1>4. ASSUME NEW l \in 1..n
      PROVE  IsList(all[l]) /\ \A k \in DOMAIN all[l] :
                 IF s.refs[l] \in DOMAIN counts
                 THEN \E i \in 0..(counts[s.refs[l]] - 1) : all[l][k] = Numbered(s.refs[l], i)
                 ELSE all[l][k] = s.refs[l]
    <2>1. PICK x : x = s.refs[l]
        OBVIOUS
    <2>2. CASE x \notin DOMAIN counts
        <3>1. all[l] = <<x>>
            BY <1>3, <2>1, <2>2
        <3>2. <<x>> = [k \in 1..1 |-> <<x>>[k]] /\ \A k \in DOMAIN <<x>> : <<x>>[k] = x
            OBVIOUS
        <3>3. IsList(<<x>>)
            BY <3>2, ListOf
        <3>. QED  BY <2>1, <2>2, <3>1, <3>2, <3>3
    <2>3. CASE x \in DOMAIN counts
        <3>1. PICK m \in Nat : m = counts[x]
            BY <2>3 DEF CountsFit
        <3>2. PICK a : a = [i \in 1..m |-> Numbered(x, i - 1)]
            OBVIOUS
        <3>3. all[l] = a
            BY <1>3, <2>1, <2>3, <3>1, <3>2
        <3>4. DOMAIN a = 1..m /\ a = [i \in 1..m |-> a[i]]
            BY <3>2
        <3>5. IsList(a)
            BY <3>4, ListOf
        <3>6. ASSUME NEW k \in DOMAIN a PROVE \E i \in 0..(m - 1) : a[k] = Numbered(x, i)
            <4>1. k \in 1..m /\ k - 1 \in 0..(m - 1)
                BY <3>4
            <4>. QED  BY <3>2, <4>1
        <3>. QED  BY <2>1, <2>3, <3>1, <3>3, <3>5, <3>6
    <2>. QED  BY <2>2, <2>3
<1>5. IsList(all) /\ Len(all) = n /\ DOMAIN all = 1..n
    <2>1. all = [l \in 1..n |-> all[l]] /\ DOMAIN all = 1..n
        BY <1>3
    <2>. QED  BY <2>1, ListOf
<1>6. PICK pos : Places(all, n, FlattenSeq(all), pos)
    BY <1>4, <1>5, Flatten
<1>7. PICK refs : refs = FlattenSeq(all)
    OBVIOUS
<1>8. ASSUME NEW k \in DOMAIN refs
      PROVE  \E l \in DOMAIN s.refs :
                 IF s.refs[l] \in DOMAIN counts
                 THEN \E i \in 0..(counts[s.refs[l]] - 1) : refs[k] = Numbered(s.refs[l], i)
                 ELSE refs[k] = s.refs[l]
    <2>1. PICK l \in 1..n : \E m \in DOMAIN all[l] : refs[k] = all[l][m]
        BY <1>6, <1>7 DEF Places
    <2>2. PICK m \in DOMAIN all[l] : refs[k] = all[l][m]
        BY <2>1
    <2>. QED  BY <1>2, <1>4, <2>2
<1>9. PICK c : c = [s EXCEPT !.refs = refs]
    OBVIOUS
<1>10. CountedStep(s, counts) = <<c>>
    BY <1>1, <1>2, <1>3, <1>7, <1>9 DEF CountedStep
<1>11. c.kind = "assert" /\ c.device = None /\ c.refs = refs
    BY <1>1, <1>9 DEF IsParsed
<1>12. <<c>> = [k \in 1..1 |-> <<c>>[k]] /\ DOMAIN <<c>> = 1..1 /\ <<c>>[1] = c
    OBVIOUS
<1>13. IsList(<<c>>)
    BY <1>12, ListOf
<1>. QED  BY <1>8, <1>10, <1>11, <1>12, <1>13

LEMMA OfOther ==
    ASSUME NEW counts, NEW s, s.device \notin DOMAIN counts, s.kind # "assert",
           ~(s.kind = "wait-for" /\ s.id \in DOMAIN counts)
    PROVE  /\ IsList(CountedStep(s, counts)) /\ DOMAIN CountedStep(s, counts) = 1..1
           /\ CountedStep(s, counts)[1] = s
<1>1. CountedStep(s, counts) = <<s>>
    BY DEF CountedStep
<1>2. <<s>> = [k \in 1..1 |-> <<s>>[k]] /\ DOMAIN <<s>> = 1..1 /\ <<s>>[1] = s
    OBVIOUS
<1>3. IsList(<<s>>)
    BY <1>2, ListOf
<1>. QED  BY <1>1, <1>2, <1>3
----------------------------------------------------------------------------
(***************************************************************************)
(* The steps fit the lab.                                                  *)
(***************************************************************************)

(* What Meant says, of the steps before and the counts.                     *)
MeantBy(topo, counts, steps) ==
    /\ \A i \in DOMAIN steps : steps[i].device \in DOMAIN topo.devices \cup {None}
    /\ \A i, j \in Capturers(steps) : steps[i].id = steps[j].id => i = j
    /\ \A i \in Capturers(steps) :
           /\ steps[i].device \in DOMAIN counts \/ steps[i].id \in DOMAIN counts
                  => steps[i].id = steps[i].device
           /\ \A d \in DOMAIN counts : steps[i].id \notin Instances(d, counts[d])
    /\ \A i \in DOMAIN steps : steps[i].kind = "wait-for" =>
           \E j \in Capturers(steps) : steps[j].id = steps[i].id
    /\ \A i \in DOMAIN steps : \A k \in DOMAIN steps[i].refs :
           /\ \E j \in Capturers(steps) : steps[j].id = steps[i].refs[k]
           /\ steps[i].refs[k] \in DOMAIN counts =>
                  steps[i].device \in DOMAIN counts \/ steps[i].kind = "assert"

(* The steps before and after counted devices are expanded: from[p] is the  *)
(* step that out[p] comes from, and its number among those.                 *)
Expansion(topo, counts, steps, out, from) ==
    /\ CountsFit(topo, counts) /\ MeantBy(topo, counts, steps)
    /\ IsList(steps) /\ \A i \in DOMAIN steps : IsParsed(steps[i])
    /\ \A p \in DOMAIN out :
           /\ from[p] = <<from[p][1], from[p][2]>>
           /\ from[p][1] \in DOMAIN steps
           /\ from[p][2] \in DOMAIN CountedStep(steps[from[p][1]], counts)
           /\ out[p] = CountedStep(steps[from[p][1]], counts)[from[p][2]]
    /\ \A p, q \in DOMAIN out : from[p] = from[q] => p = q
    /\ \A i \in DOMAIN steps : \A k \in DOMAIN CountedStep(steps[i], counts) :
           \E p \in DOMAIN out : from[p] = <<i, k>>

IdsOf(steps) == {steps[i].id : i \in Capturers(steps)}

(* A step that captures is neither a wait nor an assertion.                 *)
LEMMA CapturersKind ==
    ASSUME NEW steps, NEW i \in Capturers(steps)
    PROVE  /\ i \in DOMAIN steps /\ steps[i].kind \in Capturing /\ steps[i].id # None
           /\ steps[i].kind # "assert" /\ steps[i].kind # "wait-for"
BY DEF Capturers, Capturing

(* An id that names an uncounted device or none stays, and one of a counted *)
(* device is there for every instance.                                      *)
LEMMA IdsStay ==
    ASSUME NEW topo, NEW counts, NEW steps, NEW out, NEW from,
           Expansion(topo, counts, steps, out, from), NEW j \in Capturers(steps)
    PROVE  IF steps[j].id \in DOMAIN counts
           THEN \A i \in 0..(counts[steps[j].id] - 1) : Numbered(steps[j].id, i) \in IdsOf(out)
           ELSE steps[j].id \in IdsOf(out)
<1>1. PICK s : s = steps[j]
    OBVIOUS
<1>2. /\ j \in DOMAIN steps /\ s.kind \in Capturing /\ s.id # None
      /\ s.kind # "assert" /\ s.kind # "wait-for"
    BY <1>1, CapturersKind
<1>3. CountsFit(topo, counts) /\ IsParsed(s)
    BY <1>1, <1>2 DEF Expansion
<1>4. s.device \in DOMAIN counts \/ s.id \in DOMAIN counts => s.id = s.device
    BY <1>1 DEF Expansion, MeantBy
<1>5. \A k \in DOMAIN CountedStep(s, counts) : \E p \in DOMAIN out : out[p] = CountedStep(s, counts)[k]
    <2> SUFFICES ASSUME NEW k \in DOMAIN CountedStep(s, counts)
                 PROVE  \E p \in DOMAIN out : out[p] = CountedStep(s, counts)[k]
        OBVIOUS
    <2>1. PICK p \in DOMAIN out : from[p] = <<j, k>>
        BY <1>1, <1>2 DEF Expansion
    <2>2. out[p] = CountedStep(steps[from[p][1]], counts)[from[p][2]]
        BY DEF Expansion
    <2>. QED  BY <1>1, <2>1, <2>2
<1>6. ASSUME s.id \in DOMAIN counts, NEW i \in 0..(counts[s.id] - 1)
      PROVE  Numbered(s.id, i) \in IdsOf(out)
    <2>1. s.device = s.id /\ s.device \in Seq(STRING) /\ counts[s.device] \in Nat
        BY <1>3, <1>4, <1>6 DEF CountsFit
    <2>2. i + 1 \in 1..counts[s.device] /\ i + 1 - 1 = i
        BY <1>6, <2>1
    <2>3. PICK c : c = CountedStep(s, counts)[i + 1]
        OBVIOUS
    <2>4. DOMAIN CountedStep(s, counts) = 1..counts[s.device] /\ c.kind = s.kind /\ c.id = Numbered(s.id, i)
        BY <1>2, <1>3, <1>6, <2>1, <2>2, <2>3, OfCounted
    <2>5. PICK p \in DOMAIN out : out[p] = c
        BY <1>5, <2>2, <2>3, <2>4
    <2>6. Numbered(s.id, i) # None
        BY <2>1, NumberedNotNone
    <2>7. p \in Capturers(out)
        BY <1>2, <2>4, <2>5, <2>6 DEF Capturers
    <2>. QED  BY <2>4, <2>5, <2>7 DEF IdsOf
<1>7. ASSUME s.id \notin DOMAIN counts PROVE s.id \in IdsOf(out)
    <2>1. s.device \notin DOMAIN counts
        BY <1>4, <1>7
    <2>2. DOMAIN CountedStep(s, counts) = 1..1 /\ CountedStep(s, counts)[1] = s
        BY <1>2, <2>1, OfOther
    <2>3. 1 \in DOMAIN CountedStep(s, counts)
        BY <2>2
    <2>4. PICK p \in DOMAIN out : out[p] = s
        BY <1>5, <2>2, <2>3
    <2>5. p \in Capturers(out)
        BY <1>2, <2>4 DEF Capturers
    <2>. QED  BY <2>4, <2>5 DEF IdsOf
<1>. QED  BY <1>1, <1>6, <1>7

(* Where a step of the expanded list comes from.                            *)
LEMMA ComesFrom ==
    ASSUME NEW topo, NEW counts, NEW steps, NEW out, NEW from,
           Expansion(topo, counts, steps, out, from), NEW p \in DOMAIN out
    PROVE  \E i \in DOMAIN steps : \E k \in DOMAIN CountedStep(steps[i], counts) :
               from[p] = <<i, k>> /\ out[p] = CountedStep(steps[i], counts)[k] /\ IsParsed(steps[i])
BY DEF Expansion

(* An id after the expansion is one from before, or an instance's.          *)
LEMMA IdFrom ==
    ASSUME NEW topo, NEW counts, NEW steps, NEW out, NEW from,
           Expansion(topo, counts, steps, out, from), NEW p \in Capturers(out)
    PROVE  \E i \in Capturers(steps) : \E k \in Nat :
               /\ from[p] = <<i, k + 1>>
               /\ IF steps[i].device \in DOMAIN counts
                  THEN /\ steps[i].id = steps[i].device /\ k \in 0..(counts[steps[i].device] - 1)
                       /\ out[p].id = Numbered(steps[i].device, k)
                  ELSE k = 0 /\ out[p].id = steps[i].id
<1>1. p \in DOMAIN out /\ out[p].kind \in Capturing /\ out[p].id # None
      /\ out[p].kind # "assert" /\ out[p].kind # "wait-for"
    BY CapturersKind
<1>2. PICK i \in DOMAIN steps : \E l \in DOMAIN CountedStep(steps[i], counts) :
          from[p] = <<i, l>> /\ out[p] = CountedStep(steps[i], counts)[l] /\ IsParsed(steps[i])
    BY <1>1, ComesFrom
<1>3. PICK s : s = steps[i]
    OBVIOUS
<1>4. PICK l \in DOMAIN CountedStep(s, counts) :
          from[p] = <<i, l>> /\ out[p] = CountedStep(s, counts)[l] /\ IsParsed(s)
    BY <1>2, <1>3
<1>5. CountsFit(topo, counts)
    BY DEF Expansion
<1>6. CASE s.device \in DOMAIN counts
    <2>1. PICK n \in Nat : n = counts[s.device]
        BY <1>5, <1>6 DEF CountsFit
    <2>2. DOMAIN CountedStep(s, counts) = 1..n
          /\ \A x \in 1..n : LET c == CountedStep(s, counts)[x] IN
                 c.kind = s.kind /\ c.id = IF s.id = None THEN None ELSE Numbered(s.id, x - 1)
        BY <1>4, <1>5, <1>6, <2>1, OfCounted
    <2>3. PICK k \in Nat : k + 1 = l /\ k = l - 1 /\ k \in 0..(n - 1)
        <3>1. l \in 1..n
            BY <2>2
        <3>2. l - 1 \in Nat /\ l - 1 + 1 = l /\ l - 1 \in 0..(n - 1)
            BY <3>1
        <3>. QED  BY <3>2
    <2>4. out[p].kind = s.kind /\ out[p].id = IF s.id = None THEN None ELSE Numbered(s.id, k)
        BY <1>4, <2>2, <2>3
    <2>5. i \in Capturers(steps)
        BY <1>1, <1>3, <2>4 DEF Capturers
    <2>6. s.id = s.device
        BY <1>3, <1>6, <2>5 DEF Expansion, MeantBy
    <2>7. out[p].id = Numbered(s.device, k)
        BY <1>1, <2>4, <2>6
    <2>. QED  BY <1>3, <1>4, <1>6, <2>1, <2>3, <2>5, <2>6, <2>7
<1>7. CASE s.device \notin DOMAIN counts
    <2>1. s.kind # "assert"
        <3>1. SUFFICES ASSUME s.kind = "assert" PROVE FALSE
            OBVIOUS
        <3>2. DOMAIN CountedStep(s, counts) = 1..1 /\ CountedStep(s, counts)[1].kind = "assert"
            BY <1>4, <1>5, <3>1, OfAssert
        <3>. QED  BY <1>1, <1>4, <3>2
    <2>2. ~(s.kind = "wait-for" /\ s.id \in DOMAIN counts)
        <3>1. SUFFICES ASSUME s.kind = "wait-for", s.id \in DOMAIN counts PROVE FALSE
            OBVIOUS
        <3>2. DOMAIN CountedStep(s, counts) = 1..counts[s.id]
              /\ \A x \in 1..counts[s.id] : CountedStep(s, counts)[x].kind = "wait-for"
            BY <1>4, <1>5, <3>1, OfWait
        <3>. QED  BY <1>1, <1>4, <3>2
    <2>3. DOMAIN CountedStep(s, counts) = 1..1 /\ CountedStep(s, counts)[1] = s
        BY <1>7, <2>1, <2>2, OfOther
    <2>4. l = 1 /\ out[p] = s
        BY <1>4, <2>3
    <2>5. i \in Capturers(steps)
        BY <1>1, <1>3, <2>4 DEF Capturers
    <2>6. 0 \in Nat /\ 0 + 1 = 1
        OBVIOUS
    <2>. QED  BY <1>3, <1>4, <1>7, <2>4, <2>5, <2>6
<1>. QED  BY <1>6, <1>7
----------------------------------------------------------------------------
LEMMA IdsUnique ==
    ASSUME NEW topo, NEW counts, NEW steps, NEW out, NEW from,
           Expansion(topo, counts, steps, out, from),
           NEW p \in Capturers(out), NEW q \in Capturers(out), out[p].id = out[q].id
    PROVE  p = q
<1>1. PICK i \in Capturers(steps) : \E k \in Nat :
          /\ from[p] = <<i, k + 1>>
          /\ IF steps[i].device \in DOMAIN counts
             THEN /\ steps[i].id = steps[i].device /\ k \in 0..(counts[steps[i].device] - 1)
                  /\ out[p].id = Numbered(steps[i].device, k)
             ELSE k = 0 /\ out[p].id = steps[i].id
    BY IdFrom
<1>2. PICK k \in Nat :
          /\ from[p] = <<i, k + 1>>
          /\ IF steps[i].device \in DOMAIN counts
             THEN /\ steps[i].id = steps[i].device /\ k \in 0..(counts[steps[i].device] - 1)
                  /\ out[p].id = Numbered(steps[i].device, k)
             ELSE k = 0 /\ out[p].id = steps[i].id
    BY <1>1
<1>3. PICK j \in Capturers(steps) : \E l \in Nat :
          /\ from[q] = <<j, l + 1>>
          /\ IF steps[j].device \in DOMAIN counts
             THEN /\ steps[j].id = steps[j].device /\ l \in 0..(counts[steps[j].device] - 1)
                  /\ out[q].id = Numbered(steps[j].device, l)
             ELSE l = 0 /\ out[q].id = steps[j].id
    BY IdFrom
<1>4. PICK l \in Nat :
          /\ from[q] = <<j, l + 1>>
          /\ IF steps[j].device \in DOMAIN counts
             THEN /\ steps[j].id = steps[j].device /\ l \in 0..(counts[steps[j].device] - 1)
                  /\ out[q].id = Numbered(steps[j].device, l)
             ELSE l = 0 /\ out[q].id = steps[j].id
    BY <1>3
<1>5. CountsFit(topo, counts) /\ MeantBy(topo, counts, steps)
    BY DEF Expansion
<1>6. p \in DOMAIN out /\ q \in DOMAIN out
    BY CapturersKind
<1>7. steps[i].id = steps[j].id => i = j
    BY <1>5 DEF MeantBy
<1>8. SUFFICES k = l /\ i = j
    BY <1>2, <1>4, <1>6 DEF Expansion
<1>9. CASE steps[i].device \in DOMAIN counts /\ steps[j].device \in DOMAIN counts
    <2>1. PICK d, e : d = steps[i].device /\ e = steps[j].device
        OBVIOUS
    <2>2. d \in Seq(STRING) /\ e \in Seq(STRING)
        BY <1>5, <1>9, <2>1 DEF CountsFit
    <2>3. Numbered(d, k) = Numbered(e, l)
        BY <1>2, <1>4, <1>9, <2>1
    <2>4. d = e
        BY <2>2, <2>3, NumberedOnce
    <2>5. i = j
        BY <1>2, <1>4, <1>7, <1>9, <2>1, <2>4
    <2>6. k = l
        BY <1>2, <1>4, <1>5, <1>9, <2>1, <2>3, <2>4 DEF CountsFit
    <2>. QED  BY <2>5, <2>6
<1>10. CASE steps[i].device \notin DOMAIN counts /\ steps[j].device \notin DOMAIN counts
    BY <1>2, <1>4, <1>7, <1>10
<1>11. ASSUME NEW x \in Capturers(steps), NEW y \in Capturers(steps),
              steps[x].device \in DOMAIN counts, NEW m \in 0..(counts[steps[x].device] - 1)
       PROVE  steps[y].id # Numbered(steps[x].device, m)
    <2>1. Numbered(steps[x].device, m) \in Instances(steps[x].device, counts[steps[x].device])
        BY DEF Instances
    <2>. QED  BY <1>5, <1>11, <2>1 DEF MeantBy
<1>12. CASE steps[i].device \in DOMAIN counts /\ steps[j].device \notin DOMAIN counts
    BY <1>2, <1>4, <1>11, <1>12
<1>13. CASE steps[i].device \notin DOMAIN counts /\ steps[j].device \in DOMAIN counts
    BY <1>2, <1>4, <1>11, <1>13
<1>. QED  BY <1>9, <1>10, <1>12, <1>13

(* A reference before, and what it becomes for an instance or an assertion, *)
(* are captured.                                                            *)
LEMMA RefsStay ==
    ASSUME NEW topo, NEW counts, NEW steps, NEW out, NEW from,
           Expansion(topo, counts, steps, out, from),
           NEW ref, \E j \in Capturers(steps) : steps[j].id = ref
    PROVE  /\ ref \notin DOMAIN counts => ref \in IdsOf(out)
           /\ ref \in DOMAIN counts =>
                  /\ \A i \in 0..(counts[ref] - 1) : Numbered(ref, i) \in IdsOf(out)
           /\ \A i \in Nat : CountedRef(ref, i, counts) \in IdsOf(out)
<1>1. PICK j \in Capturers(steps) : steps[j].id = ref
    OBVIOUS
<1>2. IF ref \in DOMAIN counts
      THEN \A i \in 0..(counts[ref] - 1) : Numbered(ref, i) \in IdsOf(out)
      ELSE ref \in IdsOf(out)
    BY <1>1, IdsStay
<1>3. ASSUME NEW i \in Nat PROVE CountedRef(ref, i, counts) \in IdsOf(out)
    <2>1. CASE ref \notin DOMAIN counts
        BY <1>2, <2>1 DEF CountedRef
    <2>2. CASE ref \in DOMAIN counts
        <3>1. PICK n \in Nat : n = counts[ref] /\ n # 0
            BY <2>2 DEF Expansion, CountsFit
        <3>2. i % n \in 0..(n - 1)
            BY <3>1
        <3>3. CountedRef(ref, i, counts) = Numbered(ref, i % n)
            BY <2>2, <3>1 DEF CountedRef
        <3>. QED  BY <1>2, <2>2, <3>1, <3>2, <3>3
    <2>. QED  BY <2>1, <2>2
<1>. QED  BY <1>2, <1>3

(* What the steps of the expanded list address, refer to and wait for.      *)
LEMMA StepFits ==
    ASSUME NEW topo, NEW counts, NEW steps, NEW out, NEW from,
           Expansion(topo, counts, steps, out, from), NEW p \in DOMAIN out
    PROVE  /\ out[p].device \in LabDevices(topo) \cup {None}
           /\ \A k \in DOMAIN out[p].refs : out[p].refs[k] \in IdsOf(out)
           /\ out[p].kind = "wait-for" => out[p].id \in IdsOf(out)
<1>1. PICK i \in DOMAIN steps : \E l \in DOMAIN CountedStep(steps[i], counts) :
          from[p] = <<i, l>> /\ out[p] = CountedStep(steps[i], counts)[l] /\ IsParsed(steps[i])
    BY ComesFrom
<1>2. PICK s : s = steps[i]
    OBVIOUS
<1>3. PICK l \in DOMAIN CountedStep(s, counts) : out[p] = CountedStep(s, counts)[l] /\ IsParsed(s)
    BY <1>1, <1>2
<1>4. CountsFit(topo, counts) /\ MeantBy(topo, counts, steps)
    BY DEF Expansion
<1>5. s.device \in DOMAIN topo.devices \cup {None}
    BY <1>2, <1>4 DEF MeantBy
<1>6. \A k \in DOMAIN s.refs :
          /\ \E j \in Capturers(steps) : steps[j].id = s.refs[k]
          /\ s.refs[k] \in DOMAIN counts => s.device \in DOMAIN counts \/ s.kind = "assert"
    BY <1>2, <1>4 DEF MeantBy
<1>7. s.kind = "wait-for" => \E j \in Capturers(steps) : steps[j].id = s.id
    BY <1>2, <1>4 DEF MeantBy
<1>8. s.kind \in {"wait-for", "assert"} => s.device = None /\ s.device \notin DOMAIN counts
    BY <1>3, <1>4 DEF IsParsed, CountsFit
<1>9. CASE s.device \in DOMAIN counts
    <2>1. PICK n \in Nat : n = counts[s.device]
        BY <1>4, <1>9 DEF CountsFit
    <2>2. PICK c : c = CountedStep(s, counts)[l]
        OBVIOUS
    <2>3. DOMAIN CountedStep(s, counts) = 1..n
        BY <1>3, <1>4, <1>9, <2>1, OfCounted
    <2>4. l - 1 \in 0..(n - 1) /\ l - 1 \in Nat
        BY <2>3
    <2>5. c.kind = s.kind /\ c.device = Numbered(s.device, l - 1) /\ DOMAIN c.refs = DOMAIN s.refs
          /\ \A k \in DOMAIN s.refs : c.refs[k] = CountedRef(s.refs[k], l - 1, counts)
        BY <1>3, <1>4, <1>9, <2>1, <2>2, <2>3, OfCounted
    <2>6. c.device \in LabDevices(topo)
        BY <1>4, <1>9, <2>1, <2>4, <2>5 DEF CountsFit
    <2>7. ASSUME NEW k \in DOMAIN c.refs PROVE c.refs[k] \in IdsOf(out)
        <3>1. \E j \in Capturers(steps) : steps[j].id = s.refs[k]
            BY <1>6, <2>5
        <3>2. CountedRef(s.refs[k], l - 1, counts) \in IdsOf(out)
            BY <2>4, <3>1, RefsStay
        <3>. QED  BY <2>5, <3>2
    <2>. QED  BY <1>3, <1>8, <1>9, <2>2, <2>5, <2>6, <2>7
<1>10. CASE s.kind = "wait-for" /\ s.id \in DOMAIN counts
    <2>1. PICK n \in Nat : n = counts[s.id]
        BY <1>4, <1>10 DEF CountsFit
    <2>2. PICK c : c = CountedStep(s, counts)[l]
        OBVIOUS
    <2>3. DOMAIN CountedStep(s, counts) = 1..n
        BY <1>3, <1>4, <1>10, <2>1, OfWait
    <2>4. l - 1 \in 0..(n - 1)
        BY <2>3
    <2>5. c.device = None /\ c.id = Numbered(s.id, l - 1) /\ DOMAIN c.refs = {}
        BY <1>3, <1>4, <1>10, <2>1, <2>2, <2>3, OfWait
    <2>6. c.id \in IdsOf(out)
        BY <1>7, <1>10, <2>1, <2>4, <2>5, RefsStay
    <2>. QED  BY <1>3, <2>2, <2>5, <2>6
<1>11. CASE s.kind = "assert"
    <2>1. PICK c : c = CountedStep(s, counts)[1]
        OBVIOUS
    <2>2. DOMAIN CountedStep(s, counts) = 1..1 /\ c.kind = "assert" /\ c.device = None
          /\ \A k \in DOMAIN c.refs : \E m \in DOMAIN s.refs :
                 IF s.refs[m] \in DOMAIN counts
                 THEN \E x \in 0..(counts[s.refs[m]] - 1) : c.refs[k] = Numbered(s.refs[m], x)
                 ELSE c.refs[k] = s.refs[m]
        BY <1>3, <1>4, <1>11, <2>1, OfAssert
    <2>3. out[p] = c
        BY <1>3, <2>1, <2>2
    <2>4. ASSUME NEW k \in DOMAIN c.refs PROVE c.refs[k] \in IdsOf(out)
        <3>1. PICK m \in DOMAIN s.refs :
                  IF s.refs[m] \in DOMAIN counts
                  THEN \E x \in 0..(counts[s.refs[m]] - 1) : c.refs[k] = Numbered(s.refs[m], x)
                  ELSE c.refs[k] = s.refs[m]
            BY <2>2
        <3>2. \E j \in Capturers(steps) : steps[j].id = s.refs[m]
            BY <1>6
        <3>. QED  BY <3>1, <3>2, RefsStay
    <2>. QED  BY <2>2, <2>3, <2>4
<1>12. CASE s.device \notin DOMAIN counts /\ s.kind # "assert"
            /\ ~(s.kind = "wait-for" /\ s.id \in DOMAIN counts)
    <2>1. DOMAIN CountedStep(s, counts) = 1..1 /\ CountedStep(s, counts)[1] = s
        BY <1>12, OfOther
    <2>2. out[p] = s
        BY <1>3, <2>1
    <2>3. s.device \in LabDevices(topo) \cup {None}
        BY <1>4, <1>5, <1>12 DEF CountsFit
    <2>4. ASSUME NEW k \in DOMAIN s.refs PROVE s.refs[k] \in IdsOf(out)
        <3>1. s.refs[k] \notin DOMAIN counts /\ \E j \in Capturers(steps) : steps[j].id = s.refs[k]
            BY <1>6, <1>12
        <3>. QED  BY <3>1, RefsStay
    <2>5. s.kind = "wait-for" => s.id \in IdsOf(out)
        BY <1>7, <1>12, RefsStay
    <2>. QED  BY <2>2, <2>3, <2>4, <2>5
<1>. QED  BY <1>9, <1>10, <1>11, <1>12
----------------------------------------------------------------------------
(* The steps are those before the expansion, each in the place of Flatten.  *)
LEMMA RunFits ==
    ASSUME NEW sim, SimFits(sim), TopologyFits(TopologyOf(sim)), Runnable(sim), Meant(sim)
    PROVE  StepsFit(TopologyOf(sim), StepsToRun(sim))
<1>1. PICK topo : topo = TopologyOf(sim)
    OBVIOUS
<1>2. PICK counts : counts = DeviceCounts(topo)
    OBVIOUS
<1>3. PICK steps : steps = Expanded(sim)
    OBVIOUS
<1>4. CountsFit(topo, counts)
    <2>1. LabOk(topo)
        BY <1>1 DEF Runnable
    <2>2. NoCountOfOne(topo)
        BY <1>1 DEF Meant, NoCountOfOne
    <2>. QED  BY <1>1, <1>2, <2>1, <2>2, LabCounts
<1>5. MeantBy(topo, counts, steps)
    BY <1>1, <1>2, <1>3 DEF Meant, MeantBy
<1>6. IsList(steps) /\ \A i \in DOMAIN steps : IsParsed(steps[i])
    BY <1>3, ExpandedIs DEF Runnable
<1>7. PICK n \in Nat : DOMAIN steps = 1..n
    BY <1>6, ListLen
<1>8. PICK parts : parts = [i \in 1..n |-> CountedStep(steps[i], counts)]
    OBVIOUS
<1>9. StepsToRun(sim) = FlattenSeq(parts)
    BY <1>1, <1>2, <1>3, <1>7, <1>8 DEF StepsToRun
<1>10. ASSUME NEW i \in 1..n PROVE IsList(CountedStep(steps[i], counts))
    <2>1. PICK s : s = steps[i] /\ IsParsed(s)
        BY <1>6, <1>7
    <2>2. CASE s.device \in DOMAIN counts
        BY <1>4, <2>1, <2>2, OfCounted
    <2>3. CASE s.kind = "wait-for" /\ s.id \in DOMAIN counts
        BY <1>4, <2>1, <2>3, OfWait
    <2>4. CASE s.kind = "assert"
        BY <1>4, <2>1, <2>4, OfAssert
    <2>5. CASE s.device \notin DOMAIN counts /\ s.kind # "assert"
               /\ ~(s.kind = "wait-for" /\ s.id \in DOMAIN counts)
        BY <2>1, <2>5, OfOther
    <2>. QED  BY <2>2, <2>3, <2>4, <2>5
<1>11. IsList(parts) /\ Len(parts) = n /\ DOMAIN parts = 1..n
    <2>1. parts = [i \in 1..n |-> parts[i]] /\ DOMAIN parts = 1..n
        BY <1>8
    <2>. QED  BY <2>1, ListOf
<1>12. PICK out : out = FlattenSeq(parts)
    OBVIOUS
<1>13. PICK from : Places(parts, n, out, from)
    <2>1. \A i \in DOMAIN parts : IsList(parts[i])
        BY <1>8, <1>10, <1>11
    <2>. QED  BY <1>11, <1>12, <2>1, Flatten
<1>14. Expansion(topo, counts, steps, out, from)
    <2>1. ASSUME NEW p \in DOMAIN out
          PROVE  /\ from[p] = <<from[p][1], from[p][2]>>
                 /\ from[p][1] \in DOMAIN steps
                 /\ from[p][2] \in DOMAIN CountedStep(steps[from[p][1]], counts)
                 /\ out[p] = CountedStep(steps[from[p][1]], counts)[from[p][2]]
        <3>1. /\ from[p] = <<from[p][1], from[p][2]>>
              /\ from[p][1] \in 1..n /\ from[p][2] \in DOMAIN parts[from[p][1]]
              /\ out[p] = parts[from[p][1]][from[p][2]]
            BY <1>13 DEF Places
        <3>2. parts[from[p][1]] = CountedStep(steps[from[p][1]], counts)
            BY <1>8, <3>1
        <3>. QED  BY <1>7, <3>1, <3>2
    <2>2. \A p, q \in DOMAIN out : from[p] = from[q] => p = q
        BY <1>13 DEF Places
    <2>3. ASSUME NEW i \in DOMAIN steps, NEW k \in DOMAIN CountedStep(steps[i], counts)
          PROVE  \E p \in DOMAIN out : from[p] = <<i, k>>
        <3>1. i \in 1..n /\ k \in DOMAIN parts[i]
            BY <1>7, <1>8
        <3>. QED  BY <1>13, <3>1 DEF Places
    <2>. QED  BY <1>4, <1>5, <1>6, <2>1, <2>2, <2>3 DEF Expansion
<1>15. \A p, q \in Capturers(out) : out[p].id = out[q].id => p = q
    BY <1>14, IdsUnique
<1>16. \A p \in DOMAIN out : /\ out[p].device \in LabDevices(topo) \cup {None}
                             /\ \A k \in DOMAIN out[p].refs : out[p].refs[k] \in IdsOf(out)
                             /\ out[p].kind = "wait-for" => out[p].id \in IdsOf(out)
    BY <1>14, StepFits
<1>17. StepsFit(topo, out)
    BY <1>15, <1>16 DEF StepsFit, IdsOf
<1>. QED  BY <1>1, <1>9, <1>12, <1>17

(* The topology of a variant is its file's own or one of the files'.        *)
LEMMA VariantTopology ==
    ASSUME NEW sim, SimFits(sim), TopologyOk(sim)
    PROVE  TopologyFits(TopologyOf(sim))
BY TopologiesAssumption DEF SimFits, TopologyOk, TopologyOf

(* A variant is the file with the texts of one combination.                 *)
LEMMA VariantOfFile ==
    ASSUME NEW f \in DOMAIN Files, NEW v \in DOMAIN VariantsOf[f]
    PROVE  SimFits(VariantsOf[f][v])
<1>1. PICK maps : maps = Combinations(Files[f].matrix)
    OBVIOUS
<1>2. VariantsOf[f] = [i \in DOMAIN maps |-> Variant(Files[f], maps[i])]
    BY <1>1 DEF VariantsOf, Variants
<1>3. VariantsOf[f][v] = Variant(Files[f], maps[v])
    BY <1>2
<1>4. FileFits(Files[f])
    BY FilesAssumption
<1>. QED  BY <1>3, <1>4, VariantFits

(***************************************************************************)
(* The variants of a file.                                                 *)
(***************************************************************************)
LEMMA CombinationsRec ==
    ASSUME NEW axes, NEW n \in Nat, Len(axes) = n
    PROVE  \E f : /\ f = [m \in 0..n |-> IF m = 0 THEN <<Empty>> ELSE TimesAxis(f[m - 1], axes[m])]
                  /\ Combinations(axes) = f[n]
<1>1. PICK S : S = {b \in Nat : \E f : f = [m \in 0..b |->
                       IF m = 0 THEN <<Empty>> ELSE TimesAxis(f[m - 1], axes[m])]}
    OBVIOUS
<1>2. 0 \in S
    <2>1. PICK f : f = [m \in 0..0 |-> <<Empty>>]
        OBVIOUS
    <2>2. f = [m \in 0..0 |-> IF m = 0 THEN <<Empty>> ELSE TimesAxis(f[m - 1], axes[m])]
        BY <2>1
    <2>. QED  BY <1>1, <2>2
<1>3. ASSUME NEW b \in Nat, b \in S PROVE b + 1 \in S
    <2>1. PICK f : f = [m \in 0..b |-> IF m = 0 THEN <<Empty>> ELSE TimesAxis(f[m - 1], axes[m])]
        BY <1>1, <1>3
    <2>2. PICK g : g = [m \in 0..b + 1 |-> IF m <= b THEN f[m] ELSE TimesAxis(f[b], axes[m])]
        OBVIOUS
    <2>3. ASSUME NEW m \in 0..b + 1
          PROVE  g[m] = IF m = 0 THEN <<Empty>> ELSE TimesAxis(g[m - 1], axes[m])
        <3>1. CASE m <= b
            <4>1. m \in 0..b /\ (m # 0 => m - 1 \in 0..b /\ m - 1 \in 0..b + 1 /\ m - 1 <= b)
                BY <3>1
            <4>2. g[m] = f[m] /\ (m # 0 => g[m - 1] = f[m - 1])
                BY <2>2, <3>1, <4>1
            <4>3. f[m] = IF m = 0 THEN <<Empty>> ELSE TimesAxis(f[m - 1], axes[m])
                BY <2>1, <4>1
            <4>. QED  BY <4>2, <4>3
        <3>2. CASE ~(m <= b)
            <4>1. m # 0 /\ b = m - 1 /\ b \in 0..b + 1 /\ b <= b
                BY <3>2
            <4>2. g[m] = TimesAxis(f[b], axes[m]) /\ g[b] = f[b]
                BY <2>2, <3>2, <4>1
            <4>. QED  BY <4>1, <4>2
        <3>. QED  BY <3>1, <3>2
    <2>4. PICK j \in Nat : j = b + 1
        OBVIOUS
    <2>5. g = [m \in 0..j |-> IF m = 0 THEN <<Empty>> ELSE TimesAxis(g[m - 1], axes[m])]
        BY <2>2, <2>3, <2>4
    <2>6. j \in S
        BY <1>1, <2>5
    <2>. QED  BY <2>4, <2>6
<1>4. n \in S
    BY <1>2, <1>3, Induct
<1>5. \E f : f = [m \in 0..n |-> IF m = 0 THEN <<Empty>> ELSE TimesAxis(f[m - 1], axes[m])]
    BY <1>1, <1>4
<1>6. PICK f : f = CHOOSE g : g = [m \in 0..n |-> IF m = 0 THEN <<Empty>> ELSE
                                                 TimesAxis(g[m - 1], axes[m])]
    OBVIOUS
<1>7. f = [m \in 0..n |-> IF m = 0 THEN <<Empty>> ELSE TimesAxis(f[m - 1], axes[m])]
    BY <1>5, <1>6
<1>8. Combinations(axes) = f[n]
    BY <1>6 DEF Combinations
<1>. QED  BY <1>7, <1>8

(* An axis with values leaves a list of combinations that is not empty.     *)
LEMMA TimesAxisList ==
    ASSUME NEW combos, IsList(combos), NEW axis, IsList(axis.values)
    PROVE  /\ IsList(TimesAxis(combos, axis))
           /\ combos # <<>> /\ axis.values # <<>> => DOMAIN TimesAxis(combos, axis) # {}
<1>1. PICK n \in Nat : n = Len(combos) /\ DOMAIN combos = 1..n /\ combos = [i \in 1..n |-> combos[i]]
    BY ListLen
<1>2. PICK m \in Nat : DOMAIN axis.values = 1..m /\ axis.values = [j \in 1..m |-> axis.values[j]]
    BY ListLen
<1>3. PICK parts : parts = [i \in 1..n |-> [j \in 1..m |-> WithValue(combos[i], axis, axis.values[j])]]
    OBVIOUS
<1>4. TimesAxis(combos, axis) = FlattenSeq(parts)
    BY <1>1, <1>2, <1>3 DEF TimesAxis
<1>5. ASSUME NEW i \in 1..n PROVE DOMAIN parts[i] = 1..m /\ IsList(parts[i])
    <2>1. PICK a : a = parts[i]
        OBVIOUS
    <2>2. DOMAIN a = 1..m /\ a = [j \in 1..m |-> a[j]]
        BY <1>3, <2>1
    <2>. QED  BY <2>1, <2>2, ListOf
<1>6. IsList(parts) /\ Len(parts) = n /\ DOMAIN parts = 1..n
    <2>1. parts = [i \in 1..n |-> parts[i]] /\ DOMAIN parts = 1..n
        BY <1>3
    <2>. QED  BY <2>1, ListOf
<1>7. PICK pos : Places(parts, n, FlattenSeq(parts), pos)
    BY <1>5, <1>6, Flatten
<1>8. ASSUME combos # <<>>, axis.values # <<>>
      PROVE  \E p : p \in DOMAIN FlattenSeq(parts)
    <2>1. n # 0
        <3>1. SUFFICES ASSUME n = 0 PROVE combos = <<>>
            BY <1>8
        <3>. QED  BY <1>1, <3>1
    <2>2. m # 0
        <3>1. SUFFICES ASSUME m = 0 PROVE axis.values = <<>>
            BY <1>8
        <3>. QED  BY <1>2, <3>1
    <2>3. 1 \in 1..n /\ 1 \in 1..m
        BY <2>1, <2>2
    <2>4. 1 \in DOMAIN parts[1]
        BY <1>5, <2>3
    <2>. QED  BY <1>7, <2>3, <2>4 DEF Places
<1>9. IsList(FlattenSeq(parts))
    BY <1>7 DEF Places
<1>. QED  BY <1>4, <1>8, <1>9

LEMMA CombinationsList ==
    ASSUME NEW axes, IsList(axes), \A i \in DOMAIN axes : IsList(axes[i].values)
    PROVE  /\ IsList(Combinations(axes))
           /\ MatrixOk(axes) => Combinations(axes) # <<>>
<1>1. PICK n \in Nat : n = Len(axes) /\ DOMAIN axes = 1..n
    BY ListLen
<1>2. PICK f : /\ f = [m \in 0..n |-> IF m = 0 THEN <<Empty>> ELSE TimesAxis(f[m - 1], axes[m])]
               /\ Combinations(axes) = f[n]
    BY <1>1, CombinationsRec
<1>3. PICK S : S = {m \in Nat : m <= n => IsList(f[m]) /\ (MatrixOk(axes) => f[m] # <<>>)}
    OBVIOUS
<1>4. 0 \in S
    <2>1. f[0] = <<Empty>>
        BY <1>2
    <2>2. PICK e : e = Empty
        OBVIOUS
    <2>3. <<e>> = [k \in 1..1 |-> <<e>>[k]] /\ <<e>> # <<>>
        OBVIOUS
    <2>4. IsList(<<e>>)
        BY <2>3, ListOf
    <2>. QED  BY <1>3, <2>1, <2>2, <2>3, <2>4
<1>5. ASSUME NEW m \in Nat, m \in S PROVE m + 1 \in S
    <2>1. PICK k \in Nat : k = m + 1 /\ m = k - 1 /\ k # 0
        OBVIOUS
    <2>2. ASSUME k <= n PROVE IsList(f[k]) /\ (MatrixOk(axes) => f[k] # <<>>)
        <3>1. k \in 1..n /\ k \in 0..n /\ m <= n
            BY <2>1, <2>2
        <3>2. IsList(f[m]) /\ (MatrixOk(axes) => f[m] # <<>>)
            BY <1>3, <1>5, <3>1
        <3>3. f[k] = TimesAxis(f[m], axes[k])
            BY <1>2, <2>1, <3>1
        <3>4. IsList(axes[k].values) /\ (MatrixOk(axes) => axes[k].values # <<>>)
            BY <1>1, <3>1 DEF MatrixOk
        <3>5. /\ IsList(f[k])
              /\ f[m] # <<>> /\ axes[k].values # <<>> => DOMAIN f[k] # {}
            BY <3>2, <3>3, <3>4, TimesAxisList
        <3>6. f[k] = <<>> => DOMAIN f[k] = {}
            OBVIOUS
        <3>. QED  BY <3>2, <3>4, <3>5, <3>6
    <2>3. k \in S
        BY <1>3, <2>2
    <2>. QED  BY <2>1, <2>3
<1>6. n \in S
    BY <1>4, <1>5, Induct
<1>. QED  BY <1>2, <1>3, <1>6

(* A file has finitely many variants, and one at least if every axis of its *)
(* matrix has a value.                                                      *)
LEMMA SomeVariants ==
    ASSUME NEW f \in DOMAIN Files
    PROVE  /\ Len(VariantsOf[f]) \in Nat /\ DOMAIN VariantsOf[f] = 1..Len(VariantsOf[f])
           /\ MatrixOk(Files[f].matrix) => Len(VariantsOf[f]) > 0
<1>1. PICK axes : axes = Files[f].matrix
    OBVIOUS
<1>2. IsList(axes) /\ \A i \in DOMAIN axes : IsList(axes[i].values)
    BY <1>1, FilesAssumption DEF FileFits
<1>3. PICK maps : maps = Combinations(axes) /\ IsList(maps) /\ (MatrixOk(axes) => maps # <<>>)
    BY <1>2, CombinationsList
<1>4. PICK n \in Nat : DOMAIN maps = 1..n /\ maps = [i \in 1..n |-> maps[i]]
    BY <1>3, ListLen
<1>5. PICK all : all = VariantsOf[f]
    OBVIOUS
<1>6. all = [i \in 1..n |-> Variant(Files[f], maps[i])]
    BY <1>1, <1>3, <1>4, <1>5 DEF VariantsOf, Variants
<1>7. DOMAIN all = 1..n /\ all = [i \in 1..n |-> all[i]]
    BY <1>6
<1>8. Len(all) = n
    BY <1>7, ListOf
<1>9. MatrixOk(axes) => n # 0
    <2>1. n = 0 => maps = <<>>
        BY <1>4
    <2>. QED  BY <1>3, <2>1
<1>. QED  BY <1>1, <1>5, <1>7, <1>8, <1>9
----------------------------------------------------------------------------
(* The runners.  What one runner and its directory look like is said of    *)
(* the two records, so that a step of a runner has to be looked at once:   *)
(* nobody else has its directory.                                          *)

IsMap(f) == f = [d \in DOMAIN f |-> f[d]]
IsSim(s) == s = [status |-> s.status, results |-> s.results]
IsEntry(e) == e = [status |-> e.status, dir |-> e.dir]
IsProgress(p) ==
    /\ p = [status |-> p.status, completed |-> p.completed, ok |-> p.ok,
            error |-> p.error, entries |-> p.entries]
    /\ IsMap(p.entries) /\ \A i \in DOMAIN p.entries : IsEntry(p.entries[i])
IsRunner(x) ==
    /\ x = [at |-> x.at, n |-> x.n, root |-> x.root, files |-> x.files, i |-> x.i,
            v |-> x.v, dir |-> x.dir, result |-> x.result, outcomes |-> x.outcomes,
            progress |-> x.progress, exit |-> x.exit]
    /\ IsProgress(x.progress)
    /\ \E n \in Nat : DOMAIN x.outcomes = 1..n
    /\ IsMap(x.outcomes)
IsRoot(y) ==
    /\ y = [sims |-> y.sims, progress |-> y.progress, manifest |-> y.manifest,
            combined |-> y.combined]
    /\ IsMap(y.sims) /\ \A d \in DOMAIN y.sims : IsSim(y.sims[d])

(* Every outcome has a directory of its own, whose summary says the same,  *)
(* and so has the simulation that is under way.                            *)
DirsOwn(x, y) ==
    /\ \A k \in DOMAIN x.outcomes :
           /\ x.outcomes[k].dir \in DOMAIN y.sims
           /\ y.sims[x.outcomes[k].dir].status = x.outcomes[k].status
    /\ \A k, l \in DOMAIN x.outcomes : x.outcomes[k].dir = x.outcomes[l].dir => k = l
    /\ x.at \in {"execute", "summary"} =>
           x.dir \in DOMAIN y.sims /\ \A k \in DOMAIN x.outcomes : x.outcomes[k].dir # x.dir

(* Entries name directories of outcomes. *)
Named(x, entries) ==
    \A i \in DOMAIN entries : entries[i].dir # <<>> =>
        \E k \in DOMAIN x.outcomes : x.outcomes[k].dir = entries[i].dir

(* The manifest names no results that are not combined, and nor would one  *)
(* written now, where one is written.                                      *)
AllCombined(x, y) ==
    \A k \in DOMAIN x.outcomes :
        y.sims[x.outcomes[k].dir].results => x.outcomes[k].dir \in y.combined
Reported(x, y) ==
    /\ Named(x, x.progress.entries) /\ Named(x, y.manifest.entries)
    /\ \A i \in DOMAIN y.manifest.entries :
           LET d == y.manifest.entries[i].dir IN
           d # <<>> /\ y.sims[d].results => d \in y.combined
    /\ x.at = "started" =>
           \A i \in DOMAIN x.progress.entries : x.progress.entries[i].dir = <<>>
    /\ x.at \in {"manifest", "done", "verdict"} => AllCombined(x, y)

Fresh(x) == x.outcomes = <<>> /\ x.progress.entries = <<>>
Content(x, y) == IsRoot(y) /\ DirsOwn(x, y) /\ Reported(x, y)

(* A runner that has a directory has it alone. *)
RootsOwn ==
    \A r \in Runners :
        /\ run[r].at = "new" <=> run[r].root = <<>>
        /\ run[r].at # "new" => run[r].root \in DOMAIN disk
        /\ \A q \in Runners : run[r].at # "new" /\ run[q].root = run[r].root => q = r

RunsInv ==
    /\ run = [r \in Runners |-> run[r]] /\ IsMap(disk)
    /\ \A r \in Runners : IsRunner(run[r])
    /\ RootsOwn
    /\ \A r \in Runners : IF run[r].at = "new" THEN Fresh(run[r])
                                              ELSE Content(run[r], disk[run[r].root])

LEMMA RunsStart == RunsInit => RunsInv
<1> SUFFICES ASSUME RunsInit PROVE RunsInv
    OBVIOUS
<1>1. IsMap(disk) /\ run = [r \in Runners |-> run[r]]
    BY DEF RunsInit, IsMap
<1>2. ASSUME NEW r \in Runners
      PROVE  IsRunner(run[r]) /\ run[r].at = "new" /\ run[r].root = <<>> /\ Fresh(run[r])
    <2>1. PICK files \in FileLists :
            run[r] = [at |-> "new", n |-> 0, root |-> <<>>, files |-> files, i |-> 1,
                      v |-> 1, dir |-> <<>>, result |-> "none",
                      outcomes |-> <<>>, progress |-> NoProgress, exit |-> "none"]
        BY DEF RunsInit
    <2>2. PICK p : p = NoProgress
        OBVIOUS
    <2>3. IsProgress(p)
        BY <2>2 DEF IsProgress, NoProgress, IsMap
    <2>4. DOMAIN run[r].outcomes = 1..0 /\ IsMap(run[r].outcomes)
        BY <2>1 DEF IsMap
    <2>5. run[r].progress = p
        BY <2>1, <2>2
    <2>6. run[r] = [at |-> run[r].at, n |-> run[r].n, root |-> run[r].root,
                    files |-> run[r].files, i |-> run[r].i, v |-> run[r].v,
                    dir |-> run[r].dir, result |-> run[r].result,
                    outcomes |-> run[r].outcomes, progress |-> run[r].progress,
                    exit |-> run[r].exit]
        BY <2>1
    <2>7. Fresh(run[r])
        BY <2>1 DEF Fresh, NoProgress
    <2>. QED  BY <2>1, <2>3, <2>4, <2>5, <2>6, <2>7 DEF IsRunner
<1>3. RootsOwn
    BY <1>2 DEF RootsOwn
<1>. QED  BY <1>1, <1>2, <1>3 DEF RunsInv

(* A step of a runner with a directory. *)
LEMMA OwnStep ==
    ASSUME RunsInv, NEW r \in Runners, run[r].at # "new", NEW x, NEW y,
           run' = [run EXCEPT ![r] = x], disk' = [disk EXCEPT ![run[r].root] = y],
           x.root = run[r].root, x.at # "new", IsRunner(x), Content(x, y)
    PROVE  RunsInv'
<1>1. /\ run' = [q \in Runners |-> run'[q]] /\ run'[r] = x
      /\ \A q \in Runners \ {r} : run'[q] = run[q]
    BY DEF RunsInv
<1>2. /\ IsMap(disk)' /\ DOMAIN disk' = DOMAIN disk /\ disk'[run[r].root] = y
      /\ \A d \in DOMAIN disk \ {run[r].root} : disk'[d] = disk[d]
    BY DEF RunsInv, IsMap, RootsOwn
<1>3. RootsOwn'
    BY <1>1, <1>2 DEF RunsInv, RootsOwn
<1>4. \A q \in Runners : IsRunner(run'[q])
    BY <1>1 DEF RunsInv
<1>5. ASSUME NEW q \in Runners
      PROVE  IF run'[q].at = "new" THEN Fresh(run'[q])
                                   ELSE Content(run'[q], disk'[run'[q].root])
    <2>1. CASE q = r
        BY <1>1, <1>2, <2>1
    <2>2. CASE q # r /\ run[q].at = "new"
        BY <1>1, <2>2 DEF RunsInv
    <2>3. CASE q # r /\ run[q].at # "new"
        <3>1. run[q].root \in DOMAIN disk /\ run[q].root # run[r].root
            BY <2>3 DEF RunsInv, RootsOwn
        <3>. QED  BY <1>1, <1>2, <2>3, <3>1 DEF RunsInv
    <2>. QED  BY <2>1, <2>2, <2>3
<1>. QED  BY <1>1, <1>2, <1>3, <1>4, <1>5 DEF RunsInv

(* One that leaves its directory alone. *)
LEMMA OwnMove ==
    ASSUME RunsInv, NEW r \in Runners, run[r].at # "new", NEW x,
           run' = [run EXCEPT ![r] = x], disk' = disk,
           x.root = run[r].root, x.at # "new", IsRunner(x), Content(x, disk[run[r].root])
    PROVE  RunsInv'
<1>1. disk' = [disk EXCEPT ![run[r].root] = disk[run[r].root]]
    BY DEF RunsInv, IsMap, RootsOwn
<1>. QED  BY <1>1, OwnStep

(* The n-th name of a run is a name. *)
LEMMA AttemptNamed == ASSUME NEW n PROVE Attempt(<<"run">>, n) # <<>>
<1>1. Append(<<"run">>, ToString(n)) # <<>>
    <2>1. PICK s : s = ToString(n)
        OBVIOUS
    <2>2. <<"run">> \in Seq({"run", s})
        OBVIOUS
    <2>3. Len(Append(<<"run">>, s)) = 2
        BY <2>2
    <2>. QED  BY <2>1, <2>3
<1>. QED  BY <1>1 DEF Attempt, Numbered

LEMMA RunsMakeRoot ==
    ASSUME RunsInv, NEW r \in Runners, MakeRoot(r) PROVE RunsInv'
<1>1. PICK name : name = Attempt(<<"run">>, run[r].n)
    OBVIOUS
<1>2. name # <<>>
    BY <1>1, AttemptNamed
<1>3. PICK o : o = run[r]
    OBVIOUS
<1>4. IsRunner(o) /\ o.at = "new" /\ Fresh(o) /\ o.root = <<>>
    BY <1>3 DEF RunsInv, RootsOwn, MakeRoot, At
<1>5. CASE run' = [run EXCEPT ![r].n = @ + 1] /\ UNCHANGED disk
    <2>1. PICK x : x = [o EXCEPT !.n = o.n + 1]
        OBVIOUS
    <2>2. /\ IsRunner(x) /\ x.at = "new" /\ Fresh(x) /\ x.root = <<>>
        BY <1>4, <2>1 DEF IsRunner, Fresh
    <2>3. /\ run' = [q \in Runners |-> run'[q]] /\ run'[r] = x
          /\ \A q \in Runners \ {r} : run'[q] = run[q]
        BY <1>3, <1>5, <2>1 DEF RunsInv
    <2>4. RootsOwn'
        BY <1>3, <1>4, <1>5, <2>2, <2>3 DEF RunsInv, RootsOwn
    <2>5. \A q \in Runners : IsRunner(run'[q])
        BY <2>2, <2>3 DEF RunsInv
    <2>6. ASSUME NEW q \in Runners
          PROVE  IF run'[q].at = "new" THEN Fresh(run'[q])
                                       ELSE Content(run'[q], disk'[run'[q].root])
        BY <1>5, <2>2, <2>3 DEF RunsInv
    <2>7. IsMap(disk)'
        BY <1>5 DEF RunsInv, IsMap
    <2>. QED  BY <2>3, <2>4, <2>5, <2>6, <2>7 DEF RunsInv
<1>6. CASE /\ name \notin DOMAIN disk
           /\ disk' = With(disk, name, EmptyRoot)
           /\ run' = [run EXCEPT ![r].at = "unlink", ![r].root = name]
    <2>1. PICK x : x = [o EXCEPT !.at = "unlink", !.root = name]
        OBVIOUS
    <2>2. /\ IsRunner(x) /\ x.at = "unlink" /\ Fresh(x) /\ x.root = name
        BY <1>4, <2>1 DEF IsRunner, Fresh
    <2>3. /\ run' = [q \in Runners |-> run'[q]] /\ run'[r] = x
          /\ \A q \in Runners \ {r} : run'[q] = run[q]
        BY <1>3, <1>6, <2>1 DEF RunsInv
    <2>4. PICK y : y = EmptyRoot
        OBVIOUS
    <2>5. /\ IsMap(disk)' /\ DOMAIN disk' = DOMAIN disk \cup {name} /\ disk'[name] = y
          /\ \A d \in DOMAIN disk : disk'[d] = disk[d]
        BY <1>6, <2>4 DEF IsMap, With
    <2>6. RootsOwn'
        BY <1>2, <1>3, <1>4, <1>6, <2>2, <2>3, <2>5 DEF RunsInv, RootsOwn
    <2>7. \A q \in Runners : IsRunner(run'[q])
        BY <2>2, <2>3 DEF RunsInv
    <2>8. Content(x, y)
        <3>1. IsRoot(y) /\ y.manifest.entries = <<>>
            BY <2>4 DEF IsRoot, EmptyRoot, NoManifest, IsMap
        <3>2. DirsOwn(x, y) /\ Reported(x, y)
            BY <2>2, <3>1 DEF Fresh, DirsOwn, Reported, Named
        <3>. QED  BY <3>1, <3>2 DEF Content
    <2>9. ASSUME NEW q \in Runners
          PROVE  IF run'[q].at = "new" THEN Fresh(run'[q])
                                       ELSE Content(run'[q], disk'[run'[q].root])
        <3>1. CASE q = r
            BY <2>2, <2>3, <2>5, <2>8, <3>1
        <3>2. CASE q # r
            BY <2>3, <2>5, <3>2 DEF RunsInv, RootsOwn
        <3>. QED  BY <3>1, <3>2
    <2>. QED  BY <2>3, <2>5, <2>6, <2>7, <2>9 DEF RunsInv
<1>. QED  BY <1>1, <1>5, <1>6 DEF MakeRoot

(* What holds of a runner that has a directory, and of the directory. *)
LEMMA Here ==
    ASSUME RunsInv, NEW r \in Runners, run[r].at # "new"
    PROVE  IsRunner(run[r]) /\ Content(run[r], disk[run[r].root])
BY DEF RunsInv

(* A runner that only goes on or leaves, and not to where it writes. *)
Quiet == {"link", "assemble", "begin", "record", "over"}

LEMMA RunsGoOn ==
    ASSUME RunsInv, NEW r \in Runners, run[r].at # "new", UNCHANGED disk,
           NEW point \in Quiet, GoOn(r, point)
    PROVE  RunsInv'
<1>1. PICK o : o = run[r]
    OBVIOUS
<1>2. PICK y : y = disk[run[r].root]
    OBVIOUS
<1>3. IsRunner(o) /\ Content(o, y)
    BY <1>1, <1>2, Here
<1>4. PICK x : x = [o EXCEPT !.at = point]
    OBVIOUS
<1>5. run' = [run EXCEPT ![r] = x]
    BY <1>1, <1>4 DEF GoOn, RunsInv
<1>6. IsRunner(x) /\ x.at = point /\ x.root = o.root
    BY <1>3, <1>4 DEF IsRunner
<1>7. x.outcomes = o.outcomes /\ x.progress = o.progress
    BY <1>3, <1>4 DEF IsRunner
<1>8. DirsOwn(x, y) /\ Reported(x, y)
    BY <1>3, <1>6, <1>7 DEF Quiet, Content, DirsOwn, Reported, Named
<1>9. Content(x, y)
    BY <1>3, <1>8 DEF Content
<1>. QED  BY <1>1, <1>2, <1>5, <1>6, <1>9, OwnMove DEF Quiet

LEMMA RunsLeave ==
    ASSUME RunsInv, NEW r \in Runners, run[r].at # "new", UNCHANGED disk,
           NEW exit, Leave(r, exit)
    PROVE  RunsInv'
<1>1. PICK o : o = run[r]
    OBVIOUS
<1>2. PICK y : y = disk[run[r].root]
    OBVIOUS
<1>3. IsRunner(o) /\ Content(o, y)
    BY <1>1, <1>2, Here
<1>4. PICK x : x = [o EXCEPT !.at = "over", !.exit = exit]
    OBVIOUS
<1>5. run' = [run EXCEPT ![r] = x]
    BY <1>1, <1>4 DEF Leave, RunsInv
<1>6. IsRunner(x) /\ x.at = "over" /\ x.root = o.root
    BY <1>3, <1>4 DEF IsRunner
<1>7. x.outcomes = o.outcomes /\ x.progress = o.progress
    BY <1>3, <1>4 DEF IsRunner
<1>8. DirsOwn(x, y) /\ Reported(x, y)
    BY <1>3, <1>6, <1>7 DEF Content, DirsOwn, Reported, Named
<1>9. Content(x, y)
    BY <1>3, <1>8 DEF Content
<1>. QED  BY <1>1, <1>2, <1>5, <1>6, <1>9, OwnMove

LEMMA RunsWait ==
    ASSUME RunsInv, NEW r \in Runners, Unlink(r) \/ Link(r) \/ Assemble(r) \/ EndSim(r)
    PROVE  RunsInv'
<1>1. run[r].at # "new" /\ UNCHANGED disk
    BY DEF Unlink, Link, Assemble, EndSim, At, KeepDisk
<1>2. \/ \E point \in Quiet : GoOn(r, point)
      \/ \E exit : Leave(r, exit)
    BY DEF Unlink, Link, Assemble, EndSim, Quiet
<1>. QED  BY <1>1, <1>2, RunsGoOn, RunsLeave

----------------------------------------------------------------------------
(* What happens to outcomes and to directories of simulations. *)

LEMMA Appended ==
    ASSUME NEW s, NEW n \in Nat, DOMAIN s = 1..n, IsMap(s), NEW e
    PROVE  /\ DOMAIN Append(s, e) = 1..(n + 1) /\ IsMap(Append(s, e))
           /\ Append(s, e)[n + 1] = e
           /\ \A k \in DOMAIN s : Append(s, e)[k] = s[k]
<1>1. PICK S : S = {s[k] : k \in 1..n} \cup {e}
    OBVIOUS
<1>2. s \in Seq(S)
    <2>1. s \in [1..n -> S]
        BY <1>1 DEF IsMap
    <2>. QED  BY <2>1
<1>3. Len(s) = n
    <2>1. Len(s) \in Nat /\ 1..Len(s) = 1..n
        BY <1>2, LenProperties
    <2>2. Len(s) \in 1..Len(s) \/ Len(s) = 0
        BY <2>1
    <2>3. n \in 1..n \/ n = 0
        OBVIOUS
    <2>. QED  BY <2>1, <2>2, <2>3
<1>4. PICK t : t = Append(s, e)
    OBVIOUS
<1>5. t \in Seq(S) /\ Len(t) = n + 1 /\ t[n + 1] = e /\ \A k \in 1..n : t[k] = s[k]
    <2>1. e \in S
        BY <1>1
    <2>. QED  BY <1>2, <1>3, <1>4, <2>1, AppendProperties
<1>6. DOMAIN t = 1..(n + 1) /\ IsMap(t)
    BY <1>5, LenProperties DEF IsMap
<1>. QED  BY <1>4, <1>5, <1>6

Put(y, dir, sim) == [y EXCEPT !.sims = With(y.sims, dir, sim)]

LEMMA SimSet ==
    ASSUME NEW y, IsRoot(y), NEW dir, NEW sim, IsSim(sim), NEW z, z = Put(y, dir, sim)
    PROVE  /\ IsRoot(z) /\ DOMAIN z.sims = DOMAIN y.sims \cup {dir} /\ z.sims[dir] = sim
           /\ \A d \in DOMAIN y.sims \ {dir} : z.sims[d] = y.sims[d]
           /\ z.manifest = y.manifest /\ z.combined = y.combined
<1>1. PICK sims : sims = With(y.sims, dir, sim)
    OBVIOUS
<1>2. /\ IsMap(sims) /\ DOMAIN sims = DOMAIN y.sims \cup {dir} /\ sims[dir] = sim
      /\ \A d \in DOMAIN y.sims \ {dir} : sims[d] = y.sims[d]
    BY <1>1 DEF With, IsMap
<1>3. /\ z.sims = sims /\ z.manifest = y.manifest /\ z.combined = y.combined
      /\ z = [sims |-> z.sims, progress |-> z.progress, manifest |-> z.manifest,
              combined |-> z.combined]
    BY <1>1 DEF IsRoot, Put
<1>4. IsRoot(z)
    BY <1>2, <1>3 DEF IsRoot
<1>. QED  BY <1>2, <1>3, <1>4

NewTo(o, dir) == \A k \in DOMAIN o.outcomes : o.outcomes[k].dir # dir

(* One more outcome, of a directory no outcome had. *)
Another(o, x, e, sim) ==
    /\ NewTo(o, e.dir) /\ e.status = sim.status
    /\ x.outcomes = Append(o.outcomes, e) /\ x.progress = o.progress
    /\ x.at \in {"record", "variant"}

LEMMA OneMore ==
    ASSUME NEW o, NEW y, IsRunner(o), Content(o, y), NEW sim, IsSim(sim),
           NEW e, NEW x, Another(o, x, e, sim)
    PROVE  /\ Content(x, Put(y, e.dir, sim)) /\ IsMap(x.outcomes)
           /\ \E n \in Nat : DOMAIN x.outcomes = 1..n
<1> DEFINE dir == e.dir
<1> HIDE DEF dir
<1>a. PICK z : z = Put(y, dir, sim)
    OBVIOUS
<1>b. /\ NewTo(o, dir) /\ e.dir = dir /\ e.status = sim.status
      /\ x.outcomes = Append(o.outcomes, e) /\ x.progress = o.progress
      /\ x.at \in {"record", "variant"}
    BY DEF Another, dir
<1>1. PICK n \in Nat : DOMAIN o.outcomes = 1..n
    BY DEF IsRunner
<1>0. IsMap(o.outcomes) /\ IsRoot(y)
    BY DEF IsRunner, Content
<1>2. /\ DOMAIN x.outcomes = 1..(n + 1) /\ IsMap(x.outcomes) /\ x.outcomes[n + 1] = e
      /\ \A k \in 1..n : x.outcomes[k] = o.outcomes[k]
    <2>1. PICK s : s = o.outcomes
        OBVIOUS
    <2>2. DOMAIN s = 1..n /\ IsMap(s)
        BY <1>0, <1>1, <2>1
    <2>3. /\ DOMAIN Append(s, e) = 1..(n + 1) /\ IsMap(Append(s, e))
          /\ Append(s, e)[n + 1] = e
          /\ \A k \in DOMAIN s : Append(s, e)[k] = s[k]
        BY <2>2, Appended
    <2>. QED  BY <1>b, <2>1, <2>2, <2>3
<1>3. /\ IsRoot(z) /\ DOMAIN z.sims = DOMAIN y.sims \cup {dir} /\ z.sims[dir] = sim
      /\ \A d \in DOMAIN y.sims \ {dir} : z.sims[d] = y.sims[d]
      /\ z.manifest = y.manifest /\ z.combined = y.combined
    BY <1>0, <1>a, SimSet
<1>4. DirsOwn(x, z)
    <2>1. ASSUME NEW k \in DOMAIN x.outcomes
          PROVE  /\ x.outcomes[k].dir \in DOMAIN z.sims
                 /\ z.sims[x.outcomes[k].dir].status = x.outcomes[k].status
        <3>1. CASE k = n + 1
            BY <1>b, <1>2, <1>3, <3>1
        <3>2. CASE k \in 1..n
            BY <1>b, <1>1, <1>2, <1>3, <3>2 DEF Content, DirsOwn, NewTo
        <3>. QED  BY <1>2, <3>1, <3>2
    <2>2. ASSUME NEW k \in DOMAIN x.outcomes, NEW l \in DOMAIN x.outcomes,
                 x.outcomes[k].dir = x.outcomes[l].dir
          PROVE  k = l
        BY <1>b, <1>1, <1>2, <2>2 DEF Content, DirsOwn, NewTo
    <2>. QED  BY <1>b, <2>1, <2>2 DEF DirsOwn
<1>5. Reported(x, z)
    <2>1. Named(x, x.progress.entries) /\ Named(x, z.manifest.entries)
        <3>1. ASSUME NEW es, Named(o, es) PROVE Named(x, es)
            BY <1>1, <1>2, <3>1 DEF Named
        <3>. QED  BY <1>b, <1>3, <3>1 DEF Content, Reported
    <2>2. ASSUME NEW i \in DOMAIN z.manifest.entries, z.manifest.entries[i].dir # <<>>,
                 z.sims[z.manifest.entries[i].dir].results
          PROVE  z.manifest.entries[i].dir \in z.combined
        <3>1. PICK k \in DOMAIN o.outcomes : o.outcomes[k].dir = z.manifest.entries[i].dir
            BY <1>3, <2>2 DEF Content, Reported, Named
        <3>2. z.sims[z.manifest.entries[i].dir] = y.sims[z.manifest.entries[i].dir]
            BY <1>b, <1>3, <3>1 DEF Content, DirsOwn, NewTo
        <3>. QED  BY <1>3, <2>2, <3>2 DEF Content, Reported
    <2>. QED  BY <1>b, <2>1, <2>2 DEF Reported
<1>c. Content(x, z)
    BY <1>3, <1>4, <1>5 DEF Content
<1>. QED  BY <1>a, <1>2, <1>c DEF dir

(* create_unique_dir ends with a name that was not taken. *)
LEMMA FreeIsFree ==
    ASSUME NEW base, NEW taken, NEW dir \in FirstFree(base, taken)
    PROVE  dir \notin taken
BY DEF FirstFree

LEMMA FreeOfOutcomes ==
    ASSUME NEW o, NEW y, Content(o, y), NEW dir, dir \notin DOMAIN y.sims
    PROVE  NewTo(o, dir)
BY DEF NewTo, Content, DirsOwn

LEMMA RunsFailFile ==
    ASSUME RunsInv, NEW r \in Runners, FailFile(r) PROVE RunsInv'
<1>1. PICK o : o = run[r]
    OBVIOUS
<1>2. PICK y : y = disk[run[r].root]
    OBVIOUS
<1>3. PICK dir \in MakeSimDir(r, FileOf(r).base) :
           /\ SetSim(r, dir, NewSim("error"))
           /\ run' = [run EXCEPT ![r].at = "record",
                                 ![r].outcomes = Append(@, Outcome(r, dir, "error"))]
    BY DEF FailFile
<1>4. o.at = "read" /\ IsRunner(o) /\ Content(o, y)
    BY <1>1, <1>2, Here DEF FailFile, At
<1>5. dir \notin DOMAIN y.sims
    BY <1>2, <1>3, FreeIsFree DEF MakeSimDir, Root
<1>6. PICK sim : sim = NewSim("error")
    OBVIOUS
<1>7. IsSim(sim) /\ sim.status = "error"
    BY <1>6 DEF NewSim, IsSim
<1>8. PICK e : e = Outcome(r, dir, "error")
    OBVIOUS
<1>9. e.dir = dir /\ e.status = "error"
    BY <1>8 DEF Outcome
<1>10. PICK x : x = [o EXCEPT !.at = "record", !.outcomes = Append(o.outcomes, e)]
    OBVIOUS
<1>11. PICK z : z = Put(y, dir, sim)
    OBVIOUS
<1>12. x.at = "record" /\ x.root = o.root /\ x.outcomes = Append(o.outcomes, e)
       /\ x.progress = o.progress
    BY <1>4, <1>10 DEF IsRunner
<1>13. /\ Content(x, z) /\ IsMap(x.outcomes) /\ \E n \in Nat : DOMAIN x.outcomes = 1..n
    <2>1. NewTo(o, dir)
        BY <1>4, <1>5, FreeOfOutcomes
    <2>2. Another(o, x, e, sim)
        BY <1>7, <1>9, <1>12, <2>1 DEF Another
    <2>. QED  BY <1>4, <1>7, <1>9, <1>11, <2>2, OneMore
<1>14. IsRunner(x)
    BY <1>4, <1>10, <1>12, <1>13 DEF IsRunner
<1>15. run' = [run EXCEPT ![r] = x]
    BY <1>1, <1>3, <1>8, <1>10 DEF RunsInv
<1>16. disk' = [disk EXCEPT ![run[r].root] = z]
    BY <1>2, <1>3, <1>6, <1>11 DEF SetSim, Put, RunsInv, IsMap
<1>. QED  BY <1>1, <1>4, <1>12, <1>13, <1>14, <1>15, <1>16, OwnStep
----------------------------------------------------------------------------
LEMMA RunsFailVariant ==
    ASSUME RunsInv, NEW r \in Runners, FailVariant(r) PROVE RunsInv'
<1>1. PICK o : o = run[r]
    OBVIOUS
<1>2. PICK y : y = disk[run[r].root]
    OBVIOUS
<1>3. PICK dir \in MakeSimDir(r, FileOf(r).base) :
           /\ SetSim(r, dir, NewSim("error"))
           /\ run' = [run EXCEPT ![r].v = @ + 1,
                                 ![r].outcomes = Append(@, Outcome(r, dir, "error"))]
    BY DEF FailVariant
<1>4. o.at = "variant" /\ IsRunner(o) /\ Content(o, y)
    BY <1>1, <1>2, Here DEF FailVariant, At
<1>5. dir \notin DOMAIN y.sims
    BY <1>2, <1>3, FreeIsFree DEF MakeSimDir, Root
<1>6. PICK sim : sim = NewSim("error")
    OBVIOUS
<1>7. IsSim(sim) /\ sim.status = "error"
    BY <1>6 DEF NewSim, IsSim
<1>8. PICK e : e = Outcome(r, dir, "error")
    OBVIOUS
<1>9. e.dir = dir /\ e.status = "error"
    BY <1>8 DEF Outcome
<1>10. PICK x : x = [o EXCEPT !.v = o.v + 1, !.outcomes = Append(o.outcomes, e)]
    OBVIOUS
<1>11. PICK z : z = Put(y, dir, sim)
    OBVIOUS
<1>12. x.at = "variant" /\ x.root = o.root /\ x.outcomes = Append(o.outcomes, e)
       /\ x.progress = o.progress
    BY <1>4, <1>10 DEF IsRunner
<1>13. /\ Content(x, z) /\ IsMap(x.outcomes) /\ \E n \in Nat : DOMAIN x.outcomes = 1..n
    <2>1. NewTo(o, dir)
        BY <1>4, <1>5, FreeOfOutcomes
    <2>2. Another(o, x, e, sim)
        BY <1>7, <1>9, <1>12, <2>1 DEF Another
    <2>. QED  BY <1>4, <1>7, <1>9, <1>11, <2>2, OneMore
<1>14. IsRunner(x)
    BY <1>4, <1>10, <1>12, <1>13 DEF IsRunner
<1>15. run' = [run EXCEPT ![r] = x]
    BY <1>1, <1>3, <1>8, <1>10 DEF RunsInv
<1>16. disk' = [disk EXCEPT ![run[r].root] = z]
    BY <1>2, <1>3, <1>6, <1>11 DEF SetSim, Put, RunsInv, IsMap
<1>. QED  BY <1>1, <1>4, <1>12, <1>13, <1>14, <1>15, <1>16, OwnStep

(* The simulation under way writes what no outcome is about. *)
UnderWay(o, x) ==
    /\ NewTo(o, x.dir) /\ x.at \in {"execute", "summary"}
    /\ x.outcomes = o.outcomes /\ x.progress = o.progress

LEMMA OneUnderWay ==
    ASSUME NEW o, NEW y, IsRunner(o), Content(o, y), NEW sim, IsSim(sim),
           NEW x, UnderWay(o, x)
    PROVE  Content(x, Put(y, x.dir, sim))
<1>1. PICK dir : dir = x.dir
    OBVIOUS
<1>2. PICK z : z = Put(y, dir, sim)
    OBVIOUS
<1>3. IsRoot(y)
    BY DEF Content
<1>4. /\ IsRoot(z) /\ DOMAIN z.sims = DOMAIN y.sims \cup {dir} /\ z.sims[dir] = sim
      /\ \A d \in DOMAIN y.sims \ {dir} : z.sims[d] = y.sims[d]
      /\ z.manifest = y.manifest /\ z.combined = y.combined
    BY <1>2, <1>3, SimSet
<1>5. \A k \in DOMAIN o.outcomes : o.outcomes[k].dir \in DOMAIN y.sims \ {dir}
    BY <1>1 DEF UnderWay, NewTo, Content, DirsOwn
<1>6. DirsOwn(x, z)
    BY <1>1, <1>4, <1>5 DEF UnderWay, NewTo, Content, DirsOwn
<1>7. Reported(x, z)
    <2>1. Named(x, x.progress.entries) /\ Named(x, z.manifest.entries)
        BY <1>4 DEF UnderWay, Content, Reported, Named
    <2>2. ASSUME NEW i \in DOMAIN z.manifest.entries, z.manifest.entries[i].dir # <<>>,
                 z.sims[z.manifest.entries[i].dir].results
          PROVE  z.manifest.entries[i].dir \in z.combined
        <3>1. PICK k \in DOMAIN o.outcomes : o.outcomes[k].dir = z.manifest.entries[i].dir
            BY <1>4, <2>2 DEF Content, Reported, Named
        <3>2. z.sims[z.manifest.entries[i].dir] = y.sims[z.manifest.entries[i].dir]
            BY <1>4, <1>5, <3>1
        <3>. QED  BY <1>4, <2>2, <3>2 DEF Content, Reported
    <2>. QED  BY <2>1, <2>2 DEF Reported, UnderWay
<1>. QED  BY <1>1, <1>2, <1>4, <1>6, <1>7 DEF Content

LEMMA RunsStartVariant ==
    ASSUME RunsInv, NEW r \in Runners, StartVariant(r) PROVE RunsInv'
<1>1. PICK o : o = run[r]
    OBVIOUS
<1>2. PICK y : y = disk[run[r].root]
    OBVIOUS
<1>3. PICK name, dir :
           /\ dir \in MakeSimDir(r, name)
           /\ SetSim(r, dir, NewSim("none"))
           /\ run' = [run EXCEPT ![r].at = "execute", ![r].dir = dir]
    BY DEF StartVariant
<1>4. o.at = "variant" /\ IsRunner(o) /\ Content(o, y)
    BY <1>1, <1>2, Here DEF StartVariant, At
<1>5. dir \notin DOMAIN y.sims
    BY <1>2, <1>3, FreeIsFree DEF MakeSimDir, Root
<1>6. PICK sim : sim = NewSim("none")
    OBVIOUS
<1>7. IsSim(sim)
    BY <1>6 DEF NewSim, IsSim
<1>8. PICK x : x = [o EXCEPT !.at = "execute", !.dir = dir]
    OBVIOUS
<1>9. PICK z : z = Put(y, dir, sim)
    OBVIOUS
<1>10. /\ x.at = "execute" /\ x.root = o.root /\ x.dir = dir /\ x.outcomes = o.outcomes
       /\ x.progress = o.progress
    BY <1>4, <1>8 DEF IsRunner
<1>11. Content(x, z)
    <2>1. NewTo(o, dir)
        BY <1>4, <1>5, FreeOfOutcomes
    <2>2. UnderWay(o, x)
        BY <1>10, <2>1 DEF UnderWay
    <2>. QED  BY <1>4, <1>7, <1>9, <1>10, <2>2, OneUnderWay
<1>12. IsRunner(x)
    BY <1>4, <1>8, <1>10 DEF IsRunner
<1>13. run' = [run EXCEPT ![r] = x]
    BY <1>1, <1>3, <1>8 DEF RunsInv
<1>14. disk' = [disk EXCEPT ![run[r].root] = z]
    BY <1>2, <1>3, <1>6, <1>9 DEF SetSim, Put, RunsInv, IsMap
<1>. QED  BY <1>1, <1>4, <1>10, <1>11, <1>12, <1>13, <1>14, OwnStep

LEMMA RunsExecute ==
    ASSUME RunsInv, NEW r \in Runners, Execute(r) PROVE RunsInv'
<1>1. PICK o : o = run[r]
    OBVIOUS
<1>2. PICK y : y = disk[run[r].root]
    OBVIOUS
<1>3. o.at = "execute" /\ IsRunner(o) /\ Content(o, y)
    BY <1>1, <1>2, Here DEF Execute, At
<1>4. NewTo(o, o.dir)
    BY <1>3 DEF NewTo, Content, DirsOwn
<1>5. ASSUME NEW result, NEW x, x = [o EXCEPT !.at = "summary", !.result = result]
      PROVE  /\ IsRunner(x) /\ x.at = "summary" /\ x.root = o.root /\ x.dir = o.dir
             /\ x.outcomes = o.outcomes /\ x.progress = o.progress /\ UnderWay(o, x)
    <2>1. /\ x.at = "summary" /\ x.root = o.root /\ x.dir = o.dir
          /\ x.outcomes = o.outcomes /\ x.progress = o.progress
        BY <1>3, <1>5 DEF IsRunner
    <2>2. IsRunner(x)
        BY <1>3, <1>5, <2>1 DEF IsRunner
    <2>. QED  BY <1>4, <2>1, <2>2 DEF UnderWay
<1>6. ASSUME NEW written, SetSim(r, run[r].dir, [status |-> "none", results |-> written]),
             run' = [run EXCEPT ![r].at = "summary", ![r].result = "ok"]
      PROVE  RunsInv'
    <2>1. PICK x : x = [o EXCEPT !.at = "summary", !.result = "ok"]
        OBVIOUS
    <2>2. PICK sim : sim = [status |-> "none", results |-> written]
        OBVIOUS
    <2>3. IsSim(sim)
        BY <2>2 DEF IsSim
    <2>4. PICK z : z = Put(y, o.dir, sim)
        OBVIOUS
    <2>5. /\ IsRunner(x) /\ x.at = "summary" /\ x.root = o.root /\ x.dir = o.dir
          /\ UnderWay(o, x)
        BY <1>5, <2>1
    <2>6. Content(x, z)
        BY <1>3, <2>3, <2>4, <2>5, OneUnderWay
    <2>7. run' = [run EXCEPT ![r] = x]
        BY <1>1, <1>6, <2>1 DEF RunsInv
    <2>8. disk' = [disk EXCEPT ![run[r].root] = z]
        BY <1>1, <1>2, <1>6, <2>2, <2>4 DEF SetSim, Put, RunsInv, IsMap
    <2>. QED  BY <1>1, <1>3, <2>5, <2>6, <2>7, <2>8, OwnStep
<1>7. ASSUME run' = [run EXCEPT ![r].at = "summary", ![r].result = "error"], UNCHANGED disk
      PROVE  RunsInv'
    <2>1. PICK x : x = [o EXCEPT !.at = "summary", !.result = "error"]
        OBVIOUS
    <2>2. /\ IsRunner(x) /\ x.at = "summary" /\ x.root = o.root /\ x.dir = o.dir
          /\ x.outcomes = o.outcomes /\ x.progress = o.progress
        BY <1>5, <2>1
    <2>3. DirsOwn(x, y) /\ Reported(x, y)
        BY <1>3, <2>2 DEF Content, DirsOwn, Reported, Named
    <2>4. Content(x, y)
        BY <1>3, <2>3 DEF Content
    <2>5. run' = [run EXCEPT ![r] = x]
        BY <1>1, <1>7, <2>1 DEF RunsInv
    <2>. QED  BY <1>1, <1>2, <1>3, <1>7, <2>2, <2>4, <2>5, OwnMove
<1>. QED  BY <1>6, <1>7 DEF Execute, KeepDisk

LEMMA RunsSummarize ==
    ASSUME RunsInv, NEW r \in Runners, Summarize(r) PROVE RunsInv'
<1>1. PICK o : o = run[r]
    OBVIOUS
<1>2. PICK y : y = disk[run[r].root]
    OBVIOUS
<1>3. o.at = "summary" /\ IsRunner(o) /\ Content(o, y)
    BY <1>1, <1>2, Here DEF Summarize, At
<1>4. NewTo(o, o.dir) /\ o.dir \in DOMAIN y.sims
    BY <1>3 DEF NewTo, Content, DirsOwn
<1>5. PICK sim : sim = [y.sims[o.dir] EXCEPT !.status = o.result]
    OBVIOUS
<1>6. IsSim(sim) /\ sim.status = o.result
    BY <1>3, <1>4, <1>5 DEF Content, IsRoot, IsSim
<1>7. PICK e : e = Outcome(r, o.dir, o.result)
    OBVIOUS
<1>8. e.dir = o.dir /\ e.status = o.result
    BY <1>7 DEF Outcome
<1>9. PICK x : x = [o EXCEPT !.at = "variant", !.v = o.v + 1, !.result = "none",
                             !.outcomes = Append(o.outcomes, e)]
    OBVIOUS
<1>10. PICK z : z = Put(y, o.dir, sim)
    OBVIOUS
<1>11. x.at = "variant" /\ x.root = o.root /\ x.outcomes = Append(o.outcomes, e)
       /\ x.progress = o.progress
    BY <1>3, <1>9 DEF IsRunner
<1>12. /\ Content(x, z) /\ IsMap(x.outcomes) /\ \E n \in Nat : DOMAIN x.outcomes = 1..n
    <2>1. Another(o, x, e, sim)
        BY <1>4, <1>6, <1>8, <1>11 DEF Another
    <2>. QED  BY <1>3, <1>6, <1>8, <1>10, <2>1, OneMore
<1>13. IsRunner(x)
    BY <1>3, <1>9, <1>11, <1>12 DEF IsRunner
<1>14. run' = [run EXCEPT ![r] = x]
    BY <1>1, <1>7, <1>9 DEF RunsInv, Summarize
<1>15. disk' = [disk EXCEPT ![run[r].root] = z]
    BY <1>1, <1>2, <1>5, <1>10 DEF Summarize, Root, SetSim, Put, RunsInv, IsMap
<1>. QED  BY <1>1, <1>3, <1>11, <1>12, <1>13, <1>14, <1>15, OwnStep
----------------------------------------------------------------------------
(* The reports of the run. *)

(* A runner that goes on with what it has done and to where it runs nothing. *)
Elsewhere(o, x) ==
    /\ x.root = o.root /\ x.at \notin {"new", "execute", "summary"}
    /\ x.outcomes = o.outcomes

LEMMA ElsewhereOwn ==
    ASSUME NEW o, NEW y, DirsOwn(o, y), NEW x, Elsewhere(o, x), NEW z, z.sims = y.sims
    PROVE  DirsOwn(x, z)
BY DEF Elsewhere, DirsOwn

LEMMA RunsBegin ==
    ASSUME RunsInv, NEW r \in Runners, Begin(r) PROVE RunsInv'
<1>1. PICK o : o = run[r]
    OBVIOUS
<1>2. PICK y : y = disk[run[r].root]
    OBVIOUS
<1>3. PICK entries : entries = [i \in DOMAIN run[r].files |-> Entry("pending", <<>>)]
    OBVIOUS
<1>4. PICK p : p = [status |-> "running", completed |-> 0, ok |-> 0, error |-> 0,
                    entries |-> entries]
    OBVIOUS
<1>5. /\ WriteProgress(r, p)
      /\ run' = [run EXCEPT ![r].at = "started", ![r].progress = p]
    BY <1>3, <1>4 DEF Begin
<1>6. o.at = "begin" /\ IsRunner(o) /\ Content(o, y)
    BY <1>1, <1>2, Here DEF Begin, At
<1>7. /\ IsMap(entries)
      /\ \A i \in DOMAIN entries : IsEntry(entries[i]) /\ entries[i].dir = <<>>
    <2>1. PICK e : e = Entry("pending", <<>>)
        OBVIOUS
    <2>2. IsEntry(e) /\ e.dir = <<>>
        BY <2>1 DEF Entry, IsEntry
    <2>. QED  BY <1>3, <2>1, <2>2 DEF IsMap
<1>8. IsProgress(p) /\ p.entries = entries
    BY <1>4, <1>7 DEF IsProgress
<1>9. PICK x : x = [o EXCEPT !.at = "started", !.progress = p]
    OBVIOUS
<1>10. PICK z : z = [y EXCEPT !.progress = p]
    OBVIOUS
<1>11. Elsewhere(o, x) /\ x.at = "started" /\ x.progress = p
    BY <1>6, <1>9 DEF IsRunner, Elsewhere
<1>12. IsRunner(x)
    BY <1>6, <1>8, <1>9, <1>11 DEF IsRunner, Elsewhere
<1>13. /\ IsRoot(z) /\ z.sims = y.sims /\ z.manifest = y.manifest /\ z.combined = y.combined
    BY <1>6, <1>10 DEF Content, IsRoot
<1>14. DirsOwn(x, z)
    BY <1>6, <1>11, <1>13, ElsewhereOwn DEF Content
<1>15. Reported(x, z)
    BY <1>6, <1>7, <1>8, <1>11, <1>13 DEF Content, Reported, Named, Elsewhere
<1>16. Content(x, z)
    BY <1>13, <1>14, <1>15 DEF Content
<1>17. run' = [run EXCEPT ![r] = x]
    BY <1>1, <1>5, <1>9 DEF RunsInv
<1>18. disk' = [disk EXCEPT ![run[r].root] = z]
    BY <1>2, <1>5, <1>10 DEF WriteProgress, RunsInv, IsMap
<1>. QED  BY <1>1, <1>6, <1>11, <1>12, <1>16, <1>17, <1>18, OwnStep DEF Elsewhere

LEMMA RunsStartSim ==
    ASSUME RunsInv, NEW r \in Runners, StartSim(r) PROVE RunsInv'
<1>1. PICK o : o = run[r]
    OBVIOUS
<1>2. PICK y : y = disk[run[r].root]
    OBVIOUS
<1>3. o.at = "next" /\ IsRunner(o) /\ Content(o, y)
    BY <1>1, <1>2, Here DEF StartSim, At
<1>4. PICK p : p = [o.progress EXCEPT !.entries[o.i].status = "running"]
    OBVIOUS
<1>5. /\ WriteProgress(r, p)
      /\ run' = [run EXCEPT ![r].at = "read", ![r].progress = p]
    BY <1>1, <1>4 DEF StartSim
<1>6. /\ IsProgress(p) /\ DOMAIN p.entries = DOMAIN o.progress.entries
      /\ \A i \in DOMAIN p.entries : p.entries[i].dir = o.progress.entries[i].dir
    <2>1. PICK es : es = o.progress.entries
        OBVIOUS
    <2>2. PICK fs : fs = [es EXCEPT ![o.i].status = "running"]
        OBVIOUS
    <2>3. IsMap(es) /\ \A i \in DOMAIN es : IsEntry(es[i])
        BY <1>3, <2>1 DEF IsRunner, IsProgress
    <2>4. /\ IsMap(fs) /\ DOMAIN fs = DOMAIN es
          /\ \A i \in DOMAIN es : IsEntry(fs[i]) /\ fs[i].dir = es[i].dir
        <3>1. PICK e : e = [es[o.i] EXCEPT !.status = "running"]
            OBVIOUS
        <3>2. fs = [es EXCEPT ![o.i] = e]
            BY <2>2, <3>1
        <3>3. ASSUME o.i \in DOMAIN es PROVE IsEntry(e) /\ e.dir = es[o.i].dir
            BY <2>3, <3>1, <3>3 DEF IsEntry
        <3>. QED  BY <2>3, <3>2, <3>3 DEF IsMap
    <2>5. p = [o.progress EXCEPT !.entries = fs]
        BY <1>4, <2>1, <2>2
    <2>6. p.entries = fs /\ IsProgress(p)
        BY <1>3, <2>4, <2>5 DEF IsRunner, IsProgress
    <2>. QED  BY <2>1, <2>4, <2>6
<1>7. PICK x : x = [o EXCEPT !.at = "read", !.progress = p]
    OBVIOUS
<1>8. PICK z : z = [y EXCEPT !.progress = p]
    OBVIOUS
<1>9. Elsewhere(o, x) /\ x.at = "read" /\ x.progress = p
    BY <1>3, <1>7 DEF IsRunner, Elsewhere
<1>10. IsRunner(x)
    BY <1>3, <1>6, <1>7, <1>9 DEF IsRunner, Elsewhere
<1>11. /\ IsRoot(z) /\ z.sims = y.sims /\ z.manifest = y.manifest /\ z.combined = y.combined
    BY <1>3, <1>8 DEF Content, IsRoot
<1>12. DirsOwn(x, z)
    BY <1>3, <1>9, <1>11, ElsewhereOwn DEF Content
<1>13. Reported(x, z)
    BY <1>3, <1>6, <1>9, <1>11 DEF Content, Reported, Named, Elsewhere
<1>14. Content(x, z)
    BY <1>11, <1>12, <1>13 DEF Content
<1>15. run' = [run EXCEPT ![r] = x]
    BY <1>1, <1>5, <1>7 DEF RunsInv
<1>16. disk' = [disk EXCEPT ![run[r].root] = z]
    BY <1>2, <1>5, <1>8 DEF WriteProgress, RunsInv, IsMap
<1>. QED  BY <1>1, <1>3, <1>9, <1>10, <1>14, <1>15, <1>16, OwnStep DEF Elsewhere

LEMMA RunsReadSim ==
    ASSUME RunsInv, NEW r \in Runners, ReadSim(r) PROVE RunsInv'
<1>1. PICK o : o = run[r]
    OBVIOUS
<1>2. PICK y : y = disk[run[r].root]
    OBVIOUS
<1>3. o.at = "read" /\ IsRunner(o) /\ Content(o, y)
    BY <1>1, <1>2, Here DEF ReadSim, At
<1>4. PICK x : x = [o EXCEPT !.at = "variant", !.v = 1]
    OBVIOUS
<1>5. IsRunner(x) /\ Elsewhere(o, x) /\ x.at = "variant" /\ x.progress = o.progress
    <2>1. Elsewhere(o, x) /\ x.at = "variant" /\ x.progress = o.progress
        BY <1>3, <1>4 DEF IsRunner, Elsewhere
    <2>. QED  BY <1>3, <1>4, <2>1 DEF IsRunner, Elsewhere
<1>6. DirsOwn(x, y) /\ Reported(x, y)
    BY <1>3, <1>5, ElsewhereOwn DEF Content, Reported, Named, Elsewhere
<1>7. Content(x, y)
    BY <1>3, <1>6 DEF Content
<1>8. run' = [run EXCEPT ![r] = x]
    BY <1>1, <1>4 DEF RunsInv, ReadSim
<1>9. UNCHANGED disk
    BY DEF ReadSim, KeepDisk
<1>. QED  BY <1>1, <1>2, <1>3, <1>5, <1>7, <1>8, <1>9, OwnMove DEF Elsewhere

LEMMA RunsRecordOutcomes ==
    ASSUME RunsInv, NEW r \in Runners, RecordOutcomes(r) PROVE RunsInv'
<1>1. PICK o : o = run[r]
    OBVIOUS
<1>2. PICK y : y = disk[run[r].root]
    OBVIOUS
<1>3. o.at = "record" /\ IsRunner(o) /\ Content(o, y)
    BY <1>1, <1>2, Here DEF RecordOutcomes, At
<1>4. PICK new : new = {k \in DOMAIN run[r].outcomes : run[r].outcomes[k].file = run[r].i}
    OBVIOUS
<1>5. PICK first \in DOMAIN run[r].outcomes :
          LET count(s) == Cardinality({k \in new : run[r].outcomes[k].status = s})
              p == [run[r].progress EXCEPT
                       !.entries[run[r].i] = Entry(run[r].outcomes[first].status,
                                                   run[r].outcomes[first].dir),
                       !.completed = Len(run[r].outcomes),
                       !.ok = @ + count("ok"), !.error = @ + count("error")]
          IN  /\ WriteProgress(r, p)
              /\ run' = [run EXCEPT ![r].at = "combine", ![r].progress = p]
    BY <1>4 DEF RecordOutcomes
<1>6. PICK completed, ok, error :
          /\ completed = Len(run[r].outcomes)
          /\ ok = run[r].progress.ok
                    + Cardinality({k \in new : run[r].outcomes[k].status = "ok"})
          /\ error = run[r].progress.error
                       + Cardinality({k \in new : run[r].outcomes[k].status = "error"})
    OBVIOUS
<1>7. PICK p : p = [run[r].progress EXCEPT
                       !.entries[run[r].i] = Entry(run[r].outcomes[first].status,
                                                   run[r].outcomes[first].dir),
                       !.completed = completed, !.ok = ok, !.error = error]
    OBVIOUS
<1>8. /\ WriteProgress(r, p)
      /\ run' = [run EXCEPT ![r].at = "combine", ![r].progress = p]
    BY <1>5, <1>6, <1>7
<1>9. IsProgress(p) /\ Named(o, p.entries)
    <2>1. PICK es : es = o.progress.entries
        OBVIOUS
    <2>2. PICK e : e = Entry(o.outcomes[first].status, o.outcomes[first].dir)
        OBVIOUS
    <2>3. IsEntry(e) /\ e.dir = o.outcomes[first].dir
        BY <2>2 DEF Entry, IsEntry
    <2>4. PICK fs : fs = [es EXCEPT ![o.i] = e]
        OBVIOUS
    <2>5. IsMap(es) /\ (\A i \in DOMAIN es : IsEntry(es[i])) /\ Named(o, es)
        BY <1>3, <2>1 DEF IsRunner, IsProgress, Content, Reported
    <2>6. /\ IsMap(fs) /\ (\A i \in DOMAIN fs : IsEntry(fs[i]))
          /\ Named(o, fs)
        BY <1>1, <2>3, <2>4, <2>5 DEF IsMap, Named
    <2>7. p = [o.progress EXCEPT !.entries = fs, !.completed = completed, !.ok = ok,
                                 !.error = error]
        BY <1>1, <1>7, <2>1, <2>2, <2>4
    <2>8. p.entries = fs /\ IsProgress(p)
        BY <1>3, <2>6, <2>7 DEF IsRunner, IsProgress
    <2>. QED  BY <2>6, <2>8
<1>10. PICK x : x = [o EXCEPT !.at = "combine", !.progress = p]
    OBVIOUS
<1>11. PICK z : z = [y EXCEPT !.progress = p]
    OBVIOUS
<1>12. Elsewhere(o, x) /\ x.at = "combine" /\ x.progress = p
    BY <1>3, <1>10 DEF IsRunner, Elsewhere
<1>13. IsRunner(x)
    BY <1>3, <1>9, <1>10, <1>12 DEF IsRunner, Elsewhere
<1>14. /\ IsRoot(z) /\ z.sims = y.sims /\ z.manifest = y.manifest /\ z.combined = y.combined
    BY <1>3, <1>11 DEF Content, IsRoot
<1>15. DirsOwn(x, z)
    BY <1>3, <1>12, <1>14, ElsewhereOwn DEF Content
<1>16. Reported(x, z)
    BY <1>3, <1>9, <1>12, <1>14 DEF Content, Reported, Named, Elsewhere
<1>17. Content(x, z)
    BY <1>14, <1>15, <1>16 DEF Content
<1>18. run' = [run EXCEPT ![r] = x]
    BY <1>1, <1>8, <1>10 DEF RunsInv
<1>19. disk' = [disk EXCEPT ![run[r].root] = z]
    BY <1>2, <1>8, <1>11 DEF WriteProgress, RunsInv, IsMap
<1>. QED  BY <1>1, <1>3, <1>12, <1>13, <1>17, <1>18, <1>19, OwnStep DEF Elsewhere
----------------------------------------------------------------------------
LEMMA RunsWriteCombined ==
    ASSUME RunsInv, NEW r \in Runners, run[r].at # "new", WriteCombined(r),
           NEW point \in {"manifest", "done"}, GoOn(r, point)
    PROVE  RunsInv'
<1>1. PICK o : o = run[r]
    OBVIOUS
<1>2. PICK y : y = disk[run[r].root]
    OBVIOUS
<1>3. IsRunner(o) /\ Content(o, y)
    BY <1>1, <1>2, Here
<1>4. PICK x : x = [o EXCEPT !.at = point]
    OBVIOUS
<1>5. PICK all : all = Combined(r)
    OBVIOUS
<1>6. all = {o.outcomes[k].dir : k \in {k \in DOMAIN o.outcomes : y.sims[o.outcomes[k].dir].results}}
    BY <1>1, <1>2, <1>5 DEF Combined, Root
<1>7. PICK z : z = [y EXCEPT !.combined = all]
    OBVIOUS
<1>8. Elsewhere(o, x) /\ x.at = point /\ x.progress = o.progress
    BY <1>3, <1>4 DEF IsRunner, Elsewhere
<1>9. IsRunner(x)
    BY <1>3, <1>4, <1>8 DEF IsRunner, Elsewhere
<1>10. IsRoot(z) /\ z.sims = y.sims /\ z.manifest = y.manifest /\ z.combined = all
    BY <1>3, <1>7 DEF Content, IsRoot
<1>11. DirsOwn(x, z)
    BY <1>3, <1>8, <1>10, ElsewhereOwn DEF Content
<1>12. AllCombined(x, z)
    BY <1>6, <1>8, <1>10 DEF AllCombined, Elsewhere
<1>13. Reported(x, z)
    <2>1. Named(x, x.progress.entries) /\ Named(x, z.manifest.entries)
        BY <1>3, <1>8, <1>10 DEF Content, Reported, Named, Elsewhere
    <2>2. ASSUME NEW i \in DOMAIN z.manifest.entries, z.manifest.entries[i].dir # <<>>,
                 z.sims[z.manifest.entries[i].dir].results
          PROVE  z.manifest.entries[i].dir \in z.combined
        BY <1>12, <2>1, <2>2 DEF Named, AllCombined
    <2>. QED  BY <1>8, <1>12, <2>1, <2>2 DEF Reported
<1>14. Content(x, z)
    BY <1>10, <1>11, <1>13 DEF Content
<1>15. run' = [run EXCEPT ![r] = x]
    BY <1>1, <1>4 DEF GoOn, RunsInv
<1>16. disk' = [disk EXCEPT ![run[r].root] = z]
    BY <1>2, <1>5, <1>7 DEF WriteCombined, RunsInv, IsMap
<1>. QED  BY <1>1, <1>3, <1>8, <1>9, <1>14, <1>15, <1>16, OwnStep DEF Elsewhere

(* A manifest is written when no entry names a directory yet, or all of    *)
(* them are combined.                                                      *)
LEMMA ManifestContent ==
    ASSUME NEW o, NEW y, Content(o, y), o.at \in {"started", "manifest", "verdict"},
           NEW x, Elsewhere(o, x), x.progress = o.progress, x.at \in {"next", "over"},
           NEW m, m.entries = o.progress.entries
    PROVE  Content(x, [y EXCEPT !.manifest = m])
<1>1. PICK z : z = [y EXCEPT !.manifest = m]
    OBVIOUS
<1>2. IsRoot(z) /\ z.sims = y.sims /\ z.manifest = m /\ z.combined = y.combined
    BY <1>1 DEF Content, IsRoot
<1>3. DirsOwn(x, z)
    BY <1>2, ElsewhereOwn DEF Content
<1>4. Named(o, m.entries) /\ Named(x, m.entries) /\ Named(x, x.progress.entries)
    BY DEF Content, Reported, Named, Elsewhere
<1>5. ASSUME NEW i \in DOMAIN m.entries, m.entries[i].dir # <<>>,
             y.sims[m.entries[i].dir].results
      PROVE  m.entries[i].dir \in y.combined
    <2>1. o.at # "started"
        BY <1>5 DEF Content, Reported
    <2>2. AllCombined(o, y)
        BY <2>1 DEF Content, Reported
    <2>. QED  BY <1>4, <1>5, <2>2 DEF Named, AllCombined
<1>6. Reported(x, z)
    BY <1>2, <1>4, <1>5 DEF Reported
<1>. QED  BY <1>1, <1>2, <1>3, <1>6 DEF Content

LEMMA RunsBeginManifest ==
    ASSUME RunsInv, NEW r \in Runners, BeginManifest(r) PROVE RunsInv'
<1>1. PICK o : o = run[r]
    OBVIOUS
<1>2. PICK y : y = disk[run[r].root]
    OBVIOUS
<1>3. o.at = "started" /\ IsRunner(o) /\ Content(o, y)
    BY <1>1, <1>2, Here DEF BeginManifest, At
<1>4. PICK x : x = [o EXCEPT !.at = "next"]
    OBVIOUS
<1>5. PICK m : m = [status |-> o.progress.status, success |-> "none",
                    entries |-> o.progress.entries]
    OBVIOUS
<1>6. Elsewhere(o, x) /\ x.at = "next" /\ x.progress = o.progress
    BY <1>3, <1>4 DEF IsRunner, Elsewhere
<1>7. IsRunner(x)
    BY <1>3, <1>4, <1>6 DEF IsRunner, Elsewhere
<1>8. m.entries = o.progress.entries
    BY <1>5
<1>9. PICK z : z = [y EXCEPT !.manifest = m]
    OBVIOUS
<1>10. Content(x, z)
    BY <1>3, <1>6, <1>8, <1>9, ManifestContent
<1>11. run' = [run EXCEPT ![r] = x]
    BY <1>1, <1>4 DEF BeginManifest, GoOn, RunsInv
<1>12. disk' = [disk EXCEPT ![run[r].root] = z]
    BY <1>1, <1>2, <1>5, <1>9 DEF BeginManifest, WriteManifest, RunsInv, IsMap
<1>. QED  BY <1>1, <1>3, <1>6, <1>7, <1>10, <1>11, <1>12, OwnStep DEF Elsewhere

LEMMA RunsReport ==
    ASSUME RunsInv, NEW r \in Runners, Report(r) PROVE RunsInv'
<1>1. PICK o : o = run[r]
    OBVIOUS
<1>2. PICK y : y = disk[run[r].root]
    OBVIOUS
<1>3. o.at = "manifest" /\ IsRunner(o) /\ Content(o, y)
    BY <1>1, <1>2, Here DEF Report, At
<1>4. PICK x : x = [o EXCEPT !.at = "next", !.i = o.i + 1]
    OBVIOUS
<1>5. PICK m : m = [status |-> o.progress.status, success |-> "none",
                    entries |-> o.progress.entries]
    OBVIOUS
<1>6. Elsewhere(o, x) /\ x.at = "next" /\ x.progress = o.progress
    BY <1>3, <1>4 DEF IsRunner, Elsewhere
<1>7. IsRunner(x)
    BY <1>3, <1>4, <1>6 DEF IsRunner, Elsewhere
<1>8. m.entries = o.progress.entries
    BY <1>5
<1>9. PICK z : z = [y EXCEPT !.manifest = m]
    OBVIOUS
<1>10. Content(x, z)
    BY <1>3, <1>6, <1>8, <1>9, ManifestContent
<1>11. run' = [run EXCEPT ![r] = x]
    BY <1>1, <1>4 DEF Report, RunsInv
<1>12. disk' = [disk EXCEPT ![run[r].root] = z]
    BY <1>1, <1>2, <1>5, <1>9 DEF Report, WriteManifest, RunsInv, IsMap
<1>. QED  BY <1>1, <1>3, <1>6, <1>7, <1>10, <1>11, <1>12, OwnStep DEF Elsewhere

LEMMA RunsVerdict ==
    ASSUME RunsInv, NEW r \in Runners, Verdict(r) PROVE RunsInv'
<1>1. PICK o : o = run[r]
    OBVIOUS
<1>2. PICK y : y = disk[run[r].root]
    OBVIOUS
<1>3. o.at = "verdict" /\ IsRunner(o) /\ Content(o, y)
    BY <1>1, <1>2, Here DEF Verdict, At
<1>4. PICK success, exit : WriteManifest(r, success) /\ Leave(r, exit)
    BY DEF Verdict
<1>5. PICK x : x = [o EXCEPT !.at = "over", !.exit = exit]
    OBVIOUS
<1>6. PICK m : m = [status |-> o.progress.status, success |-> success,
                    entries |-> o.progress.entries]
    OBVIOUS
<1>7. Elsewhere(o, x) /\ x.at = "over" /\ x.progress = o.progress
    BY <1>3, <1>5 DEF IsRunner, Elsewhere
<1>8. IsRunner(x)
    BY <1>3, <1>5, <1>7 DEF IsRunner, Elsewhere
<1>9. m.entries = o.progress.entries
    BY <1>6
<1>10. PICK z : z = [y EXCEPT !.manifest = m]
    OBVIOUS
<1>11. Content(x, z)
    BY <1>3, <1>7, <1>9, <1>10, ManifestContent
<1>12. run' = [run EXCEPT ![r] = x]
    BY <1>1, <1>4, <1>5 DEF Leave, RunsInv
<1>13. disk' = [disk EXCEPT ![run[r].root] = z]
    BY <1>1, <1>2, <1>4, <1>6, <1>10 DEF WriteManifest, RunsInv, IsMap
<1>. QED  BY <1>1, <1>3, <1>7, <1>8, <1>11, <1>12, <1>13, OwnStep DEF Elsewhere

LEMMA RunsDone ==
    ASSUME RunsInv, NEW r \in Runners, Done(r) PROVE RunsInv'
<1>1. PICK o : o = run[r]
    OBVIOUS
<1>2. PICK y : y = disk[run[r].root]
    OBVIOUS
<1>3. o.at = "done" /\ IsRunner(o) /\ Content(o, y)
    BY <1>1, <1>2, Here DEF Done, At
<1>4. PICK p : p = [o.progress EXCEPT !.status = "done"]
    OBVIOUS
<1>5. /\ WriteProgress(r, p)
      /\ run' = [run EXCEPT ![r].at = "verdict", ![r].progress = p]
    BY <1>1, <1>4 DEF Done
<1>6. IsProgress(p) /\ p.entries = o.progress.entries
    BY <1>3, <1>4 DEF IsRunner, IsProgress
<1>7. PICK x : x = [o EXCEPT !.at = "verdict", !.progress = p]
    OBVIOUS
<1>8. PICK z : z = [y EXCEPT !.progress = p]
    OBVIOUS
<1>9. Elsewhere(o, x) /\ x.at = "verdict" /\ x.progress = p
    BY <1>3, <1>7 DEF IsRunner, Elsewhere
<1>10. IsRunner(x)
    BY <1>3, <1>6, <1>7, <1>9 DEF IsRunner, Elsewhere
<1>11. /\ IsRoot(z) /\ z.sims = y.sims /\ z.manifest = y.manifest /\ z.combined = y.combined
    BY <1>3, <1>8 DEF Content, IsRoot
<1>12. DirsOwn(x, z)
    BY <1>3, <1>9, <1>11, ElsewhereOwn DEF Content
<1>13. AllCombined(x, z)
    BY <1>3, <1>9, <1>11 DEF Content, Reported, AllCombined, Elsewhere
<1>14. Reported(x, z)
    BY <1>3, <1>6, <1>9, <1>11, <1>13 DEF Content, Reported, Named, Elsewhere
<1>15. Content(x, z)
    BY <1>11, <1>12, <1>14 DEF Content
<1>16. run' = [run EXCEPT ![r] = x]
    BY <1>1, <1>5, <1>7 DEF RunsInv
<1>17. disk' = [disk EXCEPT ![run[r].root] = z]
    BY <1>2, <1>5, <1>8 DEF WriteProgress, RunsInv, IsMap
<1>. QED  BY <1>1, <1>3, <1>9, <1>10, <1>15, <1>16, <1>17, OwnStep DEF Elsewhere

LEMMA RunsStep == RunsInv /\ [RunsNext]_runVars => RunsInv'
<1> SUFFICES ASSUME RunsInv, [RunsNext]_runVars PROVE RunsInv'
    OBVIOUS
<1>1. CASE UNCHANGED runVars
    BY <1>1 DEF runVars, RunsInv, RootsOwn, IsMap
<1>2. ASSUME NEW r \in Runners, Combine(r) \/ Finish(r) PROVE RunsInv'
    <2>1. run[r].at # "new" /\ WriteCombined(r)
        BY <1>2 DEF Combine, Finish, At
    <2>2. \E point \in {"manifest", "done"} : GoOn(r, point)
        BY <1>2 DEF Combine, Finish
    <2>. QED  BY <2>1, <2>2, RunsWriteCombined
<1>3. ASSUME NEW r \in Runners,
             \/ MakeRoot(r) \/ Unlink(r) \/ Link(r) \/ Assemble(r) \/ Begin(r)
             \/ BeginManifest(r) \/ StartSim(r) \/ EndSim(r)
      PROVE  RunsInv'
    BY <1>3, RunsMakeRoot, RunsWait, RunsBegin, RunsBeginManifest, RunsStartSim
<1>4. ASSUME NEW r \in Runners,
             \/ FailFile(r) \/ ReadSim(r) \/ FailVariant(r) \/ StartVariant(r)
             \/ Execute(r) \/ Summarize(r)
      PROVE  RunsInv'
    BY <1>4, RunsFailFile, RunsReadSim, RunsFailVariant, RunsStartVariant, RunsExecute,
       RunsSummarize
<1>5. ASSUME NEW r \in Runners,
             RecordOutcomes(r) \/ Report(r) \/ Done(r) \/ Verdict(r)
      PROVE  RunsInv'
    BY <1>5, RunsRecordOutcomes, RunsReport, RunsDone, RunsVerdict
<1>. QED  BY <1>1, <1>2, <1>3, <1>4, <1>5 DEF RunsNext

(* What runners and the directories of runs look like is kept by every     *)
(* step (runner.rs:174-297, 741-791).                                      *)
THEOREM RunsKept == RunsSpec => []RunsInv
<1>. QED  BY RunsStart, RunsStep, PTL DEF RunsSpec

(* Nobody writes where another has written (runner.rs:741-791).            *)
THEOREM NobodysDirectory == RunsSpec => []OwnDirs
<1>1. RunsInv => OwnDirs
    BY DEF RunsInv, RootsOwn, Content, DirsOwn, OwnDirs, Root
<1>. QED  BY RunsKept, <1>1, PTL

(* Whenever a runner is killed, the manifest names no simulation whose     *)
(* results the combined results lack (runner.rs:252-262).                  *)
THEOREM ResultsBeforeManifest == RunsSpec => []CombinedFirst
<1>1. RunsInv => CombinedFirst
    BY DEF RunsInv, RootsOwn, Content, Reported, CombinedFirst, Root
<1>. QED  BY RunsKept, <1>1, PTL
----------------------------------------------------------------------------
(* The verdict.  What a file has come to, how far the counts have followed, *)
(* and that nothing is said of success before the verdict.                 *)

Early == {"new", "unlink", "link", "assemble", "begin"}
Inside == {"read", "variant", "execute", "summary", "record", "combine", "manifest"}
Wanted(x, j) == Len(VariantsOf[x.files[j]])
Expands(x, j) == MatrixOk(Files[x.files[j]].matrix)
OutcomesOf(x, j) == {k \in DOMAIN x.outcomes : x.outcomes[k].file = j}
Marked(x, n, s) ==
    {k \in DOMAIN x.outcomes : x.outcomes[k].file <= n /\ x.outcomes[k].status = s}

(* The files whose outcomes are in the progress. *)
Counted(x) == IF x.at \in {"combine", "manifest"} THEN x.i ELSE x.i - 1

Placed(x) ==
    /\ x.files \in Seq(DOMAIN Files)
    /\ x.i \in Nat /\ 1 <= x.i /\ x.i <= Len(x.files) + 1
    /\ x.at \in Inside => x.i <= Len(x.files)
    /\ x.at \in {"done", "verdict"} => x.i = Len(x.files) + 1
    /\ x.at \in Early => x.progress = NoProgress
    /\ x.at \in Early \cup {"started"} => x.outcomes = <<>> /\ x.i = 1
OutcomesMade(x) ==
    /\ \A k \in DOMAIN x.outcomes :
           /\ x.outcomes[k].file \in Nat /\ 1 <= x.outcomes[k].file /\ x.outcomes[k].file <= x.i
           /\ x.outcomes[k].status \in {"ok", "error"}
    /\ x.at \in {"next", "read", "done", "verdict"} =>
           \A k \in DOMAIN x.outcomes : x.outcomes[k].file < x.i
    /\ x.at = "summary" => x.result \in {"ok", "error"}

(* A file is through: an error, or every variant ran; never more outcomes   *)
(* than variants.                                                          *)
Through(x, j) ==
    /\ Expands(x, j) => Cardinality(OutcomesOf(x, j)) <= Wanted(x, j)
    /\ (\A k \in OutcomesOf(x, j) : x.outcomes[k].status = "ok") =>
           Expands(x, j) /\ Cardinality(OutcomesOf(x, j)) = Wanted(x, j)
AllThrough(x) ==
    \A j \in Nat : 1 <= j /\ (j < x.i \/ (j = x.i /\ x.at \in {"record", "combine", "manifest"}))
                   => Through(x, j)
MidFile(x) ==
    /\ x.at \in {"variant", "execute", "summary"} =>
           /\ x.v \in Nat /\ Cardinality(OutcomesOf(x, x.i)) = x.v - 1
           /\ Expands(x, x.i) /\ x.v <= Wanted(x, x.i) + 1
    /\ x.at \in {"execute", "summary"} => x.v <= Wanted(x, x.i)

Tallied(x) ==
    x.at \notin Early \cup {"over"} =>
        /\ DOMAIN x.progress.entries = DOMAIN x.files
        /\ \A j \in DOMAIN x.progress.entries :
               j <= Counted(x) => x.progress.entries[j].status \in {"ok", "error"}
        /\ x.progress.ok = Cardinality(Marked(x, Counted(x), "ok"))
        /\ x.progress.error = Cardinality(Marked(x, Counted(x), "error"))
        /\ x.at \in {"started", "next", "combine", "manifest", "done", "verdict"} =>
               x.progress.completed = Len(x.outcomes)
        /\ x.at = "verdict" => x.progress.status = "done"

Succeeded(x, j) ==
    {k \in DOMAIN x.outcomes : x.outcomes[k].file = j /\ x.outcomes[k].status = "ok"}
Judged(x, y) ==
    /\ x.exit = "ok" <=> \A j \in DOMAIN x.files :
                             Expands(x, j) /\ Cardinality(Succeeded(x, j)) = Wanted(x, j)
    /\ y.manifest = [status |-> "done", entries |-> x.progress.entries,
                     success |-> IF x.exit = "ok" THEN "yes" ELSE "no"]
    /\ x.progress.completed = x.progress.ok + x.progress.error
    /\ x.progress.completed = Len(x.outcomes)
    /\ x.progress.error = 0 <=> x.exit = "ok"
    /\ \A j \in DOMAIN x.progress.entries : x.progress.entries[j].status \in {"ok", "error"}

Counting(x) == Placed(x) /\ OutcomesMade(x) /\ AllThrough(x) /\ MidFile(x) /\ Tallied(x)
Said(x, y) ==
    /\ y.progress = x.progress
    /\ y.manifest.success = "none" \/ (x.at = "over" /\ Judged(x, y))

RightInv ==
    \A r \in Runners : /\ Counting(run[r])
                       /\ run[r].at # "new" => Said(run[r], disk[run[r].root])

LEMMA RightStart == RunsInit => RightInv
<1> SUFFICES ASSUME RunsInit, NEW r \in Runners
             PROVE  Counting(run[r]) /\ run[r].at = "new"
    BY DEF RightInv
<1>1. PICK files \in FileLists :
        run[r] = [at |-> "new", n |-> 0, root |-> <<>>, files |-> files, i |-> 1,
                  v |-> 1, dir |-> <<>>, result |-> "none",
                  outcomes |-> <<>>, progress |-> NoProgress, exit |-> "none"]
    BY DEF RunsInit
<1>2. PICK x : x = run[r]
    OBVIOUS
<1>3. /\ x.at = "new" /\ x.files = files /\ x.i = 1 /\ x.outcomes = <<>>
      /\ x.progress = NoProgress
    BY <1>1, <1>2
<1>4. files \in Seq(DOMAIN Files)
    BY FilesAssumption
<1>5. Len(files) \in Nat
    BY <1>4
<1>6. Placed(x)
    BY <1>3, <1>4, <1>5 DEF Placed, Inside
<1>7. OutcomesMade(x) /\ AllThrough(x) /\ MidFile(x) /\ Tallied(x)
    BY <1>3 DEF OutcomesMade, AllThrough, MidFile, Tallied, Early
<1>. QED  BY <1>2, <1>3, <1>6, <1>7 DEF Counting

LEMMA RightStep ==
    ASSUME RunsInv, RightInv, NEW r \in Runners, run[r].at # "new", NEW x, NEW y,
           run' = [run EXCEPT ![r] = x], disk' = [disk EXCEPT ![run[r].root] = y],
           x.root = run[r].root, Counting(x), Said(x, y)
    PROVE  RightInv'
<1>1. /\ run'[r] = x /\ \A q \in Runners \ {r} : run'[q] = run[q]
    BY DEF RunsInv
<1>2. /\ disk'[run[r].root] = y
      /\ \A d \in DOMAIN disk \ {run[r].root} : disk'[d] = disk[d]
    BY DEF RunsInv, IsMap, RootsOwn
<1>3. ASSUME NEW q \in Runners
      PROVE  /\ Counting(run'[q])
             /\ run'[q].at # "new" => Said(run'[q], disk'[run'[q].root])
    <2>1. CASE q = r
        BY <1>1, <1>2, <2>1
    <2>2. CASE q # r /\ run[q].at = "new"
        BY <1>1, <2>2 DEF RightInv
    <2>3. CASE q # r /\ run[q].at # "new"
        <3>1. run[q].root \in DOMAIN disk /\ run[q].root # run[r].root
            BY <2>3 DEF RunsInv, RootsOwn
        <3>. QED  BY <1>1, <1>2, <2>3, <3>1 DEF RightInv
    <2>. QED  BY <2>1, <2>2, <2>3
<1>. QED  BY <1>3 DEF RightInv

LEMMA RightMove ==
    ASSUME RunsInv, RightInv, NEW r \in Runners, run[r].at # "new", NEW x,
           run' = [run EXCEPT ![r] = x], disk' = disk,
           x.root = run[r].root, Counting(x), Said(x, disk[run[r].root])
    PROVE  RightInv'
<1>1. disk' = [disk EXCEPT ![run[r].root] = disk[run[r].root]]
    BY DEF RunsInv, IsMap, RootsOwn
<1>. QED  BY <1>1, RightStep

LEMMA RightHere ==
    ASSUME RunsInv, RightInv, NEW r \in Runners, run[r].at # "new"
    PROVE  /\ IsRunner(run[r]) /\ IsRoot(disk[run[r].root])
           /\ Counting(run[r]) /\ Said(run[r], disk[run[r].root])
           /\ run[r].root \in DOMAIN disk
BY DEF RunsInv, RightInv, RootsOwn, Content

LEMMA RightMakeRoot ==
    ASSUME RunsInv, RightInv, NEW r \in Runners, MakeRoot(r) PROVE RightInv'
<1>1. PICK name : name = Attempt(<<"run">>, run[r].n)
    OBVIOUS
<1>2. PICK o : o = run[r]
    OBVIOUS
<1>3. IsRunner(o) /\ o.at = "new" /\ Counting(o)
    BY <1>2 DEF RunsInv, RightInv, MakeRoot, At
<1>4. ASSUME NEW x, x.at \in {"new", "unlink"}, x.files = o.files, x.i = o.i,
             x.outcomes = o.outcomes, x.progress = o.progress
      PROVE  Counting(x) /\ x.progress = NoProgress
    <2>1. Placed(x) /\ x.progress = NoProgress
        BY <1>3, <1>4 DEF Counting, Placed, Early, Inside
    <2>2. x.outcomes = <<>> /\ x.i = 1
        BY <1>3, <1>4 DEF Counting, Placed, Early
    <2>3. OutcomesMade(x) /\ AllThrough(x) /\ MidFile(x) /\ Tallied(x)
        BY <1>4, <2>2 DEF OutcomesMade, AllThrough, MidFile, Tallied, Early
    <2>. QED  BY <2>1, <2>3 DEF Counting
<1>5. CASE run' = [run EXCEPT ![r].n = @ + 1] /\ UNCHANGED disk
    <2>1. PICK x : x = [o EXCEPT !.n = o.n + 1]
        OBVIOUS
    <2>2. /\ x.at = "new" /\ x.files = o.files /\ x.i = o.i /\ x.outcomes = o.outcomes
          /\ x.progress = o.progress
        BY <1>3, <2>1 DEF IsRunner
    <2>3. run'[r] = x /\ \A q \in Runners \ {r} : run'[q] = run[q]
        BY <1>2, <1>5, <2>1 DEF RunsInv
    <2>4. Counting(x)
        BY <1>4, <2>2
    <2>. QED  BY <1>5, <2>2, <2>3, <2>4 DEF RightInv
<1>6. CASE /\ name \notin DOMAIN disk
           /\ disk' = With(disk, name, EmptyRoot)
           /\ run' = [run EXCEPT ![r].at = "unlink", ![r].root = name]
    <2>1. PICK x : x = [o EXCEPT !.at = "unlink", !.root = name]
        OBVIOUS
    <2>2. /\ x.at = "unlink" /\ x.files = o.files /\ x.i = o.i /\ x.outcomes = o.outcomes
          /\ x.progress = o.progress /\ x.root = name
        BY <1>3, <2>1 DEF IsRunner
    <2>3. run'[r] = x /\ \A q \in Runners \ {r} : run'[q] = run[q]
        BY <1>2, <1>6, <2>1 DEF RunsInv
    <2>4. Counting(x) /\ x.progress = NoProgress
        BY <1>4, <2>2
    <2>5. PICK y : y = EmptyRoot
        OBVIOUS
    <2>6. disk'[name] = y /\ \A d \in DOMAIN disk : disk'[d] = disk[d]
        BY <1>6, <2>5 DEF With
    <2>7. Said(x, y)
        BY <2>4, <2>5 DEF Said, EmptyRoot, NoManifest
    <2>8. ASSUME NEW q \in Runners
          PROVE  /\ Counting(run'[q])
                 /\ run'[q].at # "new" => Said(run'[q], disk'[run'[q].root])
        <3>1. CASE q = r
            BY <2>2, <2>3, <2>4, <2>6, <2>7, <3>1
        <3>2. CASE q # r
            BY <2>3, <2>6, <3>2 DEF RightInv, RunsInv, RootsOwn
        <3>. QED  BY <3>1, <3>2
    <2>. QED  BY <2>8 DEF RightInv
<1>. QED  BY <1>1, <1>5, <1>6 DEF MakeRoot
----------------------------------------------------------------------------
(* What a step takes over from the runner. *)
SameWork(o, x) == x.root = o.root /\ x.files = o.files /\ x.outcomes = o.outcomes

LEMMA SameSets ==
    ASSUME NEW o, NEW x, SameWork(o, x)
    PROVE  /\ \A j : /\ OutcomesOf(x, j) = OutcomesOf(o, j) /\ Wanted(x, j) = Wanted(o, j)
                     /\ (Expands(x, j) <=> Expands(o, j)) /\ (Through(x, j) <=> Through(o, j))
           /\ \A n, s : Marked(x, n, s) = Marked(o, n, s)
<1>1. \A j : /\ OutcomesOf(x, j) = OutcomesOf(o, j) /\ Wanted(x, j) = Wanted(o, j)
             /\ (Expands(x, j) <=> Expands(o, j))
    BY DEF SameWork, OutcomesOf, Wanted, Expands
<1>2. ASSUME NEW j PROVE Through(x, j) <=> Through(o, j)
    BY <1>1 DEF SameWork, Through
<1>. QED  BY <1>1, <1>2 DEF SameWork, Marked

LEMMA RightWait ==
    ASSUME RunsInv, RightInv, NEW r \in Runners, Unlink(r) \/ Link(r) \/ Assemble(r)
    PROVE  RightInv'
<1>1. PICK o : o = run[r]
    OBVIOUS
<1>2. PICK y : y = disk[run[r].root]
    OBVIOUS
<1>3. o.at \in Early \ {"new"} /\ UNCHANGED disk
    BY <1>1 DEF Unlink, Link, Assemble, At, Early, KeepDisk
<1>4. IsRunner(o) /\ Counting(o) /\ Said(o, y)
    BY <1>1, <1>2, <1>3, RightHere
<1>5. PICK x : /\ run' = [run EXCEPT ![r] = x] /\ x.at \in {"link", "assemble", "begin", "over"}
               /\ SameWork(o, x) /\ x.i = o.i /\ x.progress = o.progress
    <2>1. ASSUME NEW point \in {"link", "assemble", "begin"}, GoOn(r, point)
          PROVE  \E x : /\ run' = [run EXCEPT ![r] = x]
                        /\ x.at \in {"link", "assemble", "begin", "over"}
                        /\ SameWork(o, x) /\ x.i = o.i /\ x.progress = o.progress
        <3>1. PICK x : x = [o EXCEPT !.at = point]
            OBVIOUS
        <3>2. run' = [run EXCEPT ![r] = x]
            BY <1>1, <2>1, <3>1 DEF GoOn, RunsInv
        <3>3. x.at = point /\ SameWork(o, x) /\ x.i = o.i /\ x.progress = o.progress
            BY <1>4, <3>1 DEF IsRunner, SameWork
        <3>. QED  BY <3>2, <3>3
    <2>2. ASSUME NEW exit, Leave(r, exit)
          PROVE  \E x : /\ run' = [run EXCEPT ![r] = x]
                        /\ x.at \in {"link", "assemble", "begin", "over"}
                        /\ SameWork(o, x) /\ x.i = o.i /\ x.progress = o.progress
        <3>1. PICK x : x = [o EXCEPT !.at = "over", !.exit = exit]
            OBVIOUS
        <3>2. run' = [run EXCEPT ![r] = x]
            BY <1>1, <2>2, <3>1 DEF Leave, RunsInv
        <3>3. x.at = "over" /\ SameWork(o, x) /\ x.i = o.i /\ x.progress = o.progress
            BY <1>4, <3>1 DEF IsRunner, SameWork
        <3>. QED  BY <3>2, <3>3
    <2>3. (\E point \in {"link", "assemble", "begin"} : GoOn(r, point)) \/ \E exit : Leave(r, exit)
        BY DEF Unlink, Link, Assemble
    <2>. QED  BY <2>1, <2>2, <2>3
<1>6. x.outcomes = <<>> /\ x.i = 1 /\ x.progress = NoProgress
    BY <1>3, <1>4, <1>5 DEF Counting, Placed, SameWork
<1>7. Placed(x)
    BY <1>3, <1>4, <1>5, <1>6 DEF Counting, Placed, SameWork, Inside, Early
<1>8. OutcomesMade(x) /\ AllThrough(x) /\ MidFile(x) /\ Tallied(x)
    BY <1>5, <1>6 DEF OutcomesMade, AllThrough, MidFile, Tallied, Early
<1>9. Counting(x)
    BY <1>7, <1>8 DEF Counting
<1>10. Said(x, y)
    BY <1>3, <1>4, <1>5 DEF Said, Early
<1>11. x.root = run[r].root /\ run[r].at # "new"
    BY <1>1, <1>3, <1>5 DEF SameWork
<1>. QED  BY <1>2, <1>3, <1>5, <1>9, <1>10, <1>11, RightMove

LEMMA RightBegin ==
    ASSUME RunsInv, RightInv, NEW r \in Runners, Begin(r) PROVE RightInv'
<1>1. PICK o : o = run[r]
    OBVIOUS
<1>2. PICK y : y = disk[run[r].root]
    OBVIOUS
<1>3. PICK entries : entries = [i \in DOMAIN run[r].files |-> Entry("pending", <<>>)]
    OBVIOUS
<1>4. PICK p : p = [status |-> "running", completed |-> 0, ok |-> 0, error |-> 0,
                    entries |-> entries]
    OBVIOUS
<1>5. /\ WriteProgress(r, p)
      /\ run' = [run EXCEPT ![r].at = "started", ![r].progress = p]
    BY <1>3, <1>4 DEF Begin
<1>6. o.at = "begin" /\ run[r].at # "new"
    BY <1>1 DEF Begin, At
<1>7. IsRunner(o) /\ IsRoot(y) /\ Counting(o) /\ Said(o, y)
    BY <1>1, <1>2, <1>6, RightHere
<1>8. PICK x : x = [o EXCEPT !.at = "started", !.progress = p]
    OBVIOUS
<1>9. PICK z : z = [y EXCEPT !.progress = p]
    OBVIOUS
<1>10. x.at = "started" /\ x.progress = p /\ SameWork(o, x) /\ x.i = o.i
    BY <1>7, <1>8 DEF IsRunner, SameWork
<1>11. x.outcomes = <<>> /\ x.i = 1
    BY <1>6, <1>7, <1>10 DEF Counting, Placed, SameWork, Early
<1>12. Placed(x)
    BY <1>6, <1>7, <1>10, <1>11 DEF Counting, Placed, SameWork, Early, Inside
<1>13. OutcomesMade(x) /\ AllThrough(x) /\ MidFile(x)
    BY <1>10, <1>11 DEF OutcomesMade, AllThrough, MidFile
<1>14. Tallied(x)
    <2>1. Counted(x) = 0
        BY <1>10, <1>11 DEF Counted
    <2>2. Marked(x, 0, "ok") = {} /\ Marked(x, 0, "error") = {}
        BY <1>11 DEF Marked
    <2>3. Cardinality(Marked(x, 0, "ok")) = 0 /\ Cardinality(Marked(x, 0, "error")) = 0
        BY <2>2, FS_EmptySet
    <2>4. DOMAIN p.entries = DOMAIN x.files /\ p.ok = 0 /\ p.error = 0 /\ p.completed = 0
        BY <1>1, <1>3, <1>4, <1>10 DEF SameWork
    <2>5. \A j \in DOMAIN p.entries : ~(j <= 0)
        <3>1. DOMAIN x.files = 1..Len(x.files)
            BY <1>12, LenProperties DEF Placed
        <3>. QED  BY <2>4, <3>1
    <2>6. Len(x.outcomes) = 0
        BY <1>11
    <2>. QED  BY <1>10, <2>1, <2>3, <2>4, <2>5, <2>6 DEF Tallied
<1>15. Counting(x)
    BY <1>12, <1>13, <1>14 DEF Counting
<1>16. Said(x, z)
    <2>1. z.progress = p /\ z.manifest = y.manifest
        BY <1>7, <1>9 DEF IsRoot
    <2>. QED  BY <1>6, <1>7, <1>10, <2>1 DEF Said
<1>17. run' = [run EXCEPT ![r] = x]
    BY <1>1, <1>5, <1>8 DEF RunsInv
<1>18. disk' = [disk EXCEPT ![run[r].root] = z]
    BY <1>2, <1>5, <1>9 DEF WriteProgress, RunsInv, IsMap
<1>. QED  BY <1>1, <1>6, <1>10, <1>15, <1>16, <1>17, <1>18, RightStep DEF SameWork

LEMMA RightBeginManifest ==
    ASSUME RunsInv, RightInv, NEW r \in Runners, BeginManifest(r) PROVE RightInv'
<1>1. PICK o : o = run[r]
    OBVIOUS
<1>2. PICK y : y = disk[run[r].root]
    OBVIOUS
<1>3. o.at = "started" /\ run[r].at # "new"
    BY <1>1 DEF BeginManifest, At
<1>4. IsRunner(o) /\ IsRoot(y) /\ Counting(o) /\ Said(o, y)
    BY <1>1, <1>2, <1>3, RightHere
<1>5. PICK x : x = [o EXCEPT !.at = "next"]
    OBVIOUS
<1>6. PICK m : m = [status |-> o.progress.status, success |-> "none",
                    entries |-> o.progress.entries]
    OBVIOUS
<1>7. PICK z : z = [y EXCEPT !.manifest = m]
    OBVIOUS
<1>8. x.at = "next" /\ SameWork(o, x) /\ x.i = o.i /\ x.progress = o.progress
    BY <1>4, <1>5 DEF IsRunner, SameWork
<1>9. x.outcomes = <<>> /\ x.i = 1
    BY <1>3, <1>4, <1>8 DEF Counting, Placed, SameWork
<1>10. Placed(x)
    BY <1>3, <1>4, <1>8 DEF Counting, Placed, SameWork, Early, Inside
<1>11. OutcomesMade(x) /\ AllThrough(x) /\ MidFile(x)
    BY <1>8, <1>9 DEF OutcomesMade, AllThrough, MidFile
<1>12. Tallied(x)
    <2>1. Counted(x) = Counted(o)
        BY <1>3, <1>8 DEF Counted
    <2>2. \A n, s : Marked(x, n, s) = Marked(o, n, s)
        BY <1>8, SameSets
    <2>3. o.at \notin Early \cup {"over"} /\ Tallied(o)
        BY <1>3, <1>4 DEF Early, Counting
    <2>. QED  BY <1>3, <1>8, <2>1, <2>2, <2>3 DEF Tallied, SameWork
<1>13. Counting(x)
    BY <1>10, <1>11, <1>12 DEF Counting
<1>14. Said(x, z)
    <2>1. z.progress = y.progress /\ z.manifest = m
        BY <1>4, <1>7 DEF IsRoot
    <2>. QED  BY <1>4, <1>6, <1>8, <2>1 DEF Said
<1>15. run' = [run EXCEPT ![r] = x]
    BY <1>1, <1>5 DEF BeginManifest, GoOn, RunsInv
<1>16. disk' = [disk EXCEPT ![run[r].root] = z]
    BY <1>1, <1>2, <1>6, <1>7 DEF BeginManifest, WriteManifest, RunsInv, IsMap
<1>. QED  BY <1>1, <1>3, <1>8, <1>13, <1>14, <1>15, <1>16, RightStep DEF SameWork
----------------------------------------------------------------------------
(* In the middle of a file. *)
Within == {"read", "variant", "execute", "summary", "record"}

LEMMA WantedSome ==
    ASSUME NEW x, Placed(x), NEW j \in Nat, 1 <= j, j <= Len(x.files)
    PROVE  /\ Wanted(x, j) \in Nat /\ (Expands(x, j) => Wanted(x, j) > 0)
           /\ j \in DOMAIN x.files
<1>1. x.files \in Seq(DOMAIN Files)
    BY DEF Placed
<1>2. j \in DOMAIN x.files /\ x.files[j] \in DOMAIN Files
    BY <1>1
<1>3. PICK f \in DOMAIN Files : f = x.files[j]
    BY <1>2
<1>. QED  BY <1>2, <1>3, SomeVariants DEF Wanted, Expands

LEMMA SameTally ==
    ASSUME NEW o, NEW x, Tallied(o), SameWork(o, x), x.i = o.i, o.at \in Within \cup {"next"},
           x.at \in Within, x.progress = o.progress
    PROVE  Tallied(x)
<1>1. Counted(x) = Counted(o)
    BY DEF Counted, Within
<1>2. \A n, s : Marked(x, n, s) = Marked(o, n, s)
    BY SameSets
<1>3. o.at \notin Early \cup {"over"}
    BY DEF Early, Within
<1>. QED  BY <1>1, <1>2, <1>3 DEF Tallied, SameWork, Within

LEMMA SamePlace ==
    ASSUME NEW o, NEW x, Placed(o), SameWork(o, x), x.i = o.i, o.at \in Within, x.at \in Within
    PROVE  Placed(x)
BY DEF Placed, SameWork, Within, Early, Inside

LEMMA SameOutcomes ==
    ASSUME NEW o, NEW x, OutcomesMade(o), AllThrough(o), SameWork(o, x), x.i = o.i,
           x.at \in {"read", "variant", "execute"}
    PROVE  /\ x.at # "read" => OutcomesMade(x)
           /\ AllThrough(x)
<1>1. x.at # "read" => OutcomesMade(x)
    BY DEF OutcomesMade, SameWork
<1>2. AllThrough(x)
    BY SameSets DEF AllThrough
<1>. QED  BY <1>1, <1>2

LEMMA RightStartSim ==
    ASSUME RunsInv, RightInv, NEW r \in Runners, StartSim(r) PROVE RightInv'
<1>1. PICK o : o = run[r]
    OBVIOUS
<1>2. PICK y : y = disk[run[r].root]
    OBVIOUS
<1>3. o.at = "next" /\ run[r].at # "new" /\ o.i <= Len(o.files)
    BY <1>1 DEF StartSim, At
<1>4. IsRunner(o) /\ IsRoot(y) /\ Counting(o) /\ Said(o, y)
    BY <1>1, <1>2, <1>3, RightHere
<1>5. PICK p : p = [o.progress EXCEPT !.entries[o.i].status = "running"]
    OBVIOUS
<1>6. /\ WriteProgress(r, p)
      /\ run' = [run EXCEPT ![r].at = "read", ![r].progress = p]
    BY <1>1, <1>5 DEF StartSim
<1>7. PICK x : x = [o EXCEPT !.at = "read", !.progress = p]
    OBVIOUS
<1>8. PICK z : z = [y EXCEPT !.progress = p]
    OBVIOUS
<1>9. x.at = "read" /\ SameWork(o, x) /\ x.i = o.i /\ x.progress = p
    BY <1>4, <1>7 DEF IsRunner, SameWork
<1>10. Placed(x)
    BY <1>3, <1>4, <1>9 DEF Counting, Placed, SameWork, Early, Inside
<1>11. OutcomesMade(x)
    BY <1>3, <1>4, <1>9 DEF Counting, OutcomesMade, SameWork
<1>12. AllThrough(x)
    BY <1>4, <1>9, SameOutcomes DEF Counting
<1>13. MidFile(x)
    BY <1>9 DEF MidFile
<1>14. Tallied(x)
    <2>1. /\ p.ok = o.progress.ok /\ p.error = o.progress.error
          /\ DOMAIN p.entries = DOMAIN o.progress.entries
          /\ \A j \in DOMAIN p.entries \ {o.i} : p.entries[j] = o.progress.entries[j]
        BY <1>4, <1>5 DEF IsRunner, IsProgress, IsMap
    <2>2. Counted(x) = o.i - 1 /\ Counted(o) = o.i - 1 /\ o.i \in Nat
        BY <1>3, <1>4, <1>9 DEF Counted, Counting, Placed
    <2>3. \A n, s : Marked(x, n, s) = Marked(o, n, s)
        BY <1>9, SameSets
    <2>4. o.at \notin Early \cup {"over"} /\ Tallied(o)
        BY <1>3, <1>4 DEF Early, Counting
    <2>5. ASSUME NEW j \in DOMAIN p.entries, j <= o.i - 1
          PROVE  p.entries[j].status \in {"ok", "error"}
        BY <2>1, <2>2, <2>4, <2>5 DEF Tallied
    <2>. QED  BY <1>9, <2>1, <2>2, <2>3, <2>4, <2>5 DEF Tallied, SameWork
<1>15. Counting(x)
    BY <1>10, <1>11, <1>12, <1>13, <1>14 DEF Counting
<1>16. Said(x, z)
    <2>1. z.progress = p /\ z.manifest = y.manifest
        BY <1>4, <1>8 DEF IsRoot
    <2>. QED  BY <1>3, <1>4, <1>9, <2>1 DEF Said
<1>17. run' = [run EXCEPT ![r] = x]
    BY <1>1, <1>6, <1>7 DEF RunsInv
<1>18. disk' = [disk EXCEPT ![run[r].root] = z]
    BY <1>2, <1>6, <1>8 DEF WriteProgress, RunsInv, IsMap
<1>. QED  BY <1>1, <1>3, <1>9, <1>15, <1>16, <1>17, <1>18, RightStep DEF SameWork

LEMMA RightReadSim ==
    ASSUME RunsInv, RightInv, NEW r \in Runners, ReadSim(r) PROVE RightInv'
<1>1. PICK o : o = run[r]
    OBVIOUS
<1>2. PICK y : y = disk[run[r].root]
    OBVIOUS
<1>3. o.at = "read" /\ run[r].at # "new" /\ Expands(o, o.i)
    BY <1>1 DEF ReadSim, At, Expands, FileOf, NameOf
<1>4. IsRunner(o) /\ IsRoot(y) /\ Counting(o) /\ Said(o, y)
    BY <1>1, <1>2, <1>3, RightHere
<1>5. PICK x : x = [o EXCEPT !.at = "variant", !.v = 1]
    OBVIOUS
<1>6. /\ x.at = "variant" /\ SameWork(o, x) /\ x.i = o.i /\ x.progress = o.progress
      /\ x.v = 1
    BY <1>4, <1>5 DEF IsRunner, SameWork
<1>7. Placed(x)
    BY <1>3, <1>4, <1>6, SamePlace DEF Counting, Within
<1>8. OutcomesMade(x) /\ AllThrough(x)
    BY <1>4, <1>6, SameOutcomes DEF Counting
<1>9. MidFile(x)
    <2>1. OutcomesOf(x, x.i) = {}
        BY <1>3, <1>4, <1>6 DEF OutcomesOf, Counting, OutcomesMade, Placed, SameWork
    <2>2. Cardinality(OutcomesOf(x, x.i)) = 0
        BY <2>1, FS_EmptySet
    <2>3. x.i \in Nat /\ 1 <= x.i /\ x.i <= Len(x.files)
        BY <1>6, <1>7 DEF Placed, Inside
    <2>4. Wanted(x, x.i) \in Nat
        BY <1>7, <2>3, WantedSome
    <2>5. Expands(x, x.i)
        BY <1>3, <1>6, SameSets
    <2>. QED  BY <1>6, <2>2, <2>4, <2>5 DEF MidFile
<1>10. Tallied(x)
    BY <1>3, <1>4, <1>6, SameTally DEF Counting, Within
<1>11. Counting(x)
    BY <1>7, <1>8, <1>9, <1>10 DEF Counting
<1>12. Said(x, y)
    BY <1>3, <1>4, <1>6 DEF Said
<1>13. run' = [run EXCEPT ![r] = x] /\ disk' = disk
    BY <1>1, <1>5 DEF RunsInv, ReadSim, KeepDisk
<1>. QED  BY <1>1, <1>2, <1>3, <1>6, <1>11, <1>12, <1>13, RightMove DEF SameWork

LEMMA RightStartVariant ==
    ASSUME RunsInv, RightInv, NEW r \in Runners, StartVariant(r) PROVE RightInv'
<1>1. PICK o : o = run[r]
    OBVIOUS
<1>2. PICK y : y = disk[run[r].root]
    OBVIOUS
<1>3. PICK dir :
           /\ SetSim(r, dir, NewSim("none"))
           /\ run' = [run EXCEPT ![r].at = "execute", ![r].dir = dir]
    BY DEF StartVariant
<1>4. o.at = "variant" /\ run[r].at # "new" /\ o.v <= Wanted(o, o.i)
    BY <1>1 DEF StartVariant, At, MoreVariants, Wanted, NameOf
<1>5. IsRunner(o) /\ IsRoot(y) /\ Counting(o) /\ Said(o, y)
    BY <1>1, <1>2, <1>4, RightHere
<1>6. PICK sim : sim = NewSim("none")
    OBVIOUS
<1>7. PICK x : x = [o EXCEPT !.at = "execute", !.dir = dir]
    OBVIOUS
<1>8. PICK z : z = Put(y, dir, sim)
    OBVIOUS
<1>9. /\ x.at = "execute" /\ SameWork(o, x) /\ x.i = o.i /\ x.progress = o.progress
      /\ x.v = o.v
    BY <1>5, <1>7 DEF IsRunner, SameWork
<1>10. Placed(x)
    BY <1>4, <1>5, <1>9, SamePlace DEF Counting, Within
<1>11. OutcomesMade(x) /\ AllThrough(x)
    BY <1>5, <1>9, SameOutcomes DEF Counting
<1>12. MidFile(x)
    BY <1>4, <1>5, <1>9, SameSets DEF MidFile, Counting
<1>13. Tallied(x)
    BY <1>4, <1>5, <1>9, SameTally DEF Counting, Within
<1>14. Counting(x)
    BY <1>10, <1>11, <1>12, <1>13 DEF Counting
<1>15. Said(x, z)
    <2>1. z.progress = y.progress /\ z.manifest = y.manifest
        BY <1>5, <1>8 DEF IsRoot, Put
    <2>. QED  BY <1>4, <1>5, <1>9, <2>1 DEF Said
<1>16. run' = [run EXCEPT ![r] = x]
    BY <1>1, <1>3, <1>7 DEF RunsInv
<1>17. disk' = [disk EXCEPT ![run[r].root] = z]
    BY <1>2, <1>3, <1>6, <1>8 DEF SetSim, Put, RunsInv, IsMap
<1>. QED  BY <1>1, <1>4, <1>9, <1>14, <1>15, <1>16, <1>17, RightStep DEF SameWork

LEMMA RightExecute ==
    ASSUME RunsInv, RightInv, NEW r \in Runners, Execute(r) PROVE RightInv'
<1>1. PICK o : o = run[r]
    OBVIOUS
<1>2. PICK y : y = disk[run[r].root]
    OBVIOUS
<1>3. o.at = "execute" /\ run[r].at # "new"
    BY <1>1 DEF Execute, At
<1>4. IsRunner(o) /\ IsRoot(y) /\ Counting(o) /\ Said(o, y)
    BY <1>1, <1>2, <1>3, RightHere
<1>5. PICK result \in {"ok", "error"} :
          /\ run' = [run EXCEPT ![r].at = "summary", ![r].result = result]
          /\ UNCHANGED disk \/ \E sim : SetSim(r, run[r].dir, sim)
    BY DEF Execute, KeepDisk
<1>6. PICK x : x = [o EXCEPT !.at = "summary", !.result = result]
    OBVIOUS
<1>7. /\ x.at = "summary" /\ SameWork(o, x) /\ x.i = o.i /\ x.progress = o.progress
      /\ x.v = o.v /\ x.result = result
    BY <1>4, <1>6 DEF IsRunner, SameWork
<1>8. Placed(x)
    BY <1>3, <1>4, <1>7, SamePlace DEF Counting, Within
<1>9. OutcomesMade(x)
    BY <1>4, <1>7 DEF Counting, OutcomesMade, SameWork
<1>10. AllThrough(x)
    BY <1>4, <1>7, SameSets DEF Counting, AllThrough
<1>11. MidFile(x)
    BY <1>3, <1>4, <1>7, SameSets DEF MidFile, Counting
<1>12. Tallied(x)
    BY <1>3, <1>4, <1>7, SameTally DEF Counting, Within
<1>13. Counting(x)
    BY <1>8, <1>9, <1>10, <1>11, <1>12 DEF Counting
<1>14. run' = [run EXCEPT ![r] = x] /\ x.root = run[r].root
    BY <1>1, <1>5, <1>6, <1>7 DEF RunsInv, SameWork
<1>15. CASE UNCHANGED disk
    <2>1. Said(x, y)
        BY <1>3, <1>4, <1>7 DEF Said
    <2>. QED  BY <1>2, <1>3, <1>13, <1>14, <1>15, <2>1, RightMove
<1>16. ASSUME NEW sim, SetSim(r, run[r].dir, sim) PROVE RightInv'
    <2>1. PICK dir : dir = run[r].dir
        OBVIOUS
    <2>2. PICK z : z = Put(y, dir, sim)
        OBVIOUS
    <2>3. z.progress = y.progress /\ z.manifest = y.manifest
        BY <1>4, <2>2 DEF IsRoot, Put
    <2>4. Said(x, z)
        BY <1>3, <1>4, <1>7, <2>3 DEF Said
    <2>5. disk' = [disk EXCEPT ![run[r].root] = z]
        BY <1>2, <1>16, <2>1, <2>2 DEF SetSim, Put, RunsInv, IsMap
    <2>. QED  BY <1>3, <1>13, <1>14, <2>4, <2>5, RightStep
<1>. QED  BY <1>5, <1>15, <1>16

LEMMA RightEndSim ==
    ASSUME RunsInv, RightInv, NEW r \in Runners, EndSim(r) PROVE RightInv'
<1>1. PICK o : o = run[r]
    OBVIOUS
<1>2. PICK y : y = disk[run[r].root]
    OBVIOUS
<1>3. o.at = "variant" /\ run[r].at # "new" /\ ~(o.v <= Wanted(o, o.i))
    BY <1>1 DEF EndSim, At, MoreVariants, Wanted, NameOf
<1>4. IsRunner(o) /\ IsRoot(y) /\ Counting(o) /\ Said(o, y)
    BY <1>1, <1>2, <1>3, RightHere
<1>5. PICK x : x = [o EXCEPT !.at = "record"]
    OBVIOUS
<1>6. x.at = "record" /\ SameWork(o, x) /\ x.i = o.i /\ x.progress = o.progress
    BY <1>4, <1>5 DEF IsRunner, SameWork
<1>7. Placed(x)
    BY <1>3, <1>4, <1>6, SamePlace DEF Counting, Within
<1>8. OutcomesMade(x)
    BY <1>4, <1>6 DEF Counting, OutcomesMade, SameWork
<1>9. AllThrough(x)
    <2>1. Through(o, o.i)
        <3>1. o.i \in Nat /\ 1 <= o.i /\ o.i <= Len(o.files) /\ Placed(o)
            BY <1>3, <1>4 DEF Counting, Placed, Inside
        <3>2. Wanted(o, o.i) \in Nat
            BY <3>1, WantedSome
        <3>3. /\ o.v \in Nat /\ Cardinality(OutcomesOf(o, o.i)) = o.v - 1
              /\ Expands(o, o.i) /\ o.v <= Wanted(o, o.i) + 1
            BY <1>3, <1>4 DEF Counting, MidFile
        <3>. QED  BY <1>3, <3>2, <3>3 DEF Through
    <2>. QED  BY <1>4, <1>6, <2>1, SameSets DEF Counting, AllThrough
<1>10. MidFile(x)
    BY <1>6 DEF MidFile
<1>11. Tallied(x)
    BY <1>3, <1>4, <1>6, SameTally DEF Counting, Within
<1>12. Counting(x)
    BY <1>7, <1>8, <1>9, <1>10, <1>11 DEF Counting
<1>13. Said(x, y)
    BY <1>3, <1>4, <1>6 DEF Said
<1>14. run' = [run EXCEPT ![r] = x] /\ disk' = disk
    BY <1>1, <1>5 DEF RunsInv, EndSim, GoOn, KeepDisk
<1>. QED  BY <1>1, <1>2, <1>3, <1>6, <1>12, <1>13, <1>14, RightMove DEF SameWork
----------------------------------------------------------------------------
(* One more outcome of the file the runner is at. *)

LEMMA OutcomesFinite ==
    ASSUME NEW x, IsRunner(x)
    PROVE  /\ IsFiniteSet(DOMAIN x.outcomes)
           /\ \A S \in SUBSET DOMAIN x.outcomes : IsFiniteSet(S) /\ Cardinality(S) \in Nat
<1>1. PICK n \in Nat : DOMAIN x.outcomes = 1..n
    BY DEF IsRunner
<1>2. IsFiniteSet(DOMAIN x.outcomes)
    BY <1>1, FS_Interval
<1>3. ASSUME NEW S \in SUBSET DOMAIN x.outcomes
      PROVE  IsFiniteSet(S) /\ Cardinality(S) \in Nat
    BY <1>2, FS_Subset, FS_CardinalityType
<1>. QED  BY <1>2, <1>3

MoreWork(o, x, e) ==
    /\ x.root = o.root /\ x.files = o.files /\ x.i = o.i /\ x.progress = o.progress
    /\ x.outcomes = Append(o.outcomes, e) /\ e.file = o.i /\ e.status \in {"ok", "error"}

LEMMA MoreCounts ==
    ASSUME NEW o, IsRunner(o), NEW x, NEW e, MoreWork(o, x, e)
    PROVE  /\ \A j : j # o.i => /\ OutcomesOf(x, j) = OutcomesOf(o, j)
                                /\ \A k \in OutcomesOf(o, j) : x.outcomes[k] = o.outcomes[k]
           /\ Cardinality(OutcomesOf(o, o.i)) \in Nat
           /\ Cardinality(OutcomesOf(x, o.i)) = Cardinality(OutcomesOf(o, o.i)) + 1
           /\ \A m, s : ~(o.i <= m) => Marked(x, m, s) = Marked(o, m, s)
           /\ \A k \in DOMAIN x.outcomes :
                  x.outcomes[k] = e \/ (x.outcomes[k] = o.outcomes[k] /\ k \in DOMAIN o.outcomes)
           /\ \E k \in OutcomesOf(x, o.i) : x.outcomes[k].status = e.status
<1>1. PICK n \in Nat : DOMAIN o.outcomes = 1..n
    BY DEF IsRunner
<1>2. PICK s : s = o.outcomes
    OBVIOUS
<1>3. DOMAIN s = 1..n /\ IsMap(s)
    BY <1>1, <1>2 DEF IsRunner
<1>4. /\ DOMAIN Append(s, e) = 1..(n + 1) /\ Append(s, e)[n + 1] = e
      /\ \A k \in DOMAIN s : Append(s, e)[k] = s[k]
    BY <1>3, Appended
<1>5. /\ DOMAIN x.outcomes = 1..(n + 1) /\ x.outcomes[n + 1] = e
      /\ \A k \in 1..n : x.outcomes[k] = o.outcomes[k]
    BY <1>2, <1>3, <1>4 DEF MoreWork
<1>6. e.file = o.i
    BY DEF MoreWork
<1>7. 1..(n + 1) = (1..n) \cup {n + 1} /\ n + 1 \notin 1..n
    OBVIOUS
<1>8. ASSUME NEW j, j # o.i
      PROVE  /\ OutcomesOf(x, j) = OutcomesOf(o, j)
             /\ \A k \in OutcomesOf(o, j) : x.outcomes[k] = o.outcomes[k]
    BY <1>1, <1>5, <1>6, <1>7, <1>8 DEF OutcomesOf
<1>9. OutcomesOf(x, o.i) = OutcomesOf(o, o.i) \cup {n + 1}
    BY <1>1, <1>5, <1>6, <1>7 DEF OutcomesOf
<1>10. IsFiniteSet(OutcomesOf(o, o.i)) /\ Cardinality(OutcomesOf(o, o.i)) \in Nat
    BY OutcomesFinite DEF OutcomesOf
<1>11. n + 1 \notin OutcomesOf(o, o.i)
    BY <1>1, <1>7 DEF OutcomesOf
<1>12. Cardinality(OutcomesOf(x, o.i)) = Cardinality(OutcomesOf(o, o.i)) + 1
    BY <1>9, <1>10, <1>11, FS_AddElement
<1>13. ASSUME NEW m, NEW t, ~(o.i <= m) PROVE Marked(x, m, t) = Marked(o, m, t)
    BY <1>1, <1>5, <1>6, <1>7, <1>13 DEF Marked
<1>14. n + 1 \in OutcomesOf(x, o.i)
    BY <1>9
<1>15. \A k \in DOMAIN x.outcomes :
           x.outcomes[k] = e \/ (x.outcomes[k] = o.outcomes[k] /\ k \in DOMAIN o.outcomes)
    BY <1>1, <1>5, <1>7
<1>. QED  BY <1>5, <1>8, <1>10, <1>12, <1>13, <1>14, <1>15

LEMMA MoreCounting ==
    ASSUME NEW o, IsRunner(o), Counting(o), NEW x, NEW e, MoreWork(o, x, e),
           o.at \in {"read", "variant", "summary"}, x.at \in {"variant", "record"}
    PROVE  /\ Placed(x) /\ OutcomesMade(x) /\ Tallied(x)
           /\ \A j \in Nat : 1 <= j /\ j < x.i => Through(x, j)
<1>1. Placed(o) /\ OutcomesMade(o) /\ AllThrough(o) /\ Tallied(o)
    BY DEF Counting
<1>2. x.files = o.files /\ x.i = o.i /\ x.progress = o.progress
    BY DEF MoreWork
<1>3. Placed(x)
    BY <1>1, <1>2 DEF Placed, Inside, Early
<1>4. OutcomesMade(x)
    <2>1. o.i \in Nat /\ 1 <= o.i /\ e.file = o.i /\ e.status \in {"ok", "error"}
        BY <1>1 DEF Placed, MoreWork
    <2>2. \A k \in DOMAIN x.outcomes :
              x.outcomes[k] = e \/ (x.outcomes[k] = o.outcomes[k] /\ k \in DOMAIN o.outcomes)
        BY MoreCounts
    <2>3. ASSUME NEW k \in DOMAIN x.outcomes
          PROVE  /\ x.outcomes[k].file \in Nat /\ 1 <= x.outcomes[k].file
                 /\ x.outcomes[k].file <= x.i /\ x.outcomes[k].status \in {"ok", "error"}
        BY <1>1, <1>2, <2>1, <2>2 DEF OutcomesMade
    <2>. QED  BY <2>3 DEF OutcomesMade
<1>5. Tallied(x)
    <2>1. Counted(x) = o.i - 1 /\ Counted(o) = o.i - 1 /\ ~(o.i <= o.i - 1)
        BY <1>1, <1>2 DEF Counted, Placed
    <2>2. \A s : Marked(x, o.i - 1, s) = Marked(o, o.i - 1, s)
        BY <2>1, MoreCounts
    <2>3. o.at \notin Early \cup {"over"}
        BY DEF Early
    <2>. QED  BY <1>1, <1>2, <2>1, <2>2, <2>3 DEF Tallied
<1>6. ASSUME NEW j \in Nat, 1 <= j, j < x.i PROVE Through(x, j)
    <2>1. Through(o, j) /\ j # o.i
        BY <1>1, <1>2, <1>6 DEF AllThrough, Placed
    <2>2. /\ OutcomesOf(x, j) = OutcomesOf(o, j)
          /\ \A k \in OutcomesOf(o, j) : x.outcomes[k] = o.outcomes[k]
        BY <2>1, MoreCounts
    <2>3. Wanted(x, j) = Wanted(o, j) /\ (Expands(x, j) <=> Expands(o, j))
        BY <1>2 DEF Wanted, Expands
    <2>. QED  BY <2>1, <2>2, <2>3 DEF Through
<1>. QED  BY <1>3, <1>4, <1>5, <1>6

LEMMA RightFailFile ==
    ASSUME RunsInv, RightInv, NEW r \in Runners, FailFile(r) PROVE RightInv'
<1>1. PICK o : o = run[r]
    OBVIOUS
<1>2. PICK y : y = disk[run[r].root]
    OBVIOUS
<1>3. PICK dir :
           /\ SetSim(r, dir, NewSim("error"))
           /\ run' = [run EXCEPT ![r].at = "record",
                                 ![r].outcomes = Append(@, Outcome(r, dir, "error"))]
    BY DEF FailFile
<1>4. o.at = "read" /\ run[r].at # "new"
    BY <1>1 DEF FailFile, At
<1>5. IsRunner(o) /\ IsRoot(y) /\ Counting(o) /\ Said(o, y)
    BY <1>1, <1>2, <1>4, RightHere
<1>6. PICK e : e = Outcome(r, dir, "error")
    OBVIOUS
<1>7. PICK x : x = [o EXCEPT !.at = "record", !.outcomes = Append(o.outcomes, e)]
    OBVIOUS
<1>8. PICK z : z = Put(y, dir, NewSim("error"))
    OBVIOUS
<1>9. x.at = "record" /\ MoreWork(o, x, e) /\ e.status = "error"
    <2>1. e.file = o.i /\ e.status = "error"
        BY <1>1, <1>6 DEF Outcome
    <2>. QED  BY <1>5, <1>7, <2>1 DEF IsRunner, MoreWork
<1>10. /\ Placed(x) /\ OutcomesMade(x) /\ Tallied(x)
       /\ \A j \in Nat : 1 <= j /\ j < x.i => Through(x, j)
    BY <1>4, <1>5, <1>9, MoreCounting
<1>11. Through(x, x.i)
    <2>1. OutcomesOf(o, o.i) = {}
        BY <1>4, <1>5 DEF OutcomesOf, Counting, OutcomesMade, Placed
    <2>2. Cardinality(OutcomesOf(o, o.i)) = 0
        BY <2>1, FS_EmptySet
    <2>3. x.i = o.i /\ x.i \in Nat /\ 1 <= x.i /\ x.i <= Len(x.files)
        BY <1>9, <1>10 DEF MoreWork, Placed, Inside
    <2>4. Cardinality(OutcomesOf(x, x.i)) = 1
        BY <1>5, <1>9, <2>2, <2>3, MoreCounts
    <2>5. Wanted(x, x.i) \in Nat /\ (Expands(x, x.i) => Wanted(x, x.i) > 0)
        BY <1>10, <2>3, WantedSome
    <2>6. \E k \in OutcomesOf(x, x.i) : x.outcomes[k].status = "error"
        BY <1>5, <1>9, <2>3, MoreCounts
    <2>. QED  BY <2>4, <2>5, <2>6 DEF Through
<1>12. AllThrough(x)
    BY <1>10, <1>11 DEF AllThrough
<1>13. MidFile(x)
    BY <1>9 DEF MidFile
<1>14. Counting(x)
    BY <1>10, <1>12, <1>13 DEF Counting
<1>15. Said(x, z)
    <2>1. z.progress = y.progress /\ z.manifest = y.manifest
        BY <1>5, <1>8 DEF IsRoot, Put
    <2>. QED  BY <1>4, <1>5, <1>9, <2>1 DEF Said, MoreWork
<1>16. run' = [run EXCEPT ![r] = x]
    BY <1>1, <1>3, <1>6, <1>7 DEF RunsInv
<1>17. disk' = [disk EXCEPT ![run[r].root] = z]
    BY <1>2, <1>3, <1>8 DEF SetSim, Put, RunsInv, IsMap
<1>. QED  BY <1>1, <1>4, <1>9, <1>14, <1>15, <1>16, <1>17, RightStep DEF MoreWork

(* The next variant, of a file that has come to so many outcomes. *)
LEMMA MoreVariant ==
    ASSUME NEW o, IsRunner(o), Counting(o), NEW x, NEW e, MoreWork(o, x, e),
           o.at \in {"variant", "summary"}, o.v <= Wanted(o, o.i), x.at = "variant",
           x.v = o.v + 1
    PROVE  Counting(x)
<1>1. /\ Placed(x) /\ OutcomesMade(x) /\ Tallied(x)
      /\ \A j \in Nat : 1 <= j /\ j < x.i => Through(x, j)
    BY MoreCounting
<1>2. AllThrough(x)
    BY <1>1 DEF AllThrough
<1>3. x.i = o.i /\ Wanted(x, x.i) = Wanted(o, o.i) /\ (Expands(x, x.i) <=> Expands(o, o.i))
    BY DEF MoreWork, Wanted, Expands
<1>4. o.v \in Nat /\ Cardinality(OutcomesOf(o, o.i)) = o.v - 1 /\ Expands(o, o.i)
    BY DEF Counting, MidFile
<1>5. Cardinality(OutcomesOf(x, x.i)) = x.v - 1
    BY <1>3, <1>4, MoreCounts
<1>6. Wanted(o, o.i) \in Nat
    <2>1. Placed(o) /\ o.i \in Nat /\ 1 <= o.i /\ o.i <= Len(o.files)
        BY DEF Counting, Placed, Inside
    <2>. QED  BY <2>1, WantedSome
<1>7. MidFile(x)
    BY <1>3, <1>4, <1>5, <1>6 DEF MidFile
<1>. QED  BY <1>1, <1>2, <1>7 DEF Counting

LEMMA RightFailVariant ==
    ASSUME RunsInv, RightInv, NEW r \in Runners, FailVariant(r) PROVE RightInv'
<1>1. PICK o : o = run[r]
    OBVIOUS
<1>2. PICK y : y = disk[run[r].root]
    OBVIOUS
<1>3. PICK dir :
           /\ SetSim(r, dir, NewSim("error"))
           /\ run' = [run EXCEPT ![r].v = @ + 1,
                                 ![r].outcomes = Append(@, Outcome(r, dir, "error"))]
    BY DEF FailVariant
<1>4. o.at = "variant" /\ run[r].at # "new" /\ o.v <= Wanted(o, o.i)
    BY <1>1 DEF FailVariant, At, MoreVariants, Wanted, NameOf
<1>5. IsRunner(o) /\ IsRoot(y) /\ Counting(o) /\ Said(o, y)
    BY <1>1, <1>2, <1>4, RightHere
<1>6. PICK e : e = Outcome(r, dir, "error")
    OBVIOUS
<1>7. PICK x : x = [o EXCEPT !.v = o.v + 1, !.outcomes = Append(o.outcomes, e)]
    OBVIOUS
<1>8. PICK z : z = Put(y, dir, NewSim("error"))
    OBVIOUS
<1>9. x.at = "variant" /\ x.v = o.v + 1 /\ MoreWork(o, x, e)
    <2>1. e.file = o.i /\ e.status = "error"
        BY <1>1, <1>6 DEF Outcome
    <2>. QED  BY <1>4, <1>5, <1>7, <2>1 DEF IsRunner, MoreWork
<1>10. Counting(x)
    BY <1>4, <1>5, <1>9, MoreVariant
<1>11. Said(x, z)
    <2>1. z.progress = y.progress /\ z.manifest = y.manifest
        BY <1>5, <1>8 DEF IsRoot, Put
    <2>. QED  BY <1>4, <1>5, <1>9, <2>1 DEF Said, MoreWork
<1>12. run' = [run EXCEPT ![r] = x]
    BY <1>1, <1>3, <1>6, <1>7 DEF RunsInv
<1>13. disk' = [disk EXCEPT ![run[r].root] = z]
    BY <1>2, <1>3, <1>8 DEF SetSim, Put, RunsInv, IsMap
<1>. QED  BY <1>1, <1>4, <1>9, <1>10, <1>11, <1>12, <1>13, RightStep DEF MoreWork

LEMMA RightSummarize ==
    ASSUME RunsInv, RightInv, NEW r \in Runners, Summarize(r) PROVE RightInv'
<1>1. PICK o : o = run[r]
    OBVIOUS
<1>2. PICK y : y = disk[run[r].root]
    OBVIOUS
<1>3. o.at = "summary" /\ run[r].at # "new"
    BY <1>1 DEF Summarize, At
<1>4. IsRunner(o) /\ IsRoot(y) /\ Counting(o) /\ Said(o, y)
    BY <1>1, <1>2, <1>3, RightHere
<1>5. o.v <= Wanted(o, o.i) /\ o.result \in {"ok", "error"}
    BY <1>3, <1>4 DEF Counting, MidFile, OutcomesMade
<1>6. PICK e : e = Outcome(r, o.dir, o.result)
    OBVIOUS
<1>7. PICK x : x = [o EXCEPT !.at = "variant", !.v = o.v + 1, !.result = "none",
                             !.outcomes = Append(o.outcomes, e)]
    OBVIOUS
<1>8. PICK z : z = Put(y, o.dir, [y.sims[o.dir] EXCEPT !.status = o.result])
    OBVIOUS
<1>9. x.at = "variant" /\ x.v = o.v + 1 /\ MoreWork(o, x, e)
    <2>1. e.file = o.i /\ e.status = o.result
        BY <1>1, <1>6 DEF Outcome
    <2>. QED  BY <1>4, <1>5, <1>7, <2>1 DEF IsRunner, MoreWork
<1>10. Counting(x)
    BY <1>3, <1>4, <1>5, <1>9, MoreVariant
<1>11. Said(x, z)
    <2>1. z.progress = y.progress /\ z.manifest = y.manifest
        BY <1>4, <1>8 DEF IsRoot, Put
    <2>. QED  BY <1>3, <1>4, <1>9, <2>1 DEF Said, MoreWork
<1>12. run' = [run EXCEPT ![r] = x]
    BY <1>1, <1>6, <1>7 DEF RunsInv, Summarize
<1>13. disk' = [disk EXCEPT ![run[r].root] = z]
    BY <1>1, <1>2, <1>8 DEF Summarize, Root, SetSim, Put, RunsInv, IsMap
<1>. QED  BY <1>1, <1>3, <1>9, <1>10, <1>11, <1>12, <1>13, RightStep DEF MoreWork
----------------------------------------------------------------------------
(* The reports, and the verdict. *)

LEMMA RightRecordOutcomes ==
    ASSUME RunsInv, RightInv, NEW r \in Runners, RecordOutcomes(r) PROVE RightInv'
<1>1. PICK o : o = run[r]
    OBVIOUS
<1>2. PICK y : y = disk[run[r].root]
    OBVIOUS
<1>3. o.at = "record" /\ run[r].at # "new"
    BY <1>1 DEF RecordOutcomes, At
<1>4. IsRunner(o) /\ IsRoot(y) /\ Counting(o) /\ Said(o, y)
    BY <1>1, <1>2, <1>3, RightHere
<1>5. PICK new : new = {k \in DOMAIN run[r].outcomes : run[r].outcomes[k].file = run[r].i}
    OBVIOUS
<1>6. PICK first \in DOMAIN run[r].outcomes :
          LET count(s) == Cardinality({k \in new : run[r].outcomes[k].status = s})
              p == [run[r].progress EXCEPT
                       !.entries[run[r].i] = Entry(run[r].outcomes[first].status,
                                                   run[r].outcomes[first].dir),
                       !.completed = Len(run[r].outcomes),
                       !.ok = @ + count("ok"), !.error = @ + count("error")]
          IN  /\ WriteProgress(r, p)
              /\ run' = [run EXCEPT ![r].at = "combine", ![r].progress = p]
    BY <1>5 DEF RecordOutcomes
<1>7. PICK completed, ok, error :
          /\ completed = Len(run[r].outcomes)
          /\ ok = run[r].progress.ok
                    + Cardinality({k \in new : run[r].outcomes[k].status = "ok"})
          /\ error = run[r].progress.error
                       + Cardinality({k \in new : run[r].outcomes[k].status = "error"})
    OBVIOUS
<1>8. PICK e : e = Entry(run[r].outcomes[first].status, run[r].outcomes[first].dir)
    OBVIOUS
<1>9. PICK p : p = [run[r].progress EXCEPT !.entries[run[r].i] = e, !.completed = completed,
                                           !.ok = ok, !.error = error]
    OBVIOUS
<1>10. /\ WriteProgress(r, p)
       /\ run' = [run EXCEPT ![r].at = "combine", ![r].progress = p]
    BY <1>6, <1>7, <1>8, <1>9
<1>11. PICK x : x = [o EXCEPT !.at = "combine", !.progress = p]
    OBVIOUS
<1>12. PICK z : z = [y EXCEPT !.progress = p]
    OBVIOUS
<1>13. x.at = "combine" /\ SameWork(o, x) /\ x.i = o.i /\ x.progress = p
    BY <1>4, <1>11 DEF IsRunner, SameWork
<1>14. Placed(x) /\ OutcomesMade(x)
    <2>1. Placed(x)
        BY <1>3, <1>4, <1>13 DEF Counting, Placed, SameWork, Early, Inside
    <2>2. OutcomesMade(x)
        BY <1>4, <1>13 DEF Counting, OutcomesMade, SameWork
    <2>. QED  BY <2>1, <2>2
<1>15. AllThrough(x)
    BY <1>3, <1>4, <1>13, SameSets DEF Counting, AllThrough
<1>16. MidFile(x)
    BY <1>13 DEF MidFile
<1>17. Tallied(x)
    <2>1. /\ p.ok = ok /\ p.error = error /\ p.completed = completed
          /\ DOMAIN p.entries = DOMAIN o.progress.entries
          /\ \A j \in DOMAIN p.entries :
                 p.entries[j] = IF j = o.i THEN e ELSE o.progress.entries[j]
        BY <1>1, <1>4, <1>9 DEF IsRunner, IsProgress, IsMap
    <2>2. e.status \in {"ok", "error"}
        BY <1>1, <1>4, <1>8 DEF Entry, Counting, OutcomesMade
    <2>3. Tallied(o) /\ o.at \notin Early \cup {"over"}
        BY <1>3, <1>4 DEF Counting, Early
    <2>4. Counted(x) = o.i /\ Counted(o) = o.i - 1 /\ o.i \in Nat
        BY <1>3, <1>4, <1>13 DEF Counted, Counting, Placed
    <2>5. ASSUME NEW s
          PROVE  Cardinality(Marked(x, o.i, s))
                     = Cardinality(Marked(o, o.i - 1, s))
                           + Cardinality({k \in new : run[r].outcomes[k].status = s})
        <3>1. PICK here : here = {k \in new : run[r].outcomes[k].status = s}
            OBVIOUS
        <3>2. here = {k \in DOMAIN o.outcomes : o.outcomes[k].file = o.i
                                                    /\ o.outcomes[k].status = s}
            BY <1>1, <1>5, <3>1
        <3>3. /\ Marked(x, o.i, s) = Marked(o, o.i - 1, s) \cup here
              /\ Marked(o, o.i - 1, s) \cap here = {}
            BY <1>4, <1>13, <2>4, <3>2 DEF Marked, SameWork, Counting, OutcomesMade
        <3>4. IsFiniteSet(Marked(o, o.i - 1, s)) /\ Cardinality(Marked(o, o.i - 1, s)) \in Nat
            BY <1>4, OutcomesFinite DEF Marked
        <3>5. IsFiniteSet(here) /\ Cardinality(here) \in Nat
            BY <1>4, <3>2, OutcomesFinite
        <3>6. Cardinality(Marked(o, o.i - 1, s) \cap here) = 0
            BY <3>3, FS_EmptySet
        <3>7. PICK before : before = Marked(o, o.i - 1, s)
            OBVIOUS
        <3>8. Cardinality(before \cup here)
                  = Cardinality(before) + Cardinality(here) - Cardinality(before \cap here)
            BY <3>4, <3>5, <3>7, FS_Union
        <3>9. Cardinality(before \cup here) = Cardinality(before) + Cardinality(here)
            BY <3>4, <3>5, <3>6, <3>7, <3>8
        <3>. QED  BY <3>1, <3>3, <3>7, <3>9
    <2>6. ok = Cardinality(Marked(x, o.i, "ok")) /\ error = Cardinality(Marked(x, o.i, "error"))
        BY <1>1, <1>7, <2>3, <2>4, <2>5 DEF Tallied
    <2>7. DOMAIN o.progress.entries = DOMAIN o.files /\ DOMAIN o.files = 1..Len(o.files)
        <3>1. DOMAIN o.files = 1..Len(o.files)
            BY <1>4, LenProperties DEF Counting, Placed
        <3>. QED  BY <2>3, <3>1 DEF Tallied
    <2>8. ASSUME NEW j \in DOMAIN p.entries, j <= o.i
          PROVE  p.entries[j].status \in {"ok", "error"}
        <3>1. j \in Nat
            BY <2>1, <2>7
        <3>2. CASE j = o.i
            BY <2>1, <2>2, <3>2
        <3>3. CASE j <= o.i - 1
            BY <2>1, <2>3, <2>4, <3>1, <3>3 DEF Tallied
        <3>. QED  BY <2>4, <2>8, <3>1, <3>2, <3>3
    <2>9. completed = Len(x.outcomes)
        BY <1>1, <1>7, <1>13 DEF SameWork
    <2>. QED  BY <1>13, <2>1, <2>4, <2>6, <2>7, <2>8, <2>9 DEF Tallied, SameWork
<1>18. Counting(x)
    BY <1>14, <1>15, <1>16, <1>17 DEF Counting
<1>19. Said(x, z)
    <2>1. z.progress = p /\ z.manifest = y.manifest
        BY <1>4, <1>12 DEF IsRoot
    <2>. QED  BY <1>3, <1>4, <1>13, <2>1 DEF Said
<1>20. run' = [run EXCEPT ![r] = x]
    BY <1>1, <1>10, <1>11 DEF RunsInv
<1>21. disk' = [disk EXCEPT ![run[r].root] = z]
    BY <1>2, <1>10, <1>12 DEF WriteProgress, RunsInv, IsMap
<1>. QED  BY <1>1, <1>3, <1>13, <1>18, <1>19, <1>20, <1>21, RightStep DEF SameWork

LEMMA RightWriteCombined ==
    ASSUME RunsInv, RightInv, NEW r \in Runners, Combine(r) \/ Finish(r)
    PROVE  RightInv'
<1>1. PICK o : o = run[r]
    OBVIOUS
<1>2. PICK y : y = disk[run[r].root]
    OBVIOUS
<1>3. PICK point : /\ run[r].at # "new" /\ WriteCombined(r) /\ GoOn(r, point)
                   /\ \/ o.at = "combine" /\ point = "manifest"
                      \/ o.at = "next" /\ point = "done" /\ o.i > Len(o.files)
    BY <1>1 DEF Combine, Finish, At
<1>4. IsRunner(o) /\ IsRoot(y) /\ Counting(o) /\ Said(o, y)
    BY <1>1, <1>2, <1>3, RightHere
<1>5. PICK x : x = [o EXCEPT !.at = point]
    OBVIOUS
<1>6. PICK z : z = [y EXCEPT !.combined = Combined(r)]
    OBVIOUS
<1>7. x.at = point /\ SameWork(o, x) /\ x.i = o.i /\ x.progress = o.progress
    BY <1>4, <1>5 DEF IsRunner, SameWork
<1>8. Placed(x)
    <2>1. o.i \in Nat /\ o.i <= Len(o.files) + 1 /\ Len(o.files) \in Nat
        BY <1>4 DEF Counting, Placed
    <2>. QED  BY <1>3, <1>4, <1>7, <2>1 DEF Counting, Placed, SameWork, Early, Inside
<1>9. OutcomesMade(x)
    BY <1>3, <1>4, <1>7 DEF Counting, OutcomesMade, SameWork
<1>10. AllThrough(x)
    BY <1>3, <1>4, <1>7, SameSets DEF Counting, AllThrough
<1>11. MidFile(x)
    BY <1>3, <1>7 DEF MidFile
<1>12. Tallied(x)
    <2>1. Counted(x) = Counted(o)
        BY <1>3, <1>7 DEF Counted
    <2>2. \A n, s : Marked(x, n, s) = Marked(o, n, s)
        BY <1>7, SameSets
    <2>3. o.at \notin Early \cup {"over"} /\ Tallied(o)
        BY <1>3, <1>4 DEF Early, Counting
    <2>. QED  BY <1>3, <1>7, <2>1, <2>2, <2>3 DEF Tallied, SameWork
<1>13. Counting(x)
    BY <1>8, <1>9, <1>10, <1>11, <1>12 DEF Counting
<1>14. Said(x, z)
    <2>1. z.progress = y.progress /\ z.manifest = y.manifest
        BY <1>4, <1>6 DEF IsRoot
    <2>. QED  BY <1>3, <1>4, <1>7, <2>1 DEF Said
<1>15. run' = [run EXCEPT ![r] = x]
    BY <1>1, <1>3, <1>5 DEF GoOn, RunsInv
<1>16. disk' = [disk EXCEPT ![run[r].root] = z]
    BY <1>2, <1>3, <1>6 DEF WriteCombined, RunsInv, IsMap
<1>. QED  BY <1>1, <1>3, <1>7, <1>13, <1>14, <1>15, <1>16, RightStep DEF SameWork

LEMMA RightReport ==
    ASSUME RunsInv, RightInv, NEW r \in Runners, Report(r) PROVE RightInv'
<1>1. PICK o : o = run[r]
    OBVIOUS
<1>2. PICK y : y = disk[run[r].root]
    OBVIOUS
<1>3. o.at = "manifest" /\ run[r].at # "new"
    BY <1>1 DEF Report, At
<1>4. IsRunner(o) /\ IsRoot(y) /\ Counting(o) /\ Said(o, y)
    BY <1>1, <1>2, <1>3, RightHere
<1>5. PICK x : x = [o EXCEPT !.at = "next", !.i = o.i + 1]
    OBVIOUS
<1>6. PICK m : m = [status |-> o.progress.status, success |-> "none",
                    entries |-> o.progress.entries]
    OBVIOUS
<1>7. PICK z : z = [y EXCEPT !.manifest = m]
    OBVIOUS
<1>8. x.at = "next" /\ SameWork(o, x) /\ x.i = o.i + 1 /\ x.progress = o.progress
    BY <1>4, <1>5 DEF IsRunner, SameWork
<1>9. Placed(x)
    BY <1>3, <1>4, <1>8 DEF Counting, Placed, SameWork, Early, Inside
<1>10. OutcomesMade(x)
    BY <1>4, <1>8 DEF Counting, OutcomesMade, Placed, SameWork
<1>11. AllThrough(x)
    <2>1. ASSUME NEW j \in Nat, 1 <= j, j < o.i + 1 PROVE Through(o, j)
        <3>1. j < o.i \/ j = o.i
            BY <1>4, <2>1 DEF Counting, Placed
        <3>. QED  BY <1>3, <1>4, <2>1, <3>1 DEF Counting, AllThrough
    <2>. QED  BY <1>8, <2>1, SameSets DEF AllThrough
<1>12. MidFile(x)
    BY <1>8 DEF MidFile
<1>13. Tallied(x)
    <2>1. Counted(x) = o.i /\ Counted(o) = o.i
        BY <1>3, <1>4, <1>8 DEF Counted, Counting, Placed
    <2>2. \A n, s : Marked(x, n, s) = Marked(o, n, s)
        BY <1>8, SameSets
    <2>3. o.at \notin Early \cup {"over"} /\ Tallied(o)
        BY <1>3, <1>4 DEF Early, Counting
    <2>. QED  BY <1>3, <1>8, <2>1, <2>2, <2>3 DEF Tallied, SameWork
<1>14. Counting(x)
    BY <1>9, <1>10, <1>11, <1>12, <1>13 DEF Counting
<1>15. Said(x, z)
    <2>1. z.progress = y.progress /\ z.manifest = m
        BY <1>4, <1>7 DEF IsRoot
    <2>. QED  BY <1>4, <1>6, <1>8, <2>1 DEF Said
<1>16. run' = [run EXCEPT ![r] = x]
    BY <1>1, <1>5 DEF Report, RunsInv
<1>17. disk' = [disk EXCEPT ![run[r].root] = z]
    BY <1>1, <1>2, <1>6, <1>7 DEF Report, WriteManifest, RunsInv, IsMap
<1>. QED  BY <1>1, <1>3, <1>8, <1>14, <1>15, <1>16, <1>17, RightStep DEF SameWork

LEMMA RightDone ==
    ASSUME RunsInv, RightInv, NEW r \in Runners, Done(r) PROVE RightInv'
<1>1. PICK o : o = run[r]
    OBVIOUS
<1>2. PICK y : y = disk[run[r].root]
    OBVIOUS
<1>3. o.at = "done" /\ run[r].at # "new"
    BY <1>1 DEF Done, At
<1>4. IsRunner(o) /\ IsRoot(y) /\ Counting(o) /\ Said(o, y)
    BY <1>1, <1>2, <1>3, RightHere
<1>5. PICK p : p = [o.progress EXCEPT !.status = "done"]
    OBVIOUS
<1>6. /\ WriteProgress(r, p)
      /\ run' = [run EXCEPT ![r].at = "verdict", ![r].progress = p]
    BY <1>1, <1>5 DEF Done
<1>7. /\ p.status = "done" /\ p.entries = o.progress.entries /\ p.ok = o.progress.ok
      /\ p.error = o.progress.error /\ p.completed = o.progress.completed
    BY <1>4, <1>5 DEF IsRunner, IsProgress
<1>8. PICK x : x = [o EXCEPT !.at = "verdict", !.progress = p]
    OBVIOUS
<1>9. PICK z : z = [y EXCEPT !.progress = p]
    OBVIOUS
<1>10. x.at = "verdict" /\ SameWork(o, x) /\ x.i = o.i /\ x.progress = p
    BY <1>4, <1>8 DEF IsRunner, SameWork
<1>11. Placed(x)
    BY <1>3, <1>4, <1>10 DEF Counting, Placed, SameWork, Early, Inside
<1>12. OutcomesMade(x)
    BY <1>3, <1>4, <1>10 DEF Counting, OutcomesMade, SameWork
<1>13. AllThrough(x)
    BY <1>3, <1>4, <1>10, SameSets DEF Counting, AllThrough
<1>14. MidFile(x)
    BY <1>10 DEF MidFile
<1>15. Tallied(x)
    <2>1. Counted(x) = Counted(o)
        BY <1>3, <1>10 DEF Counted
    <2>2. \A n, s : Marked(x, n, s) = Marked(o, n, s)
        BY <1>10, SameSets
    <2>3. o.at \notin Early \cup {"over"} /\ Tallied(o)
        BY <1>3, <1>4 DEF Early, Counting
    <2>. QED  BY <1>3, <1>7, <1>10, <2>1, <2>2, <2>3 DEF Tallied, SameWork
<1>16. Counting(x)
    BY <1>11, <1>12, <1>13, <1>14, <1>15 DEF Counting
<1>17. Said(x, z)
    <2>1. z.progress = p /\ z.manifest = y.manifest
        BY <1>4, <1>9 DEF IsRoot
    <2>. QED  BY <1>3, <1>4, <1>10, <2>1 DEF Said
<1>18. run' = [run EXCEPT ![r] = x]
    BY <1>1, <1>6, <1>8 DEF RunsInv
<1>19. disk' = [disk EXCEPT ![run[r].root] = z]
    BY <1>2, <1>6, <1>9 DEF WriteProgress, RunsInv, IsMap
<1>. QED  BY <1>1, <1>3, <1>10, <1>16, <1>17, <1>18, <1>19, RightStep DEF SameWork
----------------------------------------------------------------------------
LEMMA OutcomesLen ==
    ASSUME NEW x, IsRunner(x)
    PROVE  Len(x.outcomes) = Cardinality(DOMAIN x.outcomes)
<1>1. PICK n \in Nat : DOMAIN x.outcomes = 1..n
    BY DEF IsRunner
<1>2. PICK s : s = x.outcomes
    OBVIOUS
<1>3. DOMAIN s = 1..n /\ IsMap(s)
    BY <1>1, <1>2 DEF IsRunner
<1>4. PICK S : S = {s[k] : k \in 1..n}
    OBVIOUS
<1>5. s \in [1..n -> S]
    BY <1>3, <1>4 DEF IsMap
<1>6. s \in Seq(S)
    BY <1>5
<1>7. Len(s) \in Nat /\ 1..Len(s) = 1..n
    BY <1>3, <1>6, LenProperties
<1>8. Len(s) = n
    <2>1. Len(s) \in 1..Len(s) \/ Len(s) = 0
        BY <1>7
    <2>2. n \in 1..n \/ n = 0
        OBVIOUS
    <2>. QED  BY <1>7, <2>1, <2>2
<1>9. Cardinality(1..n) = n
    BY FS_Interval
<1>. QED  BY <1>1, <1>2, <1>8, <1>9

(* What a runner that has been through all of its files may say. *)
LEMMA JudgedRight ==
    ASSUME NEW o, IsRunner(o), Counting(o), o.at = "verdict",
           NEW x, SameWork(o, x), x.progress = o.progress,
           x.exit = IF \A k \in DOMAIN o.outcomes : o.outcomes[k].status = "ok"
                    THEN "ok" ELSE "failed",
           NEW y, y.manifest = [status |-> o.progress.status, entries |-> o.progress.entries,
                                success |-> IF x.exit = "ok" THEN "yes" ELSE "no"]
    PROVE  Judged(x, y)
<1>1. Placed(o) /\ OutcomesMade(o) /\ AllThrough(o) /\ Tallied(o)
    BY DEF Counting
<1>2. /\ o.i = Len(o.files) + 1 /\ Len(o.files) \in Nat /\ DOMAIN o.files = 1..Len(o.files)
    BY <1>1, LenProperties DEF Placed
<1>3. /\ \A k \in DOMAIN o.outcomes :
             /\ o.outcomes[k].file \in 1..Len(o.files)
             /\ o.outcomes[k].status \in {"ok", "error"}
    BY <1>1, <1>2 DEF OutcomesMade
<1>4. \A j \in DOMAIN o.files : Through(o, j)
    BY <1>1, <1>2 DEF AllThrough
<1>5. Counted(o) = Len(o.files) /\ o.at \notin Early \cup {"over"}
    BY <1>2 DEF Counted, Early
<1>6. PICK good, bad : /\ good = Marked(o, Len(o.files), "ok")
                       /\ bad = Marked(o, Len(o.files), "error")
    OBVIOUS
<1>7. /\ o.progress.ok = Cardinality(good) /\ o.progress.error = Cardinality(bad)
      /\ o.progress.completed = Len(o.outcomes) /\ o.progress.status = "done"
      /\ DOMAIN o.progress.entries = DOMAIN o.files
      /\ \A j \in DOMAIN o.progress.entries : o.progress.entries[j].status \in {"ok", "error"}
    BY <1>1, <1>2, <1>5, <1>6 DEF Tallied
<1>8. /\ good = {k \in DOMAIN o.outcomes : o.outcomes[k].status = "ok"}
      /\ bad = {k \in DOMAIN o.outcomes : o.outcomes[k].status = "error"}
    BY <1>2, <1>3, <1>6 DEF Marked
<1>9. good \cup bad = DOMAIN o.outcomes /\ good \cap bad = {}
    BY <1>3, <1>8
<1>10. /\ IsFiniteSet(good) /\ Cardinality(good) \in Nat
       /\ IsFiniteSet(bad) /\ Cardinality(bad) \in Nat
    BY <1>8, OutcomesFinite
<1>11. Len(o.outcomes) = Cardinality(good) + Cardinality(bad)
    <2>1. Cardinality(good \cup bad)
              = Cardinality(good) + Cardinality(bad) - Cardinality(good \cap bad)
        BY <1>10, FS_Union
    <2>2. Cardinality(good \cap bad) = 0
        BY <1>9, FS_EmptySet
    <2>3. Len(o.outcomes) = Cardinality(good \cup bad)
        BY <1>9, OutcomesLen
    <2>. QED  BY <1>10, <2>1, <2>2, <2>3
<1>12. Cardinality(bad) = 0 <=> bad = {}
    BY <1>10, FS_EmptySet
<1>13. x.exit = "ok" <=> bad = {}
    BY <1>3, <1>8
<1>14. /\ x.files = o.files /\ x.outcomes = o.outcomes
       /\ \A j : Wanted(x, j) = Wanted(o, j) /\ (Expands(x, j) <=> Expands(o, j))
       /\ \A j : Succeeded(x, j) = Succeeded(o, j)
    BY SameSets DEF SameWork, Succeeded
<1>15. ASSUME bad = {}, NEW j \in DOMAIN o.files
       PROVE  Expands(o, j) /\ Cardinality(Succeeded(o, j)) = Wanted(o, j)
    <2>1. \A k \in DOMAIN o.outcomes : o.outcomes[k].status = "ok"
        BY <1>3, <1>8, <1>15
    <2>2. Succeeded(o, j) = OutcomesOf(o, j)
        BY <2>1 DEF Succeeded, OutcomesOf
    <2>3. \A k \in OutcomesOf(o, j) : o.outcomes[k].status = "ok"
        BY <2>1 DEF OutcomesOf
    <2>. QED  BY <1>4, <2>2, <2>3 DEF Through
<1>16. ASSUME bad # {}
       PROVE  \E j \in DOMAIN o.files :
                  ~(Expands(o, j) /\ Cardinality(Succeeded(o, j)) = Wanted(o, j))
    <2>1. PICK k \in DOMAIN o.outcomes : o.outcomes[k].status = "error"
        BY <1>8, <1>16
    <2>2. PICK j \in DOMAIN o.files : j = o.outcomes[k].file
        BY <1>2, <1>3
    <2>3. k \in OutcomesOf(o, j) /\ k \notin Succeeded(o, j)
        BY <2>1, <2>2 DEF OutcomesOf, Succeeded
    <2>4. PICK all, some : all = OutcomesOf(o, j) /\ some = Succeeded(o, j)
        OBVIOUS
    <2>5. some \in SUBSET all /\ some # all
        BY <2>3, <2>4 DEF OutcomesOf, Succeeded
    <2>6. IsFiniteSet(all) /\ Cardinality(all) \in Nat
        BY <2>4, OutcomesFinite DEF OutcomesOf
    <2>7. Cardinality(some) <= Cardinality(all) /\ Cardinality(some) # Cardinality(all)
        BY <2>5, <2>6, FS_Subset
    <2>8. Cardinality(some) \in Nat
        <3>1. some \in SUBSET DOMAIN o.outcomes
            BY <2>4 DEF Succeeded
        <3>. QED  BY <3>1, OutcomesFinite
    <2>9. Wanted(o, j) \in Nat
        BY <1>1, <1>2, WantedSome
    <2>10. Expands(o, j) => Cardinality(all) <= Wanted(o, j)
        BY <1>4, <2>4 DEF Through
    <2>. QED  BY <2>4, <2>6, <2>7, <2>8, <2>9, <2>10
<1>17. x.exit = "ok" <=> \A j \in DOMAIN x.files :
                             Expands(x, j) /\ Cardinality(Succeeded(x, j)) = Wanted(x, j)
    BY <1>13, <1>14, <1>15, <1>16
<1>. QED  BY <1>7, <1>11, <1>12, <1>13, <1>14, <1>17 DEF Judged

LEMMA RightVerdict ==
    ASSUME RunsInv, RightInv, NEW r \in Runners, Verdict(r) PROVE RightInv'
<1>1. PICK o : o = run[r]
    OBVIOUS
<1>2. PICK y : y = disk[run[r].root]
    OBVIOUS
<1>3. o.at = "verdict" /\ run[r].at # "new"
    BY <1>1 DEF Verdict, At
<1>4. IsRunner(o) /\ IsRoot(y) /\ Counting(o) /\ Said(o, y)
    BY <1>1, <1>2, <1>3, RightHere
<1>5. PICK exit, success :
          /\ exit = IF \A k \in DOMAIN o.outcomes : o.outcomes[k].status = "ok"
                    THEN "ok" ELSE "failed"
          /\ success = IF exit = "ok" THEN "yes" ELSE "no"
          /\ WriteManifest(r, success) /\ Leave(r, exit)
    <2>2. CASE \A k \in DOMAIN run[r].outcomes : run[r].outcomes[k].status = "ok"
        <3>1. WriteManifest(r, "yes") /\ Leave(r, "ok")
            BY <2>2 DEF Verdict
        <3>. QED  BY <1>1, <2>2, <3>1
    <2>3. CASE ~\A k \in DOMAIN run[r].outcomes : run[r].outcomes[k].status = "ok"
        <3>1. WriteManifest(r, "no") /\ Leave(r, "failed")
            BY <2>3 DEF Verdict
        <3>. QED  BY <1>1, <2>3, <3>1
    <2>. QED  BY <2>2, <2>3
<1>6. PICK m : m = [status |-> o.progress.status, success |-> success,
                    entries |-> o.progress.entries]
    OBVIOUS
<1>7. PICK x : x = [o EXCEPT !.at = "over", !.exit = exit]
    OBVIOUS
<1>8. PICK z : z = [y EXCEPT !.manifest = m]
    OBVIOUS
<1>9. x.at = "over" /\ SameWork(o, x) /\ x.i = o.i /\ x.progress = o.progress /\ x.exit = exit
    BY <1>4, <1>7 DEF IsRunner, SameWork
<1>10. Placed(x)
    BY <1>3, <1>4, <1>9 DEF Counting, Placed, SameWork, Early, Inside
<1>11. OutcomesMade(x)
    BY <1>4, <1>9 DEF Counting, OutcomesMade, SameWork
<1>12. AllThrough(x)
    BY <1>3, <1>4, <1>9, SameSets DEF Counting, AllThrough
<1>13. MidFile(x) /\ Tallied(x)
    BY <1>9 DEF MidFile, Tallied
<1>14. Counting(x)
    BY <1>10, <1>11, <1>12, <1>13 DEF Counting
<1>15. Said(x, z)
    <2>1. z.progress = y.progress /\ z.manifest = m
        BY <1>4, <1>8 DEF IsRoot
    <2>2. m = [status |-> o.progress.status, entries |-> o.progress.entries,
               success |-> IF x.exit = "ok" THEN "yes" ELSE "no"]
        BY <1>5, <1>6, <1>9
    <2>3. Judged(x, z)
        BY <1>3, <1>4, <1>5, <1>9, <2>1, <2>2, JudgedRight
    <2>. QED  BY <1>4, <1>9, <2>1, <2>3 DEF Said
<1>16. run' = [run EXCEPT ![r] = x]
    BY <1>1, <1>5, <1>7 DEF Leave, RunsInv
<1>17. disk' = [disk EXCEPT ![run[r].root] = z]
    BY <1>1, <1>2, <1>5, <1>6, <1>8 DEF WriteManifest, RunsInv, IsMap
<1>. QED  BY <1>1, <1>3, <1>9, <1>14, <1>15, <1>16, <1>17, RightStep DEF SameWork

LEMMA RightNext == RunsInv /\ RightInv /\ [RunsNext]_runVars => RightInv'
<1> SUFFICES ASSUME RunsInv, RightInv, [RunsNext]_runVars PROVE RightInv'
    OBVIOUS
<1>1. CASE UNCHANGED runVars
    BY <1>1 DEF runVars, RightInv
<1>2. ASSUME NEW r \in Runners,
             \/ MakeRoot(r) \/ Unlink(r) \/ Link(r) \/ Assemble(r) \/ Begin(r)
             \/ BeginManifest(r) \/ StartSim(r) \/ EndSim(r)
      PROVE  RightInv'
    BY <1>2, RightMakeRoot, RightWait, RightBegin, RightBeginManifest, RightStartSim, RightEndSim
<1>3. ASSUME NEW r \in Runners,
             \/ FailFile(r) \/ ReadSim(r) \/ FailVariant(r) \/ StartVariant(r)
             \/ Execute(r) \/ Summarize(r)
      PROVE  RightInv'
    BY <1>3, RightFailFile, RightReadSim, RightFailVariant, RightStartVariant, RightExecute,
       RightSummarize
<1>4. ASSUME NEW r \in Runners,
             \/ RecordOutcomes(r) \/ Combine(r) \/ Finish(r) \/ Report(r) \/ Done(r)
             \/ Verdict(r)
      PROVE  RightInv'
    BY <1>4, RightRecordOutcomes, RightWriteCombined, RightReport, RightDone, RightVerdict
<1>. QED  BY <1>1, <1>2, <1>3, <1>4 DEF RunsNext

(* The runner succeeds exactly if every variant of every file has run and  *)
(* succeeded, and manifest, counts and entries say the same                *)
(* (runner.rs:236-297).                                                    *)
THEOREM VerdictProved == RunsSpec => []VerdictRight
<1>1. RunsInit => RunsInv /\ RightInv
    BY RunsStart, RightStart
<1>2. RunsInv /\ RightInv /\ [RunsNext]_runVars => RunsInv' /\ RightInv'
    BY RunsStep, RightNext
<1>3. RunsInv /\ RightInv => VerdictRight
    <2> SUFFICES ASSUME RunsInv, RightInv, NEW r \in Runners, run[r].root # <<>>,
                        Root(r).manifest.success # "none"
                 PROVE
            /\ run[r].exit = "ok" <=>
                   \A i \in DOMAIN run[r].files :
                       /\ MatrixOk(Files[run[r].files[i]].matrix)
                       /\ Cardinality({k \in DOMAIN run[r].outcomes :
                                          run[r].outcomes[k].file = i
                                              /\ run[r].outcomes[k].status = "ok"})
                              = Len(VariantsOf[run[r].files[i]])
            /\ Root(r).manifest = [status |-> "done", entries |-> Root(r).progress.entries,
                                   success |-> IF run[r].exit = "ok" THEN "yes" ELSE "no"]
            /\ Root(r).progress.completed = Root(r).progress.ok + Root(r).progress.error
            /\ Root(r).progress.completed = Len(run[r].outcomes)
            /\ Root(r).progress.error = 0 <=> run[r].exit = "ok"
            /\ \A i \in DOMAIN Root(r).progress.entries :
                   Root(r).progress.entries[i].status \in {"ok", "error"}
        BY DEF VerdictRight
    <2>1. run[r].at # "new"
        BY DEF RunsInv, RootsOwn
    <2>2. Said(run[r], Root(r))
        BY <2>1 DEF RightInv, Root
    <2>3. Root(r).progress = run[r].progress /\ Judged(run[r], Root(r))
        BY <2>2 DEF Said
    <2>4. PICK x, y : x = run[r] /\ y = Root(r)
        OBVIOUS
    <2>5. y.progress = x.progress /\ Judged(x, y)
        BY <2>3, <2>4
    <2>6. x.exit = "ok" <=> \A i \in DOMAIN x.files :
                                /\ MatrixOk(Files[x.files[i]].matrix)
                                /\ Cardinality({k \in DOMAIN x.outcomes :
                                                   x.outcomes[k].file = i
                                                       /\ x.outcomes[k].status = "ok"})
                                       = Len(VariantsOf[x.files[i]])
        BY <2>5 DEF Judged, Expands, Succeeded, Wanted
    <2>7. /\ y.manifest = [status |-> "done", entries |-> y.progress.entries,
                           success |-> IF x.exit = "ok" THEN "yes" ELSE "no"]
          /\ y.progress.completed = y.progress.ok + y.progress.error
          /\ y.progress.completed = Len(x.outcomes)
          /\ y.progress.error = 0 <=> x.exit = "ok"
          /\ \A i \in DOMAIN y.progress.entries : y.progress.entries[i].status \in {"ok", "error"}
        BY <2>5 DEF Judged
    <2>. QED  BY <2>4, <2>6, <2>7
<1>. QED  BY <1>1, <1>2, <1>3, PTL DEF RunsSpec
----------------------------------------------------------------------------
(* The simulation that a runner executes. *)

(* It is a variant of a file the runner was given.                          *)
LEMMA ItsVariant ==
    ASSUME RunsInv, RightInv, NEW r \in Runners, At(r, "execute")
    PROVE  NameOf(r) \in DOMAIN Files /\ run[r].v \in DOMAIN VariantsOf[NameOf(r)]
<1>1. PICK x : x = run[r]
    OBVIOUS
<1>2. x.at = "execute" /\ IsRunner(x) /\ Placed(x) /\ MidFile(x)
    BY <1>1 DEF At, RunsInv, RightInv, Counting
<1>3. x.files \in Seq(DOMAIN Files) /\ x.i \in Nat /\ 1 <= x.i /\ x.i <= Len(x.files)
    BY <1>2 DEF Placed, Inside
<1>4. x.i \in DOMAIN x.files /\ x.files[x.i] \in DOMAIN Files
    BY <1>3
<1>5. PICK f \in DOMAIN Files : f = x.files[x.i]
    BY <1>4
<1>6. x.v \in Nat /\ Cardinality(OutcomesOf(x, x.i)) = x.v - 1 /\ x.v <= Len(VariantsOf[f])
    BY <1>2, <1>5 DEF MidFile, Wanted
<1>7. Cardinality(OutcomesOf(x, x.i)) \in Nat
    BY <1>2, OutcomesFinite DEF OutcomesOf
<1>8. Len(VariantsOf[f]) \in Nat /\ DOMAIN VariantsOf[f] = 1..Len(VariantsOf[f])
    BY SomeVariants
<1>9. x.v \in DOMAIN VariantsOf[f]
    BY <1>6, <1>7, <1>8
<1>10. NameOf(r) = f
    BY <1>1, <1>5 DEF NameOf
<1>. QED  BY <1>1, <1>9, <1>10

(* A router whose upstream is a router of the file is connected to it and   *)
(* never to the IX instead (lab.rs:707-755), and after all expansions every *)
(* step of a simulation written as meant addresses a device of its lab, ids *)
(* are unique, and what a step refers to or waits for is captured by a step *)
(* that is run (runner.rs:1425-1645).                                       *)
THEOREM StepsProved == RunsSpec => []StepsResolve
<1>1. RunsInit => RunsInv /\ RightInv
    BY RunsStart, RightStart
<1>2. RunsInv /\ RightInv /\ [RunsNext]_runVars => RunsInv' /\ RightInv'
    BY RunsStep, RightNext
<1>3. RunsInv /\ RightInv => StepsResolve
    <2> SUFFICES ASSUME RunsInv, RightInv, NEW r \in Runners, At(r, "execute"),
                        CanRun[NameOf(r)][run[r].v]
                 PROVE  /\ LabAsDescribed(TopologyOf(VariantOf(r)))
                        /\ Meant(VariantOf(r)) =>
                               StepsFit(TopologyOf(VariantOf(r)), StepsToRun(VariantOf(r)))
        BY DEF StepsResolve
    <2>1. PICK f \in DOMAIN Files : f = NameOf(r) /\ run[r].v \in DOMAIN VariantsOf[f]
        BY ItsVariant
    <2>2. PICK v \in DOMAIN VariantsOf[f] : v = run[r].v
        BY <2>1
    <2>3. PICK sim : sim = VariantsOf[f][v] /\ sim = VariantOf(r)
        BY <2>1, <2>2 DEF VariantOf
    <2>4. SimFits(sim)
        BY <2>3, VariantOfFile
    <2>5. Runnable(sim)
        BY <2>1, <2>2, <2>3 DEF CanRun
    <2>6. TopologyOk(sim) /\ LabOk(TopologyOf(sim))
        BY <2>5 DEF Runnable
    <2>7. TopologyFits(TopologyOf(sim))
        BY <2>4, <2>6, VariantTopology
    <2>8. PICK topo : topo = TopologyOf(sim)
        OBVIOUS
    <2>9. LabAsDescribed(topo)
        BY <2>6, <2>7, <2>8, LabUplinks
    <2>10. Meant(sim) => StepsFit(TopologyOf(sim), StepsToRun(sim))
        BY <2>4, <2>5, <2>7, RunFits
    <2>. QED  BY <2>3, <2>8, <2>9, <2>10
<1>. QED  BY <1>1, <1>2, <1>3, PTL DEF RunsSpec
============================================================================
