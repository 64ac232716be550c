------------------------------ MODULE SimSteps ------------------------------
(***************************************************************************)
(* One simulation of patchbay-runner: the step loop of execute_single_sim, *)
(* execute_step with its blocking waits, the processes the steps start,    *)
(* the pump and reader threads that turn their output into captures, and   *)
(* the clean-up when the loop ends or fails.                               *)
(*                                                                         *)
(* The step loop is one thread; processes, readers and the clock move in   *)
(* between.  Lines of one stream keep their order; the two streams of a    *)
(* spawned process are merged in no particular order.  A step has at most  *)
(* one capture, keyed by its id; a value is named by the process, stream   *)
(* and number of the line it was matched in.                               *)
(***************************************************************************)
EXTENDS Naturals, Sequences

CONSTANTS
    Ids,              \* step ids
    Scripts,          \* the simulations: sequences of steps
    Deadline,         \* SimState.deadline, in ticks
    CaptureTimeout,   \* DEFAULT_CAPTURE_TIMEOUT, in ticks
    MaxNow            \* bound: only a wait with a limit goes on later

(* A step.  "lab" stands for the link and route steps, "gen" for gen-certs *)
(* and gen-file.  A command prints out + err lines a capture matches and   *)
(* exits, or runs until it is killed; it may leave a process behind that   *)
(* holds its pipes and prints the rest, and that ends or does not; "sleep" *)
(* is the duration of a wait and the ready_after of a spawn, NoParse one   *)
(* that does not parse.                                                    *)
NoParse == MaxNow + 1
Counts == 0..2
Step == [kind : {"run", "spawn", "wait", "wait-for", "assert", "gen", "lab"}, id : Ids,
         requires : Seq(Ids), refs : Seq(Ids), out : Counts, err : Counts, hangs : BOOLEAN,
         left : {"nothing", "ends", "hangs"},
         capture : {"none", "out", "err"}, json : BOOLEAN, results : BOOLEAN,
         sleep : 0..NoParse, timeout : 0..MaxNow]

ASSUME SimAssumption ==
    /\ Deadline \in Nat /\ CaptureTimeout \in Nat /\ MaxNow \in Nat
    /\ Scripts \subseteq Seq(Step)

VARIABLES
    script, pc,     \* the steps, and the one the loop is at
    phase,          \* where in it the loop is
    keys,           \* captures the step still has to wait for
    cap,            \* capture_timeout of the step
    blocked,        \* inside Condvar::wait_timeout
    limit,          \* when the current wait or sleep ends
    now,
    failed,         \* some step returned an error
    proc,           \* the process each step started
    spawned,        \* SimState.spawned: step of the process per id, 0 if none
    pending,        \* SimState.spawn_results: ids whose results are to collect
    results,        \* SimState.step_results
    store           \* CaptureStore: history of every key

loop == <<script, pc, phase, keys, cap, blocked, limit, failed>>
data == <<spawned, pending, results>>
vars == <<loop, now, proc, data, store>>

Streams == {"out", "err"}
NoProcess == [st |-> "none", ok |-> TRUE, open |-> FALSE, parsed |-> FALSE,
              printed |-> [s \in Streams |-> 0], read |-> [s \in Streams |-> 0]]
Steps == DOMAIN script

Init ==
    /\ script \in Scripts
    /\ pc = 1 /\ phase = "next" /\ keys = <<>> /\ cap = 0 /\ blocked = FALSE
    /\ limit = 0 /\ now = 0 /\ failed = FALSE
    /\ proc = [p \in Steps |-> NoProcess]
    /\ spawned = [i \in Ids |-> 0]
    /\ pending = {}
    /\ results = <<>>
    /\ store = [i \in Ids |-> <<>>]

----------------------------------------------------------------------------
(* Processes and the threads that read them. *)

Lines(p) == [s \in Streams |-> IF s = "out" THEN script[p].out ELSE script[p].err]

(* Open: by the process the command leaves behind.                         *)
Output(p, s) ==
    /\ proc[p].st = "running" \/ proc[p].open
    /\ proc[p].printed[s] < Lines(p)[s]
    /\ proc' = [proc EXCEPT ![p].printed[s] = @ + 1]
    /\ UNCHANGED <<loop, now, data, store>>

Exit(p, status) ==
    /\ proc[p].st = "running" /\ ~script[p].hangs
    /\ proc[p].open \/ proc[p].printed = Lines(p)
    /\ proc' = [proc EXCEPT ![p].st = "ended", ![p].ok = status]
    /\ UNCHANGED <<loop, now, data, store>>

Release(p) ==
    /\ proc[p].open /\ script[p].left = "ends"
    /\ proc[p].st = "running" \/ proc[p].printed = Lines(p)
    /\ proc' = [proc EXCEPT ![p].open = FALSE]
    /\ UNCHANGED <<loop, now, data, store>>

(* A spawn hands both streams to the capture reader, a run its stdout, and *)
(* its stderr if the capture asks for it; which stream the capture asked   *)
(* for is not looked at again.                                             *)
Forwarded(p, s) ==
    /\ script[p].capture # "none"
    /\ s = "out" \/ script[p].kind = "spawn" \/ script[p].capture = "err"

Recorded(key, v) == store' = [store EXCEPT ![key] = Append(@, v)]

(* spawn_capture_reader, parsers text and ndjson: line by line.            *)
ReadLine(p, s) ==
    /\ Forwarded(p, s) /\ ~script[p].json
    /\ proc[p].read[s] < proc[p].printed[s]
    /\ proc' = [proc EXCEPT ![p].read[s] = @ + 1]
    /\ Recorded(script[p].id, [by |-> p, stream |-> s, n |-> proc[p].read[s] + 1])
    /\ UNCHANGED <<loop, now, data>>

(* Parser json: everything that was forwarded, as one document.            *)
ReadDocument(p) ==
    /\ script[p].capture # "none" /\ script[p].json
    /\ proc[p].st = "ended" /\ ~proc[p].open /\ ~proc[p].parsed
    /\ proc' = [proc EXCEPT ![p].parsed = TRUE]
    /\ IF /\ proc[p].printed["out"] > 0
          /\ Forwarded(p, "err") => proc[p].printed["err"] = 0
       THEN Recorded(script[p].id, [by |-> p, stream |-> "out", n |-> 1])
       ELSE UNCHANGED store
    /\ UNCHANGED <<loop, now, data>>

(* Not verbose: a spawn without captures writes to its log files itself.   *)
Piped(p) == script[p].kind = "run" \/ script[p].capture # "none"

(* The pumps saw the end of both pipes and the reader that of its channel. *)
Drained(p) ==
    /\ proc[p].st # "running"
    /\ Piped(p) => ~proc[p].open
    /\ IF script[p].json
       THEN proc[p].st = "ended" /\ script[p].capture # "none" => proc[p].parsed
       ELSE \A s \in Streams : Forwarded(p, s) => proc[p].read[s] = proc[p].printed[s]

(* What the loop itself does takes no time: the clock moves while it waits, *)
(* and no wait with a limit oversleeps it by a tick.                       *)
Limited == blocked \/ phase = "sleep" \/ (phase = "child" /\ script[pc].kind = "wait-for")
Tick ==
    /\ \/ Limited /\ now < limit
       \/ ~Limited /\ phase \in {"child", "join"} /\ now < MaxNow
    /\ now' = now + 1
    /\ UNCHANGED <<loop, proc, data, store>>

----------------------------------------------------------------------------
(* The step loop. *)

step == script[pc]
Least(m, n) == IF m < n THEN m ELSE n
Remaining == IF now < Deadline THEN Deadline - now ELSE 0

Fail == /\ phase' = "closing" /\ failed' = TRUE
        /\ UNCHANGED <<script, pc, keys, cap, blocked, limit>>
Advance == /\ pc' = pc + 1 /\ phase' = "next"
           /\ UNCHANGED <<script, keys, cap, blocked, limit, failed>>
Goto(ph, lim) == /\ phase' = ph /\ limit' = lim
                 /\ UNCHANGED <<script, pc, keys, cap, blocked, failed>>

(* execute_step checks the deadline and computes the timeout of all the    *)
(* waits for "requires".                                                   *)
BeginStep ==
    /\ phase = "next" /\ pc <= Len(script)
    /\ \/ now >= Deadline /\ Fail
       \/ /\ now < Deadline
          /\ phase' = "requires" /\ keys' = step.requires
          /\ cap' = Least(Remaining, CaptureTimeout)
          /\ UNCHANGED <<script, pc, blocked, limit, failed>>
    /\ UNCHANGED <<now, proc, data, store>>

(* CaptureStore::wait.  A waiter whose wait_timeout timed out gives up     *)
(* without a look at the store.                                            *)
Waiting == phase \in {"requires", "refs"} /\ keys # <<>>

Block ==
    /\ Waiting /\ store[Head(keys)] = <<>> /\ ~blocked
    /\ blocked' = TRUE
    /\ limit' = now + IF phase = "requires" THEN cap ELSE Least(Remaining, CaptureTimeout)
    /\ UNCHANGED <<script, pc, phase, keys, cap, failed, now, proc, data, store>>

Found ==
    /\ Waiting /\ store[Head(keys)] # <<>>
    /\ keys' = Tail(keys) /\ blocked' = FALSE
    /\ UNCHANGED <<script, pc, phase, cap, limit, failed, now, proc, data, store>>

(* Mutant: a timeout counts as an answer. *)
TimedOutIgnored ==
    /\ Waiting /\ blocked /\ now >= limit
    /\ keys' = Tail(keys) /\ blocked' = FALSE
    /\ UNCHANGED <<script, pc, phase, cap, limit, failed, now, proc, data, store>>

TimedOut ==
    /\ Waiting /\ blocked /\ now >= limit
    /\ Fail
    /\ UNCHANGED <<now, proc, data, store>>

(* The captures a command refers to are waited for in turn, after those it *)
(* requires.                                                               *)
Resolve ==
    /\ phase \in {"requires", "refs"} /\ keys = <<>>
    /\ IF phase = "requires" THEN phase' = "refs" /\ keys' = step.refs
                             ELSE phase' = "exec" /\ UNCHANGED keys
    /\ UNCHANGED <<script, pc, cap, blocked, limit, failed, now, proc, data, store>>

(* run and spawn start the command; a spawn is entered into the table only *)
(* after ready_after.                                                      *)
Start ==
    /\ phase = "exec" /\ step.kind \in {"run", "spawn"}
    /\ proc' = [proc EXCEPT ![pc].st = "running", ![pc].open = (step.left # "nothing")]
    /\ IF step.kind = "run" THEN Goto("child", limit)
       ELSE IF step.sleep = NoParse THEN Fail ELSE Goto("sleep", now + step.sleep)
    /\ UNCHANGED <<now, data, store>>

Wait ==
    /\ phase = "exec" /\ step.kind = "wait"
    /\ IF step.sleep = NoParse THEN Fail ELSE Goto("sleep", now + step.sleep)
    /\ UNCHANGED <<now, proc, data, store>>

(* HashMap::insert replaces the entry of an earlier spawn with this id.    *)
Wake ==
    /\ phase = "sleep" /\ now >= limit
    /\ IF step.kind = "spawn"
       THEN /\ spawned' = [spawned EXCEPT ![step.id] = pc]
            /\ pending' = IF step.results THEN pending \cup {step.id} ELSE pending
       ELSE UNCHANGED <<spawned, pending>>
    /\ Advance
    /\ UNCHANGED <<now, proc, results, store>>

WaitFor ==
    /\ phase = "exec" /\ step.kind = "wait-for"
    /\ IF spawned[step.id] = 0 THEN Advance
       ELSE Goto("child", now + Least(step.timeout, Remaining))
    /\ UNCHANGED <<now, proc, data, store>>

(* The process a run or a wait-for waits for.                              *)
Awaited == IF step.kind = "run" THEN pc ELSE spawned[step.id]

ChildExited ==
    /\ phase = "child" /\ proc[Awaited].st = "ended"
    /\ Goto("join", limit)
    /\ UNCHANGED <<now, proc, data, store>>

(* Mutant: the timeout of wait-for is not looked at. *)
WaitForPatient == FALSE /\ UNCHANGED vars

(* Only wait-for has a timeout; run waits for its child without one.       *)
WaitForTimedOut ==
    /\ phase = "child" /\ step.kind = "wait-for"
    /\ proc[Awaited].st = "running" /\ now >= limit
    /\ Fail
    /\ UNCHANGED <<now, proc, data, store>>

(* Threads joined: a run fails with its command, a wait-for only warns;    *)
(* then the results are collected, if something was captured.              *)
Collected(key) ==
    IF store[key] = <<>> THEN results
    ELSE Append(results, [id |-> key, by |-> Awaited, value |-> store[key][Len(store[key])]])

ToCollect == IF step.kind = "run" THEN step.results ELSE step.id \in pending

(* Mutant: the results are collected before the threads are joined. *)
JoinEarly ==
    /\ phase = "join"
    /\ step.kind = "run" => proc[pc].ok
    /\ results' = IF ToCollect THEN Collected(step.id) ELSE results
    /\ pending' = IF step.kind = "run" THEN pending ELSE pending \ {step.id}
    /\ Advance
    /\ UNCHANGED <<spawned, now, proc, store>>

(* Mutant: the results to collect are read, not taken. *)
JoinAgain ==
    /\ phase = "join" /\ Drained(Awaited)
    /\ step.kind = "run" => proc[pc].ok
    /\ results' = IF ToCollect THEN Collected(step.id) ELSE results
    /\ Advance
    /\ UNCHANGED <<spawned, pending, now, proc, store>>

Join ==
    /\ phase = "join" /\ Drained(Awaited)
    /\ \/ /\ step.kind = "run" /\ ~proc[pc].ok
          /\ Fail /\ UNCHANGED data
       \/ /\ step.kind = "run" => proc[pc].ok
          /\ results' = IF ToCollect THEN Collected(step.id) ELSE results
          /\ pending' = IF step.kind = "run" THEN pending ELSE pending \ {step.id}
          /\ Advance /\ UNCHANGED spawned
    /\ UNCHANGED <<now, proc, store>>

(* assert looks at the latest value without waiting; the comparison may    *)
(* come out either way.                                                    *)
AssertLatest ==
    /\ phase = "exec" /\ step.kind = "assert"
    /\ \/ Fail
       \/ store[step.id] # <<>> /\ Advance
    /\ UNCHANGED <<now, proc, data, store>>

Gen ==
    /\ phase = "exec" /\ step.kind = "gen"
    /\ Recorded(step.id, [by |-> pc, stream |-> "out", n |-> 1])
    /\ Advance
    /\ UNCHANGED <<now, proc, data>>

LabStep ==
    /\ phase = "exec" /\ step.kind = "lab"
    /\ Fail \/ Advance
    /\ UNCHANGED <<now, proc, data, store>>

----------------------------------------------------------------------------
(* Clean-up: after the last step, and in Drop for SimState after an error, *)
(* the processes in the table are killed, not what they leave behind; Drop *)
(* joins their threads, without a timeout.                                 *)

EndOfScript ==
    /\ phase = "next" /\ pc > Len(script)
    /\ Goto("closing", limit)
    /\ UNCHANGED <<now, proc, data, store>>

InTable == {spawned[i] : i \in Ids} \ {0}

Kill ==
    /\ phase = "closing" /\ \E p \in InTable : proc[p].st = "running"
    /\ proc' = [p \in Steps |-> IF p \in InTable /\ proc[p].st = "running"
                               THEN [proc[p] EXCEPT !.st = "ended"] ELSE proc[p]]
    /\ UNCHANGED <<loop, now, data, store>>

(* Mutant: the processes in the table are left alone. *)
CloseOnly ==
    /\ phase = "closing"
    /\ Goto("done", limit)
    /\ UNCHANGED <<now, proc, data, store>>

Close ==
    /\ phase = "closing" /\ \A p \in InTable : Drained(p)
    /\ Goto("done", limit)
    /\ UNCHANGED <<now, proc, data, store>>

Loop == \/ BeginStep \/ Block \/ Found \/ TimedOut \/ Resolve
        \/ Start \/ Wait \/ Wake \/ WaitFor \/ ChildExited \/ WaitForTimedOut \/ Join
        \/ AssertLatest \/ Gen \/ LabStep
        \/ EndOfScript \/ Kill \/ Close
Reader(p) == ReadDocument(p) \/ \E s \in Streams : ReadLine(p, s)
Child(p) == \/ \E s \in Streams : Output(p, s)
            \/ \E status \in BOOLEAN : Exit(p, status)
            \/ Release(p)

Next == Loop \/ Tick \/ \E p \in Steps : Reader(p) \/ Child(p)

(* The loop and the reader threads are scheduled by the OS and time goes   *)
(* on; a command that does not hang gets to its end.                       *)
MaxSteps == 4
Fairness ==
    /\ WF_vars(Loop) /\ WF_vars(Tick)
    /\ \A p \in 1..MaxSteps : /\ WF_vars(p \in Steps /\ Reader(p))
                              /\ WF_vars(p \in Steps /\ Child(p))

Spec == Init /\ [][Next]_vars /\ Fairness

----------------------------------------------------------------------------
(* A command starts only when every capture it requires and every one it   *)
(* refers to has been recorded.                                            *)
StartsAfterRequired ==
    [][\A p \in Steps : proc[p].st = "none" /\ proc'[p].st = "running" =>
          /\ \A k \in 1..Len(script[p].requires) : store[script[p].requires[k]] # <<>>
          /\ \A k \in 1..Len(script[p].refs) : store[script[p].refs[k]] # <<>>]_vars

(* A result is the last value its command ever prints: it is collected     *)
(* only when the command has ended and every line of it went through the   *)
(* pump and the reader, and nothing is captured under its id later.        *)
ResultsFinal == \A k \in 1..Len(results) :
    LET r == results[k] IN
    /\ proc[r.by].st = "ended"
    /\ r.value = store[r.id][Len(store[r.id])]

(* One run of a command yields one result, however often it is waited for. *)
ResultsOnce == \A j, k \in 1..Len(results) :
    results[j].by = results[k].by => j = k

(* When the simulation is over no process it started is running.           *)
NothingLeftRunning == phase = "done" => \A p \in Steps : proc[p].st # "running"

(* A simulation comes to its end, whatever its steps do, unless the loop   *)
(* waits for what never ends: the command of a run, or a process that one  *)
(* of its commands left behind with its pipes.                             *)
Endless(p) == \/ script[p].kind = "run" /\ script[p].hangs
              \/ Piped(p) /\ script[p].left = "hangs"
SimEnds == (\A p \in Steps : ~Endless(p)) => <>(phase = "done")
=============================================================================
