---------------------------- MODULE LiveEvents ----------------------------
(* A page that follows a running lab: the writer of events.jsonl             *)
(* (writer.rs), the event stream and the list of events of the server        *)
(* (patchbay-server/lib.rs), and the page that loads the list, follows the    *)
(* stream, and subscribes anew whenever the list of runs is polled           *)
(* (RunPage.tsx, api.ts).                                                     *)
(* A line is two units of the file, so that a flush of the full write buffer *)
(* can end within it; a line that lacks only its newline parses as a whole.  *)
(* Events may reach the log out of the order of their numbers (LabEvents).   *)
EXTENDS Naturals, Sequences, FiniteSets, SequencesExt

CONSTANTS
    MaxEvents,  \* bound: events of the run, numbered from 0
    MaxFaults   \* bound: dropped connections, failed requests, hidden tabs

ASSUME LiveEventsAssumption == MaxEvents \in Nat \ {0} /\ MaxFaults \in Nat

VARIABLES
    log,        \* numbers of the events in the write buffer or the file
    disk,       \* units of the file
    status,     \* status in state.json, as the list of runs shows it
    stream,     \* the connection of the page to the server
    load,       \* the page's load of the run: where it is, events it has read
    shown,      \* labEvents: what the page shows
    lastOpid,   \* lastOpidRef
    cutBefore,  \* history: events whose line was cut when a stream opened
    dropped,    \* history: events shown that the load replaced
    faults

writerVars == <<log, disk, status>>
pageVars == <<load, shown, lastOpid, dropped>>
vars == <<log, disk, status, stream, load, shown, lastOpid, cutBefore, dropped, faults>>

-----------------------------------------------------------------------------

Complete == disk \div 2
Readable == SubSeq(log, 1, Complete)
After(lines, n) == {i \in lines : log[i] > n}
Greatest(numbers) == {n \in numbers : \A m \in numbers : m <= n}

Closed == [at |-> "closed", after |-> 0, pos |-> 0, queue |-> {}, got |-> 0, cut |-> 0]
\* new EventSource(`..?after=${lastOpid}`)
Requested(n) == [Closed EXCEPT !.at = "requested", !.after = n]

Init ==
    /\ log = <<>> /\ disk = 0 /\ status = "none"
    /\ stream = Closed
    /\ load = [at |-> "fetching", events |-> <<>>]
    /\ shown = <<>> /\ lastOpid = 0
    /\ cutBefore = {} /\ dropped = {}
    /\ faults = 0

-----------------------------------------------------------------------------
(* The writer.                                                              *)

\* An event is numbered before it is sent: the next one can overtake it.
Emit ==
    /\ status # "ended"
    /\ \E e \in 0..MaxEvents - 1 :
           /\ e <= Len(log) + 1 /\ ~Contains(log, e)
           /\ log' = Append(log, e)
    /\ UNCHANGED <<disk, status, stream, pageVars, cutBefore, faults>>

\* The buffer is full: what it holds goes to the file, up to any byte.
Spill ==
    /\ disk' \in disk + 1 .. 2 * Len(log) - 1
    /\ UNCHANGED <<log, status, stream, pageVars, cutBefore, faults>>

\* Once a second when there are new events, and at the end.
Flush ==
    /\ disk < 2 * Len(log)
    /\ disk' = 2 * Len(log)
    /\ status' = IF status = "none" THEN "running" ELSE status
    /\ UNCHANGED <<log, stream, pageVars, cutBefore, faults>>

\* LabInner::drop writes the final status; the writer drains afterwards.
Stop ==
    /\ status = "running" /\ faults < MaxFaults
    /\ faults' = faults + 1
    /\ status' = "ended"
    /\ UNCHANGED <<log, disk, stream, pageVars, cutBefore>>

-----------------------------------------------------------------------------
(* The server.                                                              *)

\* Mutant: polling starts at the beginning of the file.
ServeHistoryTwice ==
    /\ stream.at = "requested"
    /\ stream' = [stream EXCEPT !.at = "streaming",
                      !.queue = After(1..Complete, stream.after)]
    /\ UNCHANGED <<writerVars, pageVars, cutBefore, faults>>

\* run_events_sse: the complete lines after the cursor; polling starts from
\* the length of the file, in the middle of a line that is not complete.
\* Event 0 is never after the cursor.
ServeHistory ==
    /\ stream.at = "requested"
    /\ stream' = [stream EXCEPT !.at = "streaming", !.pos = disk,
                      !.queue = After(1..Complete, stream.after),
                      !.cut = IF disk % 2 = 1 THEN Complete + 1 ELSE 0]
    /\ cutBefore' = IF disk % 2 = 1 THEN cutBefore \cup {log[Complete + 1]} ELSE cutBefore
    /\ UNCHANGED <<writerVars, pageVars, faults>>

\* Mutant: the position advances over a line that is not complete.
PollToEnd ==
    /\ stream.at = "streaming"
    /\ stream.pos < 2 * Complete
    /\ stream' = [stream EXCEPT !.pos = disk,
                      !.queue = @ \cup After((stream.pos + 1) \div 2 + 1 .. Complete, stream.after)]
    /\ UNCHANGED <<writerVars, pageVars, cutBefore, faults>>

\* The poll reads up to the last newline.  The rest of a line that was cut
\* does not parse and is left out.
Poll ==
    /\ stream.at = "streaming"
    /\ stream.pos < 2 * Complete
    /\ stream' = [stream EXCEPT !.pos = 2 * Complete,
                      !.queue = @ \cup After((stream.pos + 1) \div 2 + 1 .. Complete, stream.after)]
    /\ UNCHANGED <<writerVars, pageVars, cutBefore, faults>>

-----------------------------------------------------------------------------
(* The page.                                                                *)

\* onmessage: whatever the load has shown meanwhile.
Deliver ==
    /\ stream.at = "streaming"
    /\ \E i \in stream.queue :
           /\ \A j \in stream.queue : i <= j
           /\ shown' = Append(shown, log[i])
           /\ lastOpid' = log[i]
           /\ stream' = [stream EXCEPT !.queue = @ \ {i}, !.got = i]
    /\ UNCHANGED <<writerVars, load, cutBefore, dropped, faults>>

\* events.json is one of four requests; the page waits for all of them.
LoadRead ==
    /\ load.at = "fetching"
    /\ load' = [at |-> "waiting", events |-> Readable]
    /\ UNCHANGED <<writerVars, stream, shown, lastOpid, cutBefore, dropped, faults>>

\* A request that fails counts as no events.
LoadFails ==
    /\ load.at = "fetching" /\ faults < MaxFaults
    /\ faults' = faults + 1
    /\ load' = [at |-> "waiting", events |-> <<>>]
    /\ UNCHANGED <<writerVars, stream, shown, lastOpid, cutBefore, dropped>>

\* What the stream has brought is replaced.
LoadDone ==
    /\ load.at = "waiting"
    /\ load' = [at |-> "done", events |-> <<>>]
    /\ shown' = load.events
    /\ lastOpid' \in IF load.events = <<>> THEN {0} ELSE Greatest(ToSet(load.events))
    /\ dropped' = ToSet(shown) \ ToSet(load.events)
    /\ UNCHANGED <<writerVars, stream, cutBefore, faults>>

\* Mutant: only a page without events opens a stream.
RefreshIfEmpty ==
    /\ stream' = IF status # "running" THEN Closed
                 ELSE IF shown = <<>> THEN Requested(lastOpid) ELSE stream
    /\ UNCHANGED <<writerVars, pageVars, cutBefore, faults>>

\* Every five seconds: a new list of runs closes the stream and opens one
\* after the last number, if the run is still listed as running.
Refresh ==
    /\ stream' = IF status = "running" THEN Requested(lastOpid) ELSE Closed
    /\ UNCHANGED <<writerVars, pageVars, cutBefore, faults>>

\* fetchRuns failed, or the tab was hidden: no stream until the next poll.
Interrupt ==
    /\ faults < MaxFaults /\ faults' = faults + 1
    /\ stream' = Closed
    /\ UNCHANGED <<writerVars, pageVars, cutBefore>>

\* The connection is lost: EventSource repeats the request as it was.
Reconnect ==
    /\ stream.at = "streaming" /\ faults < MaxFaults
    /\ faults' = faults + 1
    /\ stream' = Requested(stream.after)
    /\ UNCHANGED <<writerVars, pageVars, cutBefore>>

-----------------------------------------------------------------------------

Next ==
    \/ Emit \/ Spill \/ Flush \/ Stop
    \/ ServeHistory \/ Poll
    \/ Deliver \/ LoadRead \/ LoadFails \/ LoadDone
    \/ Refresh \/ Interrupt \/ Reconnect

\* The tasks of the writer and the server and the browser's requests go on;
\* the stream is polled ten times between two refreshes of the page.
Fairness ==
    /\ WF_vars(Flush)
    /\ SF_vars(ServeHistory) /\ SF_vars(Poll) /\ SF_vars(Deliver)
    /\ WF_vars(LoadRead) /\ WF_vars(LoadDone) /\ WF_vars(Refresh)

Spec == Init /\ [][Next]_vars /\ Fairness

-----------------------------------------------------------------------------
(* What must hold.                                                          *)

\* Events that a later one has overtaken on the way to the log.
Overtaken == {log[j] : j \in {k \in DOMAIN log : \E i \in 1..k - 1 : log[i] > log[k]}}

\* Every event of the file up to the cursor is shown, however loads,
\* refreshes, lost connections and flushes interleave, apart from these
\* races: the line was cut when a stream opened, the load replaced the event,
\* it was overtaken, or it is event 0 and the load was earlier than the file
\* (lib.rs:536-606, RunPage.tsx:151-193).
GapsExplained ==
    \A e \in ToSet(Readable) \cap 1..lastOpid :
        e \in ToSet(shown) \cup cutBefore \cup dropped \cup Overtaken

\* While the run goes on the page catches up with the log, although it
\* closes its stream every five seconds.
CaughtUp == <>[](status = "running") => <>[](\A i \in DOMAIN log : log[i] <= lastOpid)

\* The stream keeps the promise of EventFeed.
Streaming == stream.at = "streaming"
Feed == INSTANCE EventFeed WITH
    log <- Readable,
    open <- Streaming,
    from <- IF Streaming THEN stream.after ELSE 0,
    got <- stream.got,
    cut <- stream.cut
StreamFaithful == Feed!Spec
=============================================================================
