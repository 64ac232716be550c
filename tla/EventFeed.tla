----------------------------- MODULE EventFeed -----------------------------
(* What the server promises to one follower of the event log of a run: it   *)
(* gets the events with a number above the one it asked for, in the order   *)
(* of the log, each once, and none is left out but at most the one whose    *)
(* line was only partly in the file when the follower connected.            *)
EXTENDS Naturals, Sequences

CONSTANTS MaxEvents     \* bound: events of the run, numbered from 0

VARIABLES
    log,        \* numbers of the events whose lines are in the file
    open,       \* a follower is connected
    from,       \* the number it asked for
    got,        \* the last line it got, or 0
    cut         \* the line it may miss, or 0

vars == <<log, open, from, got, cut>>

Init == log = <<>> /\ open = FALSE /\ from = 0 /\ got = 0 /\ cut = 0

AppendLines == /\ Len(log') > Len(log) /\ SubSeq(log', 1, Len(log)) = log
           /\ UNCHANGED <<open, from, got, cut>>

\* Only the line that is next in the file can be cut.
Connect == /\ ~open /\ open' = TRUE
           /\ from' \in 0..MaxEvents /\ got' = 0
           /\ cut' \in {0, Len(log) + 1}
           /\ UNCHANGED log

Disconnect == /\ open /\ open' = FALSE
              /\ from' = 0 /\ got' = 0 /\ cut' = 0
              /\ UNCHANGED log

Due(i) == i > got /\ i # cut /\ log[i] > from
Give == /\ open
        /\ \E i \in DOMAIN log : /\ Due(i) /\ \A j \in 1..i - 1 : ~Due(j)
                               /\ got' = i
        /\ UNCHANGED <<log, open, from, cut>>

Next == AppendLines \/ Connect \/ Disconnect \/ Give

Spec == Init /\ [][Next]_vars
=============================================================================
