--------------------------- MODULE ServerProofs -----------------------------
(***************************************************************************)
(* The server.  A push is all or nothing, for any projects, archives,      *)
(* number of pushes, and any retention limit: whatever other pushes and    *)
(* the watcher do while it unpacks.  A page that follows a run misses an   *)
(* event only to a named race, and its stream implements EventFeed, for    *)
(* any number of events and faults.                                        *)
(***************************************************************************)
EXTENDS RunStore, LiveEvents, SequenceTheorems, FiniteSetTheorems, TLAPS

IsPush(h) == h = [at |-> h.at, run |-> h.run, archive |-> h.archive, left |-> h.left]
IsDir(d) ==
    d = [entries |-> d.entries, json |-> d.json, tests |-> d.tests, archive |-> d.archive]

(* The handlers and the directories are records, a push whose name is just  *)
(* chosen has all to unpack, and no two pushes have the same run.           *)
Shapes ==
    /\ push = [p \in Pushes |-> push[p]]
    /\ store = [r \in DOMAIN store |-> store[r]]
    /\ \A p \in Pushes : IsPush(push[p])
    /\ \A r \in DOMAIN store : IsDir(store[r])
AllLeft == \A p \in Pushes : push[p].at = "named" => push[p].left = Entries(push[p].archive)
OwnRuns ==
    \A p, q \in Pushes :
        p # q /\ push[p].at # "new" /\ push[q].at # "new" => push[p].run # push[q].run

(* The run.json of a directory: the one of its archive, and what the push   *)
(* makes of it.                                                             *)
Original(r) == LET a == store[r].archive IN
    a.json # "none" /\ store[r].json = a.json /\ store[r].tests = a.listed
Merged(r) == LET a == store[r].archive IN
    /\ store[r].json = IF a.json = "none" THEN "ok" ELSE a.json
    /\ a.json = "none" => store[r].tests = <<>>
    /\ a.json = "ok" => store[r].tests = MergeResults(a.listed, a.results)

(* What the directory of a push has: all that is not left to unpack, and    *)
(* the run.json of the archive, merged once the push is written, or a       *)
(* minimal one.                                                             *)
Unpacked(p) ==
    LET r == push[p].run IN
    /\ r \in DOMAIN store
    /\ store[r].archive = push[p].archive
    /\ Entries(push[p].archive) \ push[p].left \subseteq store[r].entries
    /\ push[p].left \subseteq Entries(push[p].archive)
    /\ push[p].at = "extract" /\ "run.json" \in store[r].entries => Original(r)
    /\ push[p].at \in {"written", "accepted"} =>
           push[p].left = {} /\ "run.json" \in store[r].entries /\ Merged(r)

DirsFilled ==
    \A p \in Pushes : push[p].run \in attempted \/
        /\ push[p].at = "refused" => push[p].run \notin DOMAIN store
        /\ push[p].at \in {"extract", "written", "accepted"} => Unpacked(p)

StoreInv == Shapes /\ AllLeft /\ OwnRuns /\ DirsFilled

-----------------------------------------------------------------------------

LEMMA StoreInvInit == StoreInit => StoreInv
<1> SUFFICES ASSUME StoreInit PROVE StoreInv
    OBVIOUS
<1>1. DOMAIN store = {} /\ store = [r \in DOMAIN store |-> store[r]]
    BY DEF StoreInit
<1>2. push = [p \in Pushes |-> push[p]] /\ \A p \in Pushes : IsPush(push[p]) /\ push[p].at = "new"
    BY DEF StoreInit, IsPush
<1> QED
    BY <1>1, <1>2 DEF StoreInv, Shapes, AllLeft, OwnRuns, DirsFilled

(* Steps of the handlers change their own push and run only.                *)

LEMMA DirUnpacked ==
    ASSUME NEW d, IsDir(d), NEW e
    PROVE  IsDir(Unpack(d, e)) /\ IsDir(Minimal(d))
BY DEF IsDir, Unpack, Minimal

LEMMA ShapesStep == StoreInv /\ [StoreNext]_storeVars => Shapes'
<1> SUFFICES ASSUME StoreInv, [StoreNext]_storeVars PROVE Shapes'
    OBVIOUS
<1> USE DEF StoreInv, Shapes, IsPush, IsDir, Goto, RemoveDir
<1>1. ASSUME NEW p \in Pushes, PushBegin(p) PROVE Shapes'
    <2>1. store' = store
        BY <1>1 DEF PushBegin
    <2>2. PICK new : IsPush(new) /\ push' = [push EXCEPT ![p] = new]
        <3>1. PICK project \in Projects, uuid \in Pushes, a \in Archives :
                  push' = [push EXCEPT ![p] = [at |-> "named", run |-> <<project, now, uuid>>,
                                               archive |-> a, left |-> Entries(a)]]
            BY <1>1 DEF PushBegin
        <3> QED
            BY <3>1
    <2>3. push' = [q \in Pushes |-> push'[q]] /\ \A q \in Pushes : IsPush(push'[q])
        <3> USE DEF IsPush
        <3> QED
            BY <2>2
    <2> QED
        BY <2>1, <2>3
<1>2. ASSUME NEW p \in Pushes, PushCreateDir(p) PROVE Shapes'
    BY <1>2 DEF PushCreateDir, EmptyDir
<1>3. ASSUME NEW p \in Pushes, PushExtract(p) PROVE Shapes'
    <2>1. PICK e : /\ store' = [store EXCEPT ![push[p].run] = Unpack(@, e)]
                   /\ push' = [push EXCEPT ![p].left = @ \ {e}]
        BY <1>3 DEF PushExtract
    <2>2. push' = [q \in Pushes |-> push'[q]] /\ \A q \in Pushes : IsPush(push'[q])
        BY <2>1
    <2>3. \A r \in DOMAIN store : IsDir(Unpack(store[r], e))
        BY DirUnpacked
    <2>4. store' = [r \in DOMAIN store' |-> store'[r]] /\ \A r \in DOMAIN store' : IsDir(store'[r])
        BY <2>1, <2>3
    <2> QED
        BY <2>2, <2>4
<1>4. ASSUME NEW p \in Pushes, PushExtractFails(p) PROVE Shapes'
    BY <1>4 DEF PushExtractFails
<1>5. ASSUME NEW p \in Pushes, PushManifest(p) PROVE Shapes'
    <2>1. \A r \in DOMAIN store : IsDir(Minimal(store[r]))
        BY DirUnpacked
    <2>2. push' = [push EXCEPT ![p].at = "written"]
        BY <1>5 DEF PushManifest
    <2>3. push' = [q \in Pushes |-> push'[q]] /\ \A q \in Pushes : IsPush(push'[q])
        BY <2>2
    <2>4. PICK tests : \/ store' = store
                       \/ store' = [store EXCEPT ![push[p].run] = Minimal(@)]
                       \/ store' = [store EXCEPT ![push[p].run].tests = tests]
        BY Zenon, <1>5 DEF PushManifest
    <2>5. store' = [r \in DOMAIN store' |-> store'[r]] /\ \A r \in DOMAIN store' : IsDir(store'[r])
        BY <2>1, <2>4
    <2> QED
        BY <2>3, <2>5
<1>6. ASSUME NEW p \in Pushes, PushReply(p) PROVE Shapes'
    BY <1>6 DEF PushReply
<1>7. CASE RemoveRun
    BY ZenonT(30), <1>7 DEF RemoveRun
<1>8. CASE Wake \/ Measure \/ Sort \/ Sleep \/ Tick \/ UNCHANGED storeVars
    BY <1>8 DEF Wake, Measure, Sort, Sleep, Tick, storeVars
<1> QED
    BY <1>1, <1>2, <1>3, <1>4, <1>5, <1>6, <1>7, <1>8 DEF StoreNext

LEMMA AllLeftStep == StoreInv /\ [StoreNext]_storeVars => AllLeft'
<1> SUFFICES ASSUME StoreInv, [StoreNext]_storeVars PROVE AllLeft'
    OBVIOUS
<1> USE DEF StoreInv, Shapes, IsPush, AllLeft, Goto
<1>1. ASSUME NEW p \in Pushes, PushBegin(p) PROVE AllLeft'
    BY <1>1 DEF PushBegin
<1>2. ASSUME NEW p \in Pushes, PushExtract(p) PROVE AllLeft'
    BY <1>2 DEF PushExtract
<1>3. ASSUME NEW p \in Pushes, PushCreateDir(p) \/ PushReply(p) PROVE AllLeft'
    BY <1>3 DEF PushCreateDir, PushReply
<1>4. ASSUME NEW p \in Pushes, PushExtractFails(p) \/ PushManifest(p) PROVE AllLeft'
    BY <1>4 DEF PushExtractFails, PushManifest
<1>5. CASE RemoveRun \/ Wake \/ Measure \/ Sort \/ Sleep \/ Tick \/ UNCHANGED storeVars
    BY <1>5 DEF RemoveRun, Wake, Measure, Sort, Sleep, Tick, storeVars
<1> QED
    BY <1>1, <1>2, <1>3, <1>4, <1>5 DEF StoreNext

LEMMA OwnRunsStep == StoreInv /\ [StoreNext]_storeVars => OwnRuns'
<1> SUFFICES ASSUME StoreInv, [StoreNext]_storeVars PROVE OwnRuns'
    OBVIOUS
<1> USE DEF StoreInv, Shapes, IsPush, OwnRuns, Goto
<1>1. ASSUME NEW p \in Pushes, PushBegin(p) PROVE OwnRuns'
    <2>1. PICK project \in Projects, uuid \in Pushes, a \in Archives :
             /\ \A q \in Pushes : push[q].at # "new" => push[q].run[3] # uuid
             /\ push' = [push EXCEPT ![p] = [at |-> "named", run |-> <<project, now, uuid>>,
                                             archive |-> a, left |-> Entries(a)]]
        BY <1>1 DEF PushBegin
    <2>2. \A q \in Pushes : push[q].at # "new" => push[q].run # <<project, now, uuid>>
        BY <2>1
    <2> QED
        BY <2>1, <2>2
<1>2. ASSUME NEW p \in Pushes,
             PushCreateDir(p) \/ PushExtract(p) \/ PushExtractFails(p) \/ PushManifest(p) \/ PushReply(p)
      PROVE  OwnRuns'
    <2>1. push[p].at # "new"
        BY <1>2 DEF PushCreateDir, PushExtract, PushExtractFails, PushManifest,
           PushReply
    <2>2. \A q \in Pushes : push'[q].run = push[q].run /\ (q # p => push'[q].at = push[q].at)
        <3>1. CASE PushExtract(p)
            BY <3>1 DEF PushExtract
        <3>2. CASE PushCreateDir(p) \/ PushReply(p)
            BY <3>2 DEF PushCreateDir, PushReply
        <3>3. CASE PushExtractFails(p) \/ PushManifest(p)
            BY <3>3 DEF PushExtractFails, PushManifest
        <3> QED
            BY <1>2, <3>1, <3>2, <3>3
    <2> QED
        BY <2>1, <2>2
<1>3. CASE RemoveRun \/ Wake \/ Measure \/ Sort \/ Sleep \/ Tick \/ UNCHANGED storeVars
    BY <1>3 DEF RemoveRun, Wake, Measure, Sort, Sleep, Tick, storeVars
<1> QED
    BY <1>1, <1>2, <1>3 DEF StoreNext

\* A push whose run and directory a step leaves alone.
LEMMA Untouched ==
    ASSUME NEW q \in Pushes, DirsFilled, push'[q] = push[q],
           push[q].run \in attempted => push[q].run \in attempted',
           push[q].run \in DOMAIN store <=> push[q].run \in DOMAIN store',
           push[q].run \in DOMAIN store => store'[push[q].run] = store[push[q].run]
    PROVE  \/ push[q].run \in attempted'
           \/ /\ push'[q].at = "refused" => push'[q].run \notin DOMAIN store'
              /\ push'[q].at \in {"extract", "written", "accepted"} => Unpacked(q)'
BY DEF DirsFilled, Unpacked, Original, Merged

LEMMA FilledStep == StoreInv /\ [StoreNext]_storeVars => DirsFilled'
<1> SUFFICES ASSUME StoreInv, [StoreNext]_storeVars,
                    NEW q \in Pushes, push'[q].run \notin attempted'
             PROVE  /\ push'[q].at = "refused" => push'[q].run \notin DOMAIN store'
                    /\ push'[q].at \in {"extract", "written", "accepted"} => Unpacked(q)'
    BY DEF DirsFilled
<1> USE DEF StoreInv, Shapes, AllLeft, IsPush, IsDir
<1> DEFINE r == push[q].run
           Filled == /\ push'[q].at = "refused" => push'[q].run \notin DOMAIN store'
                     /\ push'[q].at \in {"extract", "written", "accepted"} => Unpacked(q)'
\* Another push has another run: its directory is not the one that changes.
<1>1. ASSUME NEW p \in Pushes, p # q, push[p].at # "new", push[q].at # "new",
             push' = [push EXCEPT ![p] = push'[p]], attempted' = attempted,
             \A s : s # push[p].run =>
                 (s \in DOMAIN store <=> s \in DOMAIN store') /\ (s \in DOMAIN store => store'[s] = store[s])
      PROVE  Filled
    <2>1. push'[q] = push[q] /\ push[q].run # push[p].run
        BY <1>1 DEF OwnRuns
    <2> QED
        BY <1>1, <2>1, Untouched
<1>2. ASSUME NEW p \in Pushes, PushBegin(p) PROVE Filled
    <2>1. CASE p = q
        BY <1>2, <2>1 DEF PushBegin
    <2>2. CASE p # q
        <3>1. push'[q] = push[q] /\ UNCHANGED <<store, attempted>>
            BY <1>2, <2>2 DEF PushBegin
        <3> QED
            BY <3>1, Untouched
    <2> QED
        BY <2>1, <2>2
<1>3. ASSUME NEW p \in Pushes, PushCreateDir(p) PROVE Filled
    <2>1. CASE p = q
        <3>1. push'[q].run = r /\ push'[q].at = "extract" /\ push'[q].archive = push[q].archive
                 /\ push'[q].left = Entries(push[q].archive)
            BY <1>3, <2>1 DEF PushCreateDir, Goto
        <3>2. r \in DOMAIN store'
                 /\ store'[r] = EmptyDir(push[q].archive)
            BY <1>3, <2>1 DEF PushCreateDir
        <3> QED
            BY <3>1, <3>2 DEF Unpacked, EmptyDir
    <2>2. CASE p # q
        BY <1>1, <1>3, <2>2 DEF PushCreateDir, Goto
    <2> QED
        BY <2>1, <2>2
<1>4. ASSUME NEW p \in Pushes, PushExtract(p) PROVE Filled
    <2>2. CASE p # q
        BY <1>1, <1>4, <2>2 DEF PushExtract
    <2>1. CASE p = q
        <3>1. Unpacked(q)
            BY <1>4, <2>1 DEF PushExtract, DirsFilled
        <3>2. PICK e \in push[p].left :
                 /\ store' = [store EXCEPT ![r] = Unpack(@, e)]
                 /\ push' = [push EXCEPT ![p].left = @ \ {e}]
            BY <1>4, <2>1 DEF PushExtract
        <3>3. push'[q].run = r /\ push'[q].at = "extract" /\ push'[q].archive = push[q].archive
                 /\ push'[q].left = push[q].left \ {e}
            BY <1>4, <2>1, <3>2 DEF PushExtract
        <3>4. DOMAIN store' = DOMAIN store /\ store'[r] = Unpack(store[r], e) /\ IsDir(store[r])
              /\ r \in DOMAIN store
            BY <3>1, <3>2 DEF Unpacked
        <3>5. /\ store'[r].archive = store[r].archive /\ store'[r].entries = store[r].entries \cup {e}
              /\ store'[r].json = IF e = "run.json" THEN store[r].archive.json ELSE store[r].json
              /\ store'[r].tests = IF e = "run.json" THEN store[r].archive.listed ELSE store[r].tests
            BY <3>4 DEF Unpack
        <3>6. e = "run.json" => push[q].archive.json # "none"
            BY <2>1, <3>1, <3>2 DEF Unpacked, Entries
        <3>7. push[q].at = "extract" /\ store[r].archive = push[q].archive
            BY <1>4, <2>1, <3>1 DEF PushExtract, Unpacked
        <3>8. "run.json" \in store'[r].entries => Original(r)'
            BY <3>1, <3>3, <3>5, <3>6, <3>7 DEF Unpacked, Original
        <3> QED
            BY <2>1, <3>1, <3>2, <3>3, <3>4, <3>5, <3>7, <3>8 DEF Unpacked
    <2> QED
        BY <2>1, <2>2
<1>5. ASSUME NEW p \in Pushes, PushExtractFails(p) PROVE Filled
    <2>1. CASE p = q
        BY <1>5, <2>1 DEF PushExtractFails, Goto, RemoveDir
    <2>2. CASE p # q
        BY <1>1, <1>5, <2>2 DEF PushExtractFails, Goto, RemoveDir
    <2> QED
        BY <2>1, <2>2
<1>6. ASSUME NEW p \in Pushes, PushManifest(p) PROVE Filled
    <2>2. CASE p # q
        BY <1>1, <1>6, <2>2 DEF PushManifest, Goto
    <2>1. CASE p = q
        <3>1. Unpacked(q) /\ push[q].left = {} /\ push[q].at = "extract"
            BY <1>6, <2>1 DEF PushManifest, DirsFilled, Goto
        <3>2. push'[q] = [push[q] EXCEPT !.at = "written"]
            BY <1>6, <2>1 DEF PushManifest, Goto
        <3>3. r \in DOMAIN store /\ store[r].archive = push[q].archive /\ IsDir(store[r])
              /\ Entries(push[q].archive) \subseteq store[r].entries
            BY <3>1 DEF Unpacked
        <3>4. push'[q].run = push[q].run
            BY <3>2
        <3>5. ResultsOf(r) = push[q].archive.results
            BY <3>3 DEF ResultsOf, Has, Entries
        <3>6. /\ DOMAIN store' = DOMAIN store /\ store'[r].archive = store[r].archive
              /\ store[r].entries \subseteq store'[r].entries /\ "run.json" \in store'[r].entries
              /\ Merged(r)'
            <4>1. CASE ~Has(r, "run.json")
                <5>1. store' = [store EXCEPT ![r] = Minimal(@)]
                    BY <1>6, <2>1, <3>3, <4>1 DEF PushManifest
                <5>2. DOMAIN store' = DOMAIN store /\ store'[r] = Minimal(store[r])
                    BY <3>3, <5>1
                <5>3. push[q].archive.json = "none"
                    BY <3>3, <4>1 DEF Has, Entries
                <5> QED
                    BY <3>3, <3>4, <5>2, <5>3 DEF Minimal, Merged
            <4>2. CASE Has(r, "run.json")
                <5>1. Original(r) /\ "run.json" \in store[r].entries
                    BY <3>1, <4>2 DEF Unpacked, Has
                <5>2. CASE store[r].json = "ok"
                    <6>1. store' = [store EXCEPT ![r].tests = MergeResults(@, ResultsOf(r))]
                        BY <1>6, <2>1, <3>3, <4>2, <5>2 DEF PushManifest
                    <6>2. DOMAIN store' = DOMAIN store
                          /\ store'[r] = [store[r] EXCEPT !.tests = MergeResults(store[r].tests, ResultsOf(r))]
                        BY <3>3, <6>1
                    <6>3. /\ store'[r].tests = MergeResults(store[r].tests, ResultsOf(r))
                          /\ store'[r].archive = store[r].archive /\ store'[r].entries = store[r].entries
                          /\ store'[r].json = store[r].json
                        BY <3>3, <6>2
                    <6> QED
                        BY <3>3, <3>5, <3>4, <5>1, <5>2, <6>2, <6>3 DEF Original, Merged
                <5>3. CASE store[r].json # "ok"
                    <6>1. store' = store
                        BY <1>6, <2>1, <3>3, <4>2, <5>3 DEF PushManifest
                    <6>2. store[r].archive.json # "ok" /\ store[r].archive.json # "none"
                        BY <5>1, <5>3 DEF Original
                    <6> QED
                        BY <3>3, <3>4, <5>1, <5>3, <6>1, <6>2 DEF Original, Merged
                <5> QED
                    BY <5>2, <5>3
            <4> QED
                BY <4>1, <4>2
        <3> QED
            BY <3>1, <3>2, <3>3, <3>6 DEF Unpacked
    <2> QED
        BY <2>1, <2>2
<1>7. ASSUME NEW p \in Pushes, PushReply(p) PROVE Filled
    <2>1. CASE p = q
        <3>1. Unpacked(q) /\ UNCHANGED store
            BY <1>7, <2>1 DEF PushReply, DirsFilled, Goto
        <3>2. push'[q] = [push[q] EXCEPT !.at = "accepted"]
            BY <1>7, <2>1 DEF PushReply, Goto
        <3>3. push[q].left = {} /\ "run.json" \in store[r].entries /\ Merged(r)
            BY <1>7, <2>1, <3>1 DEF PushReply, Unpacked
        <3> QED
            BY <3>1, <3>2, <3>3 DEF Unpacked, Merged
    <2>2. CASE p # q
        <3>1. push'[q] = push[q] /\ UNCHANGED <<store, attempted>>
            BY <1>7, <2>2 DEF PushReply, Goto
        <3> QED
            BY <3>1, Untouched
    <2> QED
        BY <2>1, <2>2
\* What the watcher removes, whole or in part, it has tried to remove.
<1>8. CASE RemoveRun
    <2>1. push' = push /\ attempted' = attempted \cup {Head(watcher.runs)}
        BY <1>8 DEF RemoveRun
    <2>2. r # Head(watcher.runs)
        BY <2>1
    <2>3. (r \in DOMAIN store <=> r \in DOMAIN store') /\ (r \in DOMAIN store => store'[r] = store[r])
        BY ZenonT(30), <1>8, <2>2 DEF RemoveRun, RemoveDir
    <2> QED
        BY <2>1, <2>3, Untouched
<1>9. CASE Wake \/ Measure \/ Sort \/ Sleep \/ Tick \/ UNCHANGED storeVars
    <2>1. UNCHANGED <<push, store, attempted>>
        BY <1>9 DEF Wake, Measure, Sort, Sleep, Tick, storeVars
    <2> QED
        BY <2>1, Untouched
<1> QED
    BY <1>2, <1>3, <1>4, <1>5, <1>6, <1>7, <1>8, <1>9 DEF StoreNext

LEMMA StoreAlways == StoreSpec => []StoreInv
<1>1. StoreInv /\ [StoreNext]_storeVars => StoreInv'
    BY ShapesStep, AllLeftStep, OwnRunsStep, FilledStep DEF StoreInv
<1> QED
    BY StoreInvInit, <1>1, PTL DEF StoreSpec

(* A refused push leaves no directory, and an accepted one is complete and  *)
(* listed, unless the watcher has taken its run (lib.rs:1004-1190), for any *)
(* number of concurrent pushes of any archives.                             *)
THEOREM AllOrNothing == StoreSpec => []PushAllOrNothing
<1>1. StoreInv => PushAllOrNothing
    <2> SUFFICES ASSUME StoreInv, NEW p \in Pushes
                 PROVE  LET r == push[p].run IN
                        /\ push[p].at = "refused" => r \notin DOMAIN store \/ r \in attempted
                        /\ push[p].at = "accepted" /\ r \notin attempted =>
                               /\ \A e \in Entries(push[p].archive) \cup {"run.json"} : Has(r, e)
                               /\ Discovered(r) # {}
        BY DEF PushAllOrNothing
    <2> DEFINE r == push[p].run
    <2>1. push[p].at = "refused" => r \notin DOMAIN store \/ r \in attempted
        BY DEF StoreInv, DirsFilled
    <2>2. ASSUME push[p].at = "accepted", r \notin attempted
          PROVE  \A e \in Entries(push[p].archive) \cup {"run.json"} : Has(r, e)
        BY <2>2 DEF StoreInv, DirsFilled, Unpacked, Has
    <2>3. ASSUME push[p].at = "accepted", r \notin attempted
          PROVE  Discovered(r) # {}
        <3>1. Has(r, "run.json")
            BY <2>2, <2>3
        <3>2. CASE DirsOf(r) = {}
            BY <3>1, <3>2 DEF Discovered
        <3>3. CASE DirsOf(r) # {}
            <4>1. PICK d : d \in DirsOf(r)
                BY <3>3
            <4>2. <<r, d>> \in Discovered(r)
                BY <3>3, <4>1 DEF Discovered
            <4> QED
                BY <4>2
        <3> QED
            BY <3>2, <3>3
    <2> QED
        BY <2>1, <2>2, <2>3
<1> QED
    BY StoreAlways, <1>1, PTL
----------------------------------------------------------------------------
(* The tests of a run. *)

(* Picked takes all that is at the indices, and nothing else.               *)
LEMMA PickedAll ==
    ASSUME NEW s, NEW n \in Nat, NEW I \in SUBSET (1..n)
    PROVE  /\ Cardinality(I) \in Nat
           /\ DOMAIN Picked(s, I) = 1..Cardinality(I)
           /\ \A k \in 1..Cardinality(I) : \E i \in I : Picked(s, I)[k] = s[i]
           /\ \A i \in I : \E k \in 1..Cardinality(I) : Picked(s, I)[k] = s[i]
<1>1. PICK below : below = [i \in I |-> {j \in I : j <= i}]
    OBVIOUS
<1>2. IsFiniteSet(I) /\ Cardinality(I) \in Nat
    <2>1. IsFiniteSet(1..n)
        BY FS_Interval
    <2>. QED  BY <2>1, FS_Subset, FS_CardinalityType
<1>3. ASSUME NEW i \in I PROVE IsFiniteSet(below[i]) /\ Cardinality(below[i]) \in 1..Cardinality(I)
    <2>1. below[i] \in SUBSET I /\ i \in below[i]
        BY <1>1
    <2>2. IsFiniteSet(below[i]) /\ Cardinality(below[i]) <= Cardinality(I)
        BY <1>2, <2>1, FS_Subset
    <2>3. Cardinality(below[i]) \in Nat /\ Cardinality(below[i]) # 0
        BY <2>1, <2>2, FS_CardinalityType, FS_EmptySet
    <2>. QED  BY <1>2, <2>2, <2>3
<1>4. ASSUME NEW i \in I, NEW j \in I, i < j PROVE Cardinality(below[i]) # Cardinality(below[j])
    <2>1. \A x \in I : x \in Nat
        OBVIOUS
    <2>2. below[i] = {x \in I : x <= i} /\ below[j] = {x \in I : x <= j}
        BY <1>1
    <2>3. \A x \in I : x <= i => x <= j
        BY <1>4, <2>1
    <2>4. below[i] \in SUBSET below[j]
        BY <2>2, <2>3
    <2>5. j <= j /\ ~(j <= i)
        BY <1>4, <2>1
    <2>6. j \in below[j] /\ j \notin below[i]
        BY <2>2, <2>5
    <2>7. IsFiniteSet(below[j])
        BY <1>3
    <2>. QED  BY <2>4, <2>6, <2>7, FS_Subset
<1>5. PICK f : f = [i \in I |-> Cardinality(below[i])]
    OBVIOUS
<1>6. \A i, j \in I : f[i] = f[j] => i = j
    <2> SUFFICES ASSUME NEW i \in I, NEW j \in I, i # j PROVE f[i] # f[j]
        OBVIOUS
    <2>1. i < j \/ j < i
        OBVIOUS
    <2>. QED  BY <1>4, <1>5, <2>1
<1>7. f \in Injection(I, 1..Cardinality(I))
    BY <1>3, <1>5, <1>6 DEF Injection, IsInjective
<1>8. f \in Surjection(I, 1..Cardinality(I))
    <2>1. IsFiniteSet(1..Cardinality(I)) /\ Cardinality(1..Cardinality(I)) = Cardinality(I)
        BY <1>2, FS_Interval
    <2>. QED  BY <1>7, <2>1, FS_Injection
<1>9. \A k \in 1..Cardinality(I) : \E i \in I : f[i] = k
    BY <1>8 DEF Surjection
<1>10. \A k \in 1..Cardinality(I) : LET i == CHOOSE i \in I : Cardinality({j \in I : j <= i}) = k
                                    IN  i \in I /\ f[i] = k
    <2> SUFFICES ASSUME NEW k \in 1..Cardinality(I)
                 PROVE  LET i == CHOOSE i \in I : Cardinality({j \in I : j <= i}) = k
                        IN  i \in I /\ f[i] = k
        OBVIOUS
    <2>1. \A i \in I : f[i] = Cardinality({j \in I : j <= i})
        BY <1>1, <1>5
    <2>. QED  BY <1>9, <2>1
<1>11. \A k \in 1..Cardinality(I) :
           \E i \in I : f[i] = k /\ Picked(s, I)[k] = s[i]
    BY <1>10 DEF Picked
<1>12. \A i \in I : \E k \in 1..Cardinality(I) : Picked(s, I)[k] = s[i]
    <2> SUFFICES ASSUME NEW i \in I PROVE \E k \in 1..Cardinality(I) : Picked(s, I)[k] = s[i]
        OBVIOUS
    <2>1. f[i] \in 1..Cardinality(I)
        BY <1>3, <1>5
    <2>2. PICK j \in I : f[j] = f[i] /\ Picked(s, I)[f[i]] = s[j]
        BY <1>11, <2>1
    <2>. QED  BY <1>6, <2>1, <2>2
<1>13. DOMAIN Picked(s, I) = 1..Cardinality(I)
    BY DEF Picked
<1>. QED  BY <1>2, <1>11, <1>12, <1>13

(* A set of indices has a last one.                                         *)
LEMMA LastIndex ==
    ASSUME NEW n \in Nat, NEW I \in SUBSET (1..n), I # {}
    PROVE  Max(I) \in I
<1>1. PICK T : T = {n - i : i \in I}
    OBVIOUS
<1>2. T \subseteq Nat /\ T # {}
    <2>1. \A i \in I : i \in Nat /\ n - i \in Nat
        OBVIOUS
    <2>2. T \subseteq Nat
        BY <1>1, <2>1
    <2>3. PICK i : i \in I
        OBVIOUS
    <2>. QED  BY <1>1, <2>2, <2>3
<1>3. PICK x \in T : \A y \in T : ~ (<<y, x>> \in OpToRel(<, Nat))
    <2>1. \E x \in T : \A y \in T : ~ (<<y, x>> \in OpToRel(<, Nat))
        BY <1>2, NatLessThanWellFounded, WFMin
    <2>. QED  BY <2>1
<1>4. \A y \in T : ~ (y < x)
    BY <1>2, <1>3 DEF OpToRel
<1>5. PICK i \in I : x = n - i
    BY <1>1
<1>6. \A j \in I : i >= j
    <2> SUFFICES ASSUME NEW j \in I PROVE i >= j
        OBVIOUS
    <2>1. n - j \in T
        BY <1>1
    <2>2. ~ (n - j < n - i)
        BY <1>4, <1>5, <2>1
    <2>3. i \in Nat /\ j \in Nat
        OBVIOUS
    <2>. QED  BY <2>2, <2>3
<1>. QED  BY <1>6 DEF Max

(* A sequence taken from another one is a sequence.                         *)
LEMMA PickedSeq ==
    ASSUME NEW S, NEW s, NEW n \in Nat, NEW I \in SUBSET (1..n), \A i \in 1..n : s[i] \in S
    PROVE  Picked(s, I) \in Seq(S)
<1>1. PICK c \in Nat : c = Cardinality(I)
    BY PickedAll
<1>2. PICK p : p = Picked(s, I)
    OBVIOUS
<1>3. DOMAIN p = 1..c /\ \A k \in 1..c : \E i \in I : p[k] = s[i]
    BY <1>1, <1>2, PickedAll
<1>4. \A k \in 1..c : p[k] \in S
    BY <1>3
<1>5. p = [k \in 1..c |-> p[k]]
    BY <1>1, <1>3, <1>2 DEF Picked
<1>6. p \in Seq(S)
    BY <1>4, <1>5, IsASeq
<1>. QED  BY <1>6, <1>2

(* What two sequences have, their concatenation has.                        *)
LEMMA ConcatHas ==
    ASSUME NEW S, NEW s \in Seq(S), NEW t \in Seq(S)
    PROVE  /\ s \o t \in Seq(S)
           /\ \A k \in DOMAIN s : k \in DOMAIN (s \o t) /\ (s \o t)[k] = s[k]
           /\ \A k \in DOMAIN t : Len(s) + k \in DOMAIN (s \o t) /\ (s \o t)[Len(s) + k] = t[k]
<1>1. s \o t \in Seq(S) /\ Len(s \o t) = Len(s) + Len(t)
    BY ConcatProperties
<1>2. \A k \in 1..(Len(s) + Len(t)) : (s \o t)[k] = IF k <= Len(s) THEN s[k] ELSE t[k - Len(s)]
    BY ConcatProperties
<1>3. Len(s) \in Nat /\ Len(t) \in Nat /\ DOMAIN s = 1..Len(s) /\ DOMAIN t = 1..Len(t)
      /\ DOMAIN (s \o t) = 1..(Len(s) + Len(t))
    BY <1>1, LenProperties
<1>4. ASSUME NEW k \in DOMAIN t
      PROVE  Len(s) + k \in DOMAIN (s \o t) /\ (s \o t)[Len(s) + k] = t[k]
    <2>1. Len(s) + k \in 1..(Len(s) + Len(t)) /\ ~(Len(s) + k <= Len(s)) /\ Len(s) + k - Len(s) = k
        BY <1>3
    <2>. QED  BY <1>2, <1>3, <2>1
<1>5. ASSUME NEW k \in DOMAIN s
      PROVE  k \in DOMAIN (s \o t) /\ (s \o t)[k] = s[k]
    <2>1. k \in 1..(Len(s) + Len(t)) /\ k <= Len(s)
        BY <1>3
    <2>. QED  BY <1>2, <1>3, <2>1
<1>. QED  BY <1>1, <1>4, <1>5

(* The results merged into a list: all that was said, and nothing else.     *)
LEMMA MergedResults ==
    ASSUME NEW a, NEW S, a.listed \in Seq(S), a.results \in Seq(S), OneAnswer(a)
    PROVE  LET m == MergeResults(a.listed, a.results) IN
           /\ m \in Seq(S)
           /\ \A x \in Said(a) : \E k \in DOMAIN m : m[k] = x
           /\ \A k \in DOMAIN m : m[k] \in Said(a)
<1>1. PICK n \in Nat, l \in Nat : DOMAIN a.results = 1..n /\ DOMAIN a.listed = 1..l /\ l = Len(a.listed)
    BY LenProperties
<1>2. PICK I : I = {k \in DOMAIN a.results : \A i \in DOMAIN a.listed :
                       ~(a.listed[i].kind = "nextest" /\ a.listed[i].test = a.results[k].test)}
    OBVIOUS
<1>3. PICK p : p = Picked(a.results, I)
    OBVIOUS
<1>4. I \in SUBSET (1..n)
    BY <1>1, <1>2
<1>5. p \in Seq(S)
    <2>1. \A i \in 1..n : a.results[i] \in S
        BY <1>1, ElementOfSeq
    <2>. QED  BY <1>3, <1>4, <2>1, PickedSeq
<1>6. MergeResults(a.listed, a.results) = a.listed \o p
    BY <1>2, <1>3 DEF MergeResults
<1>7. PICK c \in Nat : /\ DOMAIN p = 1..c
                       /\ \A k \in 1..c : \E i \in I : p[k] = a.results[i]
                       /\ \A i \in I : \E k \in 1..c : p[k] = a.results[i]
    <2>1. /\ Cardinality(I) \in Nat /\ DOMAIN p = 1..Cardinality(I)
          /\ \A k \in 1..Cardinality(I) : \E i \in I : p[k] = a.results[i]
          /\ \A i \in I : \E k \in 1..Cardinality(I) : p[k] = a.results[i]
        <3>1. /\ Cardinality(I) \in Nat /\ DOMAIN Picked(a.results, I) = 1..Cardinality(I)
              /\ \A k \in 1..Cardinality(I) : \E i \in I : Picked(a.results, I)[k] = a.results[i]
              /\ \A i \in I : \E k \in 1..Cardinality(I) : Picked(a.results, I)[k] = a.results[i]
            BY Zenon, <1>4, PickedAll
        <3>. QED  BY Zenon, <1>3, <3>1
    <2>. QED  BY <2>1
<1>8. PICK m : m = a.listed \o p
    OBVIOUS
<1>9. /\ m \in Seq(S)
      /\ \A k \in 1..l : k \in DOMAIN m /\ m[k] = a.listed[k]
      /\ \A k \in 1..c : l + k \in DOMAIN m /\ m[l + k] = p[k]
    <2>1. /\ m \in Seq(S)
          /\ \A k \in DOMAIN a.listed : k \in DOMAIN m /\ m[k] = a.listed[k]
          /\ \A k \in DOMAIN p : Len(a.listed) + k \in DOMAIN m /\ m[Len(a.listed) + k] = p[k]
        BY <1>5, <1>8, ConcatHas
    <2>. QED  BY <1>1, <1>7, <2>1
<1>10. DOMAIN m = 1..(l + c)
    <2>1. Len(p) = c
        BY <1>5, <1>7, LenProperties
    <2>2. Len(m) = l + c
        BY <1>1, <1>5, <1>8, <2>1, ConcatProperties
    <2>. QED  BY <1>9, <2>2, LenProperties
<1>11. ASSUME NEW k \in DOMAIN m PROVE m[k] \in Said(a)
    <2>1. CASE k <= l
        <3>1. k \in 1..l
            BY <1>1, <1>10, <2>1
        <3>. QED  BY <1>1, <1>9, <3>1 DEF Said, Range
    <2>2. CASE ~(k <= l)
        <3>1. PICK j \in 1..c : k = l + j
            <4>1. k - l \in 1..c /\ k = l + (k - l)
                BY <1>1, <1>10, <2>2
            <4>. QED  BY <4>1
        <3>2. PICK i \in I : m[k] = a.results[i]
            <4>1. m[k] = p[j]
                BY <1>9, <3>1
            <4>2. \E i \in I : p[j] = a.results[i]
                BY <1>7, <3>1
            <4>. QED  BY <4>1, <4>2
        <3>. QED  BY <1>2, <3>2 DEF Said, Range
    <2>. QED  BY <2>1, <2>2
<1>12. ASSUME NEW x \in Said(a) PROVE \E k \in DOMAIN m : m[k] = x
    <2>1. CASE x \in Range(a.listed)
        <3>1. PICK i \in 1..l : x = a.listed[i]
            BY <1>1, <2>1 DEF Range
        <3>. QED  BY <1>9, <3>1
    <2>2. CASE x \in Range(a.results)
        <3>1. PICK i \in DOMAIN a.results : x = a.results[i]
            BY <2>2 DEF Range
        <3>2. CASE i \in I
            <4>1. PICK k \in 1..c : p[k] = x
                BY <1>7, <3>1, <3>2
            <4>. QED  BY <1>9, <4>1
        <3>3. CASE i \notin I
            <4>1. PICK j \in DOMAIN a.listed : a.listed[j].test = x.test
                BY <1>2, <3>1, <3>3
            <4>2. a.listed[j] \in Said(a)
                BY DEF Said, Range
            <4>3. a.listed[j] = x
                BY <4>1, <4>2 DEF OneAnswer
            <4>. QED  BY <1>1, <1>9, <4>3
        <3>. QED  BY <3>2, <3>3
    <2>. QED  BY <2>1, <2>2 DEF Said
<1>. QED  BY <1>6, <1>8, <1>9, <1>11, <1>12

(* A directory list is a sequence that names no directory twice.            *)
LEMMA DirList ==
    ASSUME NEW D, IsFiniteSet(D), NEW dirs \in SetToSeqs(D)
    PROVE  /\ Cardinality(D) \in Nat
           /\ DOMAIN dirs = 1..Cardinality(D)
           /\ \A i \in DOMAIN dirs : dirs[i] \in D
<1>1. Cardinality(D) \in Nat
    BY FS_CardinalityType
<1>2. dirs \in [1..Cardinality(D) -> D]
    BY DEF SetToSeqs
<1>. QED  BY <1>1, <1>2

(* A test that failed is in the list that read_run_json makes.              *)
LEMMA FailureListed ==
    ASSUME NEW a, OneAnswer(a), NEW S, a.listed \in Seq(S), a.results \in Seq(S),
           NEW D, D \subseteq a.dirs, IsFiniteSet(D), NEW dirs \in SetToSeqs(D),
           NEW failed \in Said(a), failed.status = "fail",
           NEW tests, tests = MergeResults(a.listed, a.results),
           NEW m, m = BuildTestList(dirs, tests)
    PROVE  \E U : /\ m \in Seq(U)
                  /\ \E j \in DOMAIN m : m[j].test = failed.test /\ m[j].status = "fail"
<1>1. /\ tests \in Seq(S) /\ \A x \in Said(a) : \E k \in DOMAIN tests : tests[k] = x
      /\ \A k \in DOMAIN tests : tests[k] \in Said(a)
    BY MergedResults
<1>2. PICK n \in Nat : n = Len(tests) /\ DOMAIN tests = 1..n
    BY <1>1, LenProperties
<1>3. \A k \in DOMAIN tests : tests[k] \in Said(a)
    BY <1>1
<1>4. PICK k \in DOMAIN tests : tests[k] = failed
    BY <1>1
<1>5. PICK d \in Nat : DOMAIN dirs = 1..d /\ \A x \in 1..d : dirs[x] \in D
    BY DirList
<1>6. PICK match : match = [x \in DOMAIN tests |-> {y \in 1..d : dirs[y].fn = tests[x].test.fn}]
    OBVIOUS
<1>7. PICK results : results = [y \in 1..d |->
          {x \in DOMAIN tests : match[x] # {} /\ y = Max(match[x])}]
    OBVIOUS
<1>8. PICK entries : entries = [y \in 1..d |->
          Directory(dirs[y], IF results[y] = {} THEN "pass" ELSE tests[Max(results[y])].status)]
    OBVIOUS
<1>9. PICK tail : tail = Picked(tests, {x \in DOMAIN tests : match[x] = {}})
    OBVIOUS
<1>10. m = entries \o tail
    BY <1>5, <1>6, <1>7, <1>8, <1>9 DEF BuildTestList
<1>11. PICK U : U = {entries[y] : y \in 1..d} \cup {tests[x] : x \in 1..n}
    OBVIOUS
<1>12. entries \in Seq(U)
    <2>1. \A y \in 1..d : entries[y] \in U
        BY <1>11
    <2>2. entries = [y \in 1..d |-> entries[y]]
        BY <1>8
    <2>. QED  BY <2>1, <2>2, IsASeq
<1>13. PICK J : J = {x \in DOMAIN tests : match[x] = {}} /\ J \in SUBSET (1..n)
    BY <1>2
<1>14. tail \in Seq(U)
    <2>1. \A x \in 1..n : tests[x] \in U
        BY <1>11
    <2>. QED  BY <1>9, <1>13, <2>1, PickedSeq
<1>15. ASSUME match[k] = {}
      PROVE  \E j \in DOMAIN (entries \o tail) :
              (entries \o tail)[j].test = failed.test /\ (entries \o tail)[j].status = "fail"
    <2>1. k \in J
        BY <1>13, <1>15
    <2>2. tail = Picked(tests, J)
        BY <1>9, <1>13
    <2>3. DOMAIN Picked(tests, J) = 1..Cardinality(J)
          /\ \E x \in 1..Cardinality(J) : Picked(tests, J)[x] = tests[k]
        <3>1. J \in SUBSET (1..n)
            BY <1>13
        <3>. QED  BY <2>1, <3>1, PickedAll
    <2>4. PICK x \in DOMAIN tail : tail[x] = tests[k]
        BY <2>2, <2>3
    <2>5. \A z \in DOMAIN tail : Len(entries) + z \in DOMAIN (entries \o tail)
                               /\ (entries \o tail)[Len(entries) + z] = tail[z]
        BY <1>12, <1>14, ConcatHas
    <2>. QED  BY <1>4, <2>4, <2>5
<1>16. ASSUME match[k] # {}
      PROVE  \E j \in DOMAIN (entries \o tail) :
              (entries \o tail)[j].test = failed.test /\ (entries \o tail)[j].status = "fail"
    <2>1. PICK y : y = Max(match[k]) /\ y \in match[k]
        BY <1>5, <1>6, <1>16, LastIndex
    <2>2. y \in 1..d /\ dirs[y].fn = tests[k].test.fn
        BY <1>6, <2>1
    <2>3. k \in results[y] /\ results[y] \in SUBSET (1..n)
        BY <1>2, <1>7, <1>16, <2>1, <2>2
    <2>4. PICK x : x = Max(results[y]) /\ x \in results[y]
        BY <1>2, <2>3, LastIndex
    <2>5. x \in DOMAIN tests /\ y = Max(match[x]) /\ match[x] # {}
        BY <1>7, <2>2, <2>4
    <2>6. y \in match[x]
        <3>1. match[x] \in SUBSET (1..d)
            BY <1>6, <2>5
        <3>. QED  BY <2>5, <3>1, <1>5, LastIndex
    <2>7. dirs[y].fn = tests[x].test.fn
        BY <1>6, <2>5, <2>6
    <2>8. tests[x] \in Said(a)
        BY <1>3, <2>5
    <2>9. tests[x].test.fn = failed.test.fn
        BY <1>4, <2>2, <2>7
    <2>10. tests[x] = failed
        BY <2>8, <2>9 DEF OneAnswer
    <2>11. dirs[y] = failed.test
        <3>1. dirs[y] \in a.dirs
            BY <1>5, <2>2
        <3>. QED  BY <1>4, <2>2, <3>1 DEF OneAnswer
    <2>12. entries[y] = Directory(dirs[y], tests[x].status)
        BY <1>8, <2>2, <2>3, <2>4
    <2>13. y \in DOMAIN entries
        BY <1>8, <2>2
    <2>14. tests[x].status = "fail"
        BY <2>10
    <2>15. entries[y].test = failed.test /\ entries[y].status = "fail"
        BY <2>11, <2>12, <2>14 DEF Directory
    <2>16. y \in DOMAIN (entries \o tail) /\ (entries \o tail)[y] = entries[y]
        BY <1>12, <1>14, <2>13, ConcatHas
    <2>. QED  BY <2>15, <2>16
<1>17. entries \o tail \in Seq(U)
    BY <1>12, <1>14, ConcatProperties
<1>. QED  BY <1>10, <1>15, <1>16, <1>17

(* What is pushed is one of the archives.                                   *)
ArchivesPushed == \A p \in Pushes : push[p].at # "new" => push[p].archive \in Archives

LEMMA ArchivesAlways == StoreSpec => []ArchivesPushed
<1>1. StoreInit => ArchivesPushed
    BY DEF StoreInit, ArchivesPushed
<1>2. StoreInv /\ ArchivesPushed /\ [StoreNext]_storeVars => ArchivesPushed'
    <2> SUFFICES ASSUME StoreInv, ArchivesPushed, [StoreNext]_storeVars, NEW q \in Pushes,
                        push'[q].at # "new"
                 PROVE  push'[q].archive \in Archives
        BY DEF ArchivesPushed
    <2>1. push = [p \in Pushes |-> push[p]] /\ \A p \in Pushes : IsPush(push[p])
        BY DEF StoreInv, Shapes
    <2>2. push[q].at # "new" => push[q].archive \in Archives
        BY DEF ArchivesPushed
    <2>3. CASE UNCHANGED push
        BY <2>2, <2>3
    <2>4. ASSUME NEW p \in Pushes, PushBegin(p) PROVE push'[q].archive \in Archives
        BY <2>1, <2>2, <2>4 DEF PushBegin, IsPush
    <2>5. ASSUME NEW p \in Pushes, NEW step, Goto(p, step), push[p].at # "new"
          PROVE  push'[q].archive \in Archives
        BY <2>1, <2>2, <2>5 DEF Goto, IsPush
    <2>6. ASSUME NEW p \in Pushes, PushExtract(p) PROVE push'[q].archive \in Archives
        BY <2>1, <2>2, <2>6 DEF PushExtract, IsPush
    <2>7. ASSUME NEW p \in Pushes,
                 PushCreateDir(p) \/ PushExtractFails(p) \/ PushManifest(p) \/ PushReply(p)
          PROVE  push'[q].archive \in Archives
        <3>1. push[p].at # "new" /\ \E step : Goto(p, step)
            BY <2>7 DEF PushCreateDir, PushExtractFails, PushManifest, PushReply
        <3>. QED  BY <2>5, <3>1
    <2>8. CASE Wake \/ Measure \/ Sort \/ RemoveRun \/ Sleep \/ Tick \/ UNCHANGED storeVars
        <3>1. UNCHANGED push
            BY <2>8 DEF Wake, Measure, Sort, RemoveRun, Sleep, Tick, storeVars
        <3>. QED  BY <2>3, <3>1
    <2>. QED  BY <2>4, <2>6, <2>7, <2>8 DEF StoreNext
<1>. QED  BY <1>1, <1>2, StoreAlways, PTL DEF StoreSpec

(* Read from a list without tests, a manifest has the directories only, so  *)
(* every result is merged into it.                                          *)
LEMMA MinimalListed ==
    ASSUME NEW S, NEW results \in Seq(S),
           NEW D, IsFiniteSet(D), NEW dirs \in SetToSeqs(D), NEW x \in Range(results)
    PROVE  \E m : /\ m = MergeResults(BuildTestList(dirs, <<>>), results)
                  /\ \E j \in DOMAIN m : m[j] = x
<1>1. PICK d \in Nat : DOMAIN dirs = 1..d
    BY DirList
<1>2. PICK n \in Nat : DOMAIN results = 1..n
    BY LenProperties
<1>3. PICK entries : entries = [y \in 1..d |-> Directory(dirs[y], "pass")]
    OBVIOUS
<1>4. BuildTestList(dirs, <<>>) = entries
    <2>1. PICK e : e = Picked(<<>>, {})
        OBVIOUS
    <2>2. e = <<>>
        <3>1. {} \in SUBSET (1..0) /\ \A i \in 1..0 : <<>>[i] \in S
            OBVIOUS
        <3>2. Cardinality({}) = 0
            BY FS_EmptySet
        <3>3. DOMAIN e = {}
            BY <2>1, <3>2 DEF Picked
        <3>4. e \in Seq(S)
            BY <2>1, <3>1, PickedSeq
        <3>. QED  BY <3>3, <3>4
    <2>3. PICK T : T = {entries[y] : y \in 1..d}
        OBVIOUS
    <2>4. entries \in Seq(T)
        <3>1. \A y \in 1..d : entries[y] \in T
            BY <2>3
        <3>2. entries = [y \in 1..d |-> entries[y]]
            BY <1>3
        <3>. QED  BY <3>1, <3>2, IsASeq
    <2>5. BuildTestList(dirs, <<>>) = entries \o e
        BY <1>1, <1>3, <2>1 DEF BuildTestList
    <2>. QED  BY <2>2, <2>4, <2>5, ConcatEmptySeq
<1>5. \A i \in 1..d : entries[i].kind = "dir"
    BY <1>3 DEF Directory
<1>6. PICK p : p = Picked(results, 1..n)
    OBVIOUS
<1>7. MergeResults(entries, results) = entries \o p
    <2>1. {k \in DOMAIN results : \A i \in DOMAIN entries :
              ~(entries[i].kind = "nextest" /\ entries[i].test = results[k].test)} = 1..n
        BY <1>2, <1>3, <1>5
    <2>. QED  BY <1>6, <2>1 DEF MergeResults
<1>8. PICK i \in 1..n : x = results[i]
    BY <1>2 DEF Range
<1>9. 1..n \in SUBSET (1..n)
    OBVIOUS
<1>10. PICK k \in DOMAIN p : p[k] = x
    <2>1. /\ DOMAIN p = 1..Cardinality(1..n)
          /\ \A y \in 1..n : \E k \in 1..Cardinality(1..n) : p[k] = results[y]
        BY <1>6, <1>9, PickedAll
    <2>. QED  BY <1>8, <2>1
<1>11. PICK V : V = {entries[y] : y \in 1..d} \cup {results[y] : y \in 1..n}
    OBVIOUS
<1>12. entries \in Seq(V)
    <2>1. \A y \in 1..d : entries[y] \in V
        BY <1>11
    <2>2. entries = [y \in 1..d |-> entries[y]]
        BY <1>3
    <2>. QED  BY <2>1, <2>2, IsASeq
<1>13. p \in Seq(V)
    <2>1. \A y \in 1..n : results[y] \in V
        BY <1>11
    <2>. QED  BY <1>6, <1>9, <2>1, PickedSeq
<1>14. Len(entries) + k \in DOMAIN (entries \o p) /\ (entries \o p)[Len(entries) + k] = x
    BY <1>10, <1>12, <1>13, ConcatHas
<1>. QED  BY <1>4, <1>7, <1>14

(* A test that failed is shown as failed, in the list and on the page of    *)
(* its run (lib.rs:473, lib.rs:982, manifest.rs:166), for any number of     *)
(* pushes of any archives, whatever tests their run.json lists already, in  *)
(* whatever order the directories are read.                                 *)
THEOREM FailedTestsShown == StoreSpec => []FailuresShown
<1>1. StoreInv /\ ArchivesPushed => FailuresShown
    <2> SUFFICES ASSUME StoreInv, ArchivesPushed, NEW p \in Pushes,
                        NEW r, r = push[p].run, NEW a, a = push[p].archive,
                        push[p].at = "accepted", r \notin attempted, OneAnswer(a),
                        NEW failed \in Said(a), failed.status = "fail",
                        NEW tests \in ListedManifests(r) \cup (IF a.json = "ok" THEN Manifests(r) ELSE {})
                 PROVE  \E j \in DOMAIN tests : tests[j].test = failed.test /\ tests[j].status = "fail"
        BY DEF FailuresShown
    <2>1. a \in Archives
        BY DEF ArchivesPushed
    <2>2. r \in DOMAIN store /\ store[r].archive = a /\ Merged(r)
          /\ Entries(a) \subseteq store[r].entries
        BY <2>1 DEF StoreInv, DirsFilled, Unpacked
    <2>3. ResultsOf(r) = a.results
        BY <2>2 DEF ResultsOf, Has, Entries
    <2>4. DirsOf(r) \subseteq a.dirs /\ IsFiniteSet(DirsOf(r))
        <3>1. IsFiniteSet(a.dirs)
            BY <2>1, ArchivesAssumption
        <3>2. DirsOf(r) \subseteq a.dirs
            BY <2>2 DEF DirsOf
        <3>. QED  BY <3>1, <3>2, FS_Subset
    <2>5. PICK S : S = Range(a.results) \cup Range(a.listed)
        OBVIOUS
    <2>6. a.results \in Seq(S) /\ a.listed \in Seq(S)
        <3>1. a.results \in Seq(Range(a.results)) /\ a.listed \in Seq(Range(a.listed))
            BY <2>1, ArchivesAssumption
        <3>. QED  BY <2>5, <3>1, SeqDef
    <2>7. ASSUME NEW m \in Manifests(r), a.json = "ok"
          PROVE  \E U : /\ m \in Seq(U)
                        /\ \E j \in DOMAIN m : m[j].test = failed.test /\ m[j].status = "fail"
        <3>1. PICK dirs \in SetToSeqs(DirsOf(r)) : m = BuildTestList(dirs, store[r].tests)
            BY <2>7 DEF Manifests
        <3>2. store[r].tests = MergeResults(a.listed, a.results)
            BY <2>2, <2>7 DEF Merged
        <3>. QED  BY <2>4, <2>6, <3>1, <3>2, FailureListed
    <2>8. CASE tests \in Manifests(r) /\ a.json = "ok"
        BY <2>7, <2>8
    <2>9. CASE tests \in ListedManifests(r)
        <3>1. PICK m \in Manifests(r) : tests = MergeResults(m, a.results)
            BY <2>3, <2>9 DEF ListedManifests
        <3>2. CASE a.json = "ok"
            <4>1. PICK U : /\ m \in Seq(U)
                           /\ \E j \in DOMAIN m : m[j].test = failed.test /\ m[j].status = "fail"
                BY <2>7, <3>2
            <4>2. PICK n \in Nat : DOMAIN a.results = 1..n
                BY <2>6, LenProperties
            <4>3. PICK I \in SUBSET (1..n) : tests = m \o Picked(a.results, I)
                BY <3>1, <4>2 DEF MergeResults
            <4>4. PICK V : V = U \cup {a.results[k] : k \in 1..n}
                OBVIOUS
            <4>5. m \in Seq(V) /\ Picked(a.results, I) \in Seq(V)
                <5>1. \A k \in 1..n : a.results[k] \in V
                    BY <4>4
                <5>2. m \in Seq(V)
                    BY <4>1, <4>4, SeqDef
                <5>. QED  BY <5>1, <5>2, PickedSeq
            <4>. QED  BY <4>1, <4>3, <4>5, ConcatHas
        <3>3. CASE a.json # "ok"
            <4>1. a.json = "none" /\ store[r].tests = <<>>
                <5>1. a.json \in {"none", "ok"}
                    BY <2>2, <3>1 DEF Manifests, Merged
                <5>. QED  BY <2>2, <3>3, <5>1 DEF Merged
            <4>2. PICK dirs \in SetToSeqs(DirsOf(r)) : m = BuildTestList(dirs, <<>>)
                BY <3>1, <4>1 DEF Manifests
            <4>3. failed \in Range(a.results)
                <5>1. a.listed = <<>>
                    BY <2>1, <3>3, ArchivesAssumption
                <5>. QED  BY <5>1 DEF Said, Range
            <4>4. \E j \in DOMAIN tests : tests[j] = failed
                <5>1. PICK D : D = DirsOf(r)
                    OBVIOUS
                <5>2. dirs \in SetToSeqs(D) /\ IsFiniteSet(D)
                    BY <2>4, <4>2, <5>1
                <5>3. a.results \in Seq(S)
                    BY <2>6
                <5>4. \E t : /\ t = MergeResults(BuildTestList(dirs, <<>>), a.results)
                             /\ \E j \in DOMAIN t : t[j] = failed
                    BY <4>3, <5>2, <5>3, MinimalListed
                <5>. QED  BY <3>1, <4>2, <5>4
            <4>. QED  BY <4>4
        <3>. QED  BY <3>2, <3>3
    <2>. QED  BY <2>8, <2>9
<1>. QED  BY <1>1, StoreAlways, ArchivesAlways, PTL
-----------------------------------------------------------------------------
(* Live events.  The event at a line of the file is overtaken when an       *)
(* earlier line has a higher number; it is accounted for when the page      *)
(* shows it, its load replaced it, or its line was cut.  The invariant is   *)
(* that every event that is not overtaken is accounted for up to the        *)
(* numbers that are asked for: the cursor of the page, and the one its      *)
(* stream was opened with.                                                  *)

Late(i) == \E j \in 1..i - 1 : log[j] > log[i]
Accounted(i) == log[i] \in ToSet(shown) \cup cutBefore \cup dropped
Seen(n) == n = 0 \/ \E i \in 1..Complete : log[i] = n
UpTo(n) == \A i \in 1..Complete : log[i] \in 1..n /\ ~Late(i) => Accounted(i)

FileOk ==
    /\ log \in Seq(0..MaxEvents - 1) /\ disk \in Nat /\ disk <= 2 * Len(log)
    /\ \A i, j \in DOMAIN log : log[i] = log[j] => i = j

(* The lines of the file up to the position are delivered, queued, cut or   *)
(* not asked for; a position within a line is within the one that is cut.   *)
StreamOk ==
    /\ stream \in [at : {"closed", "requested", "streaming"}, after : 0..MaxEvents, pos : Nat,
                   queue : SUBSET Nat, got : Nat, cut : Nat]
    /\ stream.at # "streaming" => stream.got = 0 /\ stream.cut = 0
    /\ stream.at = "streaming" =>
           LET last == stream.pos \div 2 IN
           /\ stream.pos <= disk /\ stream.got <= last
           /\ IF stream.pos = 2 * last + 1 THEN stream.cut = last + 1 ELSE stream.cut <= last
           /\ stream.queue =
                  {i \in stream.got + 1 .. last : i # stream.cut /\ log[i] > stream.after}

LoadOk ==
    /\ load.at # "done" => dropped = {}
    /\ load.events \in Seq(Nat) /\ Len(load.events) <= Complete
    /\ \A i \in DOMAIN load.events : load.events[i] = log[i]

FollowOk ==
    /\ Seen(stream.after) /\ UpTo(stream.after)
    /\ stream.cut # 0 => log[stream.cut] \in cutBefore
    /\ \A i \in 1..stream.got : log[i] > stream.after /\ i # stream.cut =>
           log[i] \in ToSet(shown) \cup dropped

PageOk ==
    /\ shown \in Seq(Nat) /\ lastOpid \in 0..MaxEvents
    /\ Seen(lastOpid) /\ UpTo(lastOpid)

LiveInv == FileOk /\ StreamOk /\ LoadOk /\ FollowOk /\ PageOk

-----------------------------------------------------------------------------

LEMMA Halves ==
    ASSUME NEW n \in Nat
    PROVE  /\ n \div 2 \in Nat /\ (n = 2 * (n \div 2) \/ n = 2 * (n \div 2) + 1)
           /\ n % 2 = 1 <=> n = 2 * (n \div 2) + 1
           /\ (n + 1) \div 2 = IF n = 2 * (n \div 2) THEN n \div 2 ELSE n \div 2 + 1
OBVIOUS

LEMMA HalvesGrow ==
    ASSUME NEW n \in Nat, NEW m \in Nat, n <= m
    PROVE  n \div 2 <= m \div 2
OBVIOUS

\* The complete lines of the file are lines of the log.
LEMMA FileLines ==
    ASSUME NEW l \in Seq(0..MaxEvents - 1), NEW d \in Nat, d <= 2 * Len(l)
    PROVE  /\ d \div 2 \in Nat /\ d \div 2 <= Len(l) /\ Len(l) \in Nat
           /\ DOMAIN l = 1..Len(l)
           /\ \A i \in 1..Len(l) : l[i] \in 0..MaxEvents - 1 /\ l[i] \in Nat
           /\ d = 2 * (d \div 2) \/ (d = 2 * (d \div 2) + 1 /\ d \div 2 + 1 \in 1..Len(l))
           /\ d % 2 = 1 <=> d = 2 * (d \div 2) + 1
<1>1. /\ d \div 2 \in Nat /\ (d = 2 * (d \div 2) \/ d = 2 * (d \div 2) + 1)
      /\ d % 2 = 1 <=> d = 2 * (d \div 2) + 1
    BY Halves
<1>2. Len(l) \in Nat /\ DOMAIN l = 1..Len(l)
    OBVIOUS
<1>3. \A i \in 1..Len(l) : l[i] \in 0..MaxEvents - 1 /\ l[i] \in Nat
    BY LiveEventsAssumption
<1> QED
    BY <1>1, <1>2, <1>3

FileFacts ==
    /\ Complete \in Nat /\ Complete <= Len(log) /\ Len(log) \in Nat
    /\ DOMAIN log = 1..Len(log)
    /\ \A i \in 1..Len(log) : log[i] \in 0..MaxEvents - 1 /\ log[i] \in Nat
    /\ disk = 2 * Complete \/ (disk = 2 * Complete + 1 /\ Complete + 1 \in 1..Len(log))
    /\ disk % 2 = 1 <=> disk = 2 * Complete + 1
LEMMA FileHas == (FileOk => FileFacts) /\ (FileOk' => FileFacts')
BY FileLines DEF FileOk, FileFacts, Complete

\* What the page has read is the file up to some line.
LEMMA ReadableLines ==
    ASSUME FileOk
    PROVE  /\ Readable \in Seq(Nat) /\ Len(Readable) = Complete
           /\ \A i \in 1..Complete : Readable[i] = log[i]
<1>1. Complete \in Nat /\ Complete <= Len(log) /\ log \in Seq(Nat)
    BY FileHas, LiveEventsAssumption DEF FileOk, FileFacts
<1> QED
    BY <1>1, SubSeqProperties DEF Readable

\* The log grows at its end, and the file with it; what is accounted for stays.
Grows ==
    /\ Complete' >= Complete
    /\ Len(log') >= Len(log) /\ \A i \in 1..Len(log) : log'[i] = log[i]
Stays == \A i \in 1..Complete : Accounted(i) => Accounted(i)'

LEMMA UpToStays ==
    ASSUME FileOk, FileOk', Grows, Stays, NEW n \in 0..MaxEvents, Seen(n), UpTo(n)
    PROVE  Seen(n)' /\ UpTo(n)'
<1>0. FileFacts /\ FileFacts'
    BY FileHas
<1>1. \A i \in 1..Complete : i \in 1..Complete' /\ log'[i] = log[i] /\ log[i] \in Nat
    BY <1>0 DEF Grows, FileFacts
<1>2. Seen(n)'
    BY <1>1 DEF Seen
<1>9. /\ Complete \in Nat /\ Complete' \in Nat /\ Complete <= Complete'
      /\ Complete' <= Len(log') /\ Len(log') \in Nat
    BY <1>0 DEF FileFacts, Grows
<1>3. ASSUME NEW i \in 1..Complete', log'[i] \in 1..n, ~Late(i)' PROVE Accounted(i)'
    <2>1. CASE i \in 1..Complete
        <3>1. ASSUME NEW j \in 1..i - 1 PROVE j \in 1..Complete
            BY <1>9, <2>1
        <3>2. \A j \in 1..i - 1 : log[j] > log[i] => log'[j] > log'[i]
            BY <1>1, <2>1, <3>1
        <3>3. ~Late(i)
            BY <1>3, <3>2 DEF Late
        <3> QED
            BY <1>1, <1>3, <2>1, <3>3 DEF UpTo, Stays
    <2>2. CASE i \notin 1..Complete
        <3>1. PICK l \in 1..Complete : log[l] = n
            BY <1>3, LiveEventsAssumption DEF Seen
        <3>2. l \in 1..i - 1 /\ l # i /\ i \in 1..Len(log') /\ l \in 1..Len(log')
            BY <1>9, <2>2
        <3>3. log'[l] # log'[i]
            BY <1>0, <3>2 DEF FileOk, FileFacts
        <3>4. log'[l] = n /\ log'[i] <= n /\ log'[i] \in Nat /\ n \in Nat
            BY <1>0, <1>1, <1>3, <3>1, <3>2, LiveEventsAssumption DEF FileFacts
        <3> QED
            BY <1>3, <3>2, <3>3, <3>4 DEF Late
    <2> QED
        BY <2>1, <2>2
<1> QED
    BY <1>2, <1>3 DEF UpTo

LEMMA LiveInit == Init => LiveInv
<1> SUFFICES ASSUME Init PROVE LiveInv
    OBVIOUS
<1>1. /\ log = <<>> /\ disk = 0 /\ stream = Closed /\ shown = <<>> /\ lastOpid = 0
      /\ load = [at |-> "fetching", events |-> <<>>] /\ dropped = {}
    BY DEF Init
<1>2. FileOk
    BY <1>1 DEF FileOk
<1>3. Complete = 0
    BY <1>1 DEF Complete
<1>4. StreamOk
    BY <1>1, LiveEventsAssumption DEF StreamOk, Closed
<1>5. LoadOk
    BY <1>1, <1>3 DEF LoadOk
<1>6. FollowOk
    BY <1>1, <1>3 DEF FollowOk, Closed, Seen, UpTo
<1>7. PageOk
    BY <1>1, <1>3, LiveEventsAssumption DEF PageOk, Seen, UpTo
<1> QED
    BY <1>2, <1>4, <1>5, <1>6, <1>7 DEF LiveInv

\* The position of a stream is in the file, and the line it has cut in the log.
LEMMA Positions ==
    ASSUME LiveInv
    PROVE  /\ stream.pos \in Nat /\ stream.after \in 0..MaxEvents
           /\ stream.got \in 0..Complete /\ stream.cut \in 0..Len(log)
           /\ stream.at = "streaming" => stream.pos \div 2 \in 0..Complete
<1>1. /\ stream.pos \in Nat /\ stream.after \in 0..MaxEvents /\ stream.got \in Nat /\ stream.cut \in Nat
      /\ stream.at # "streaming" => stream.got = 0 /\ stream.cut = 0
    BY DEF LiveInv, StreamOk
<1>2. FileFacts
    BY FileHas DEF LiveInv
<1>3. CASE stream.at # "streaming"
    BY <1>1, <1>2, <1>3 DEF FileFacts
<1>4. CASE stream.at = "streaming"
    <2>1. PICK last \in Nat : last = stream.pos \div 2
        BY <1>1, Halves
    <2>2. /\ stream.pos <= disk /\ stream.got <= last /\ disk \in Nat /\ disk <= 2 * Len(log)
          /\ IF stream.pos = 2 * last + 1 THEN stream.cut = last + 1 ELSE stream.cut <= last
        BY <1>4, <2>1 DEF LiveInv, StreamOk, FileOk
    <2>3. last <= Complete
        BY <1>1, <2>1, <2>2, HalvesGrow DEF Complete
    <2>4. stream.cut <= Len(log)
        <3>1. CASE stream.pos = 2 * last + 1
            BY <1>1, <1>2, <2>2, <3>1 DEF FileFacts
        <3>2. CASE stream.pos # 2 * last + 1
            BY <1>1, <1>2, <2>2, <2>3, <3>2 DEF FileFacts
        <3> QED
            BY <3>1, <3>2
    <2>5. stream.got <= Complete /\ Complete \in Nat /\ Len(log) \in Nat
        <3>1. Complete \in Nat /\ Len(log) \in Nat
            BY <1>2 DEF FileFacts
        <3>2. stream.got <= last
            BY <2>2
        <3> QED
            BY <1>1, <2>3, <3>1, <3>2
    <2> QED
        BY <1>1, <2>1, <2>3, <2>4, <2>5
<1> QED
    BY <1>3, <1>4

\* A step of the writer: what the file gains does not disturb the others.
LEMMA WriterStep ==
    ASSUME LiveInv, FileOk', Grows, disk' >= disk, UNCHANGED <<stream, pageVars, cutBefore>>
    PROVE  LiveInv'
<1>0. FileFacts /\ FileFacts'
    BY FileHas DEF LiveInv
<1>9. Complete \in Nat /\ Complete <= Len(log) /\ Len(log) \in Nat /\ disk \in Nat /\ disk' \in Nat
    BY <1>0 DEF FileFacts, LiveInv, FileOk
<1>1. Stays
    BY <1>0 DEF Stays, Accounted, pageVars, Grows, FileFacts
<1>2. StreamOk'
    <2>1. CASE stream.at # "streaming"
        BY <2>1 DEF LiveInv, StreamOk
    <2>2. CASE stream.at = "streaming"
        <3> DEFINE last == stream.pos \div 2
        <3>1. last \in 0..Complete /\ stream.pos \in Nat /\ stream.got \in Nat
            BY <1>0, <2>2, Positions DEF FileFacts
        <3>2. \A i \in stream.got + 1 .. last : log'[i] = log[i]
            <4>1. \A i \in stream.got + 1 .. last : i \in 1..Len(log)
                <5> HIDE DEF last
                <5> QED
                    BY <1>9, <3>1
            <4> QED
                BY <4>1 DEF Grows
        <3>3. /\ stream.pos <= disk /\ stream.got <= last
              /\ IF stream.pos = 2 * last + 1 THEN stream.cut = last + 1 ELSE stream.cut <= last
              /\ stream.queue =
                     {i \in stream.got + 1 .. last : i # stream.cut /\ log[i] > stream.after}
            BY <2>2 DEF LiveInv, StreamOk
        <3>4. stream.queue = {i \in stream.got + 1 .. last : i # stream.cut /\ log'[i] > stream.after}
            BY <3>2, <3>3
        <3> HIDE DEF last
        <3>5. stream.pos <= disk'
            <4>1. stream.pos \in Nat /\ stream.pos <= disk
                BY <3>1, <3>3
            <4> QED
                BY <1>9, <4>1
        <3>6. last' = last /\ stream' = stream
            BY DEF last
        <3> QED
            BY <2>2, <3>3, <3>4, <3>5, <3>6 DEF LiveInv, StreamOk, last
    <2> QED
        BY <2>1, <2>2
<1>3. LoadOk'
    <2>1. \A i \in DOMAIN load.events : i \in 1..Len(log) /\ load.events[i] = log[i]
        <3>1. /\ load.events \in Seq(Nat) /\ Len(load.events) <= Complete
              /\ \A i \in DOMAIN load.events : load.events[i] = log[i]
            BY DEF LiveInv, LoadOk
        <3>2. DOMAIN load.events = 1..Len(load.events) /\ Len(load.events) \in Nat
            BY <3>1
        <3>3. \A i \in 1..Len(load.events) : i \in 1..Len(log)
            BY <1>9, <3>1, <3>2
        <3> QED
            BY <3>1, <3>2, <3>3
    <2>2. /\ load.at # "done" => dropped = {}
          /\ load.events \in Seq(Nat) /\ Len(load.events) <= Complete'
        BY <1>0 DEF LiveInv, LoadOk, Grows, FileFacts
    <2> QED
        BY <2>1, <2>2 DEF LoadOk, Grows, pageVars
<1>4. FollowOk'
    <2>1. Seen(stream.after)' /\ UpTo(stream.after)'
        BY <1>0, <1>1, UpToStays DEF LiveInv, FollowOk, StreamOk
    <2>2. stream.cut \in 0..Len(log) /\ stream.got \in 0..Complete
        BY Positions
    <2>3. stream.cut # 0 => log'[stream.cut] \in cutBefore
        BY <1>0, <2>2 DEF LiveInv, FollowOk, Grows, FileFacts
    <2>4. \A i \in 1..stream.got : log'[i] > stream.after /\ i # stream.cut =>
              log'[i] \in ToSet(shown) \cup dropped
        <3>1. \A i \in 1..stream.got : i \in 1..Len(log)
            BY <1>0, <2>2 DEF FileFacts
        <3>2. \A i \in 1..stream.got : log'[i] = log[i]
            BY <3>1 DEF Grows
        <3> QED
            BY <3>2 DEF LiveInv, FollowOk
    <2> QED
        BY <2>1, <2>3, <2>4 DEF FollowOk, pageVars
<1>5. PageOk'
    <2>1. Seen(lastOpid)' /\ UpTo(lastOpid)'
        BY <1>1, UpToStays DEF LiveInv, PageOk, pageVars
    <2> QED
        BY <2>1 DEF LiveInv, PageOk, pageVars
<1> QED
    BY <1>2, <1>3, <1>4, <1>5 DEF LiveInv

LEMMA EmitGrows == ASSUME LiveInv, Emit PROVE FileOk' /\ Grows /\ disk' >= disk
<1>1. PICK e \in 0..MaxEvents - 1 : ~Contains(log, e) /\ log' = Append(log, e)
    BY DEF Emit
<1>2. FileFacts /\ log \in Seq(0..MaxEvents - 1) /\ disk' = disk
    BY FileHas DEF LiveInv, FileOk, Emit
<1>3. /\ log' \in Seq(0..MaxEvents - 1) /\ Len(log') = Len(log) + 1
      /\ \A i \in 1..Len(log) : log'[i] = log[i]
      /\ log'[Len(log) + 1] = e /\ DOMAIN log' = 1..Len(log) + 1
    BY <1>1, <1>2, AppendProperties DEF FileFacts
<1>4. \A i \in 1..Len(log) : log[i] # e
    BY <1>1 DEF Contains
<1>5. FileOk'
    <2>1. \A i, j \in 1..Len(log) : log[i] = log[j] => i = j
        BY <1>2 DEF LiveInv, FileOk, FileFacts
    <2>2. \A i, j \in DOMAIN log' : log'[i] = log'[j] => i = j
        <3>1. Len(log) \in Nat
            BY <1>2 DEF FileFacts
        <3>2. \A i \in DOMAIN log' : i \in 1..Len(log) \/ i = Len(log) + 1
            BY <1>3, <3>1
        <3>3. \A i \in 1..Len(log) : log'[i] # log'[Len(log) + 1]
            BY <1>3, <1>4
        <3> QED
            BY <1>3, <2>1, <3>2, <3>3
    <2>3. disk' \in Nat /\ disk' <= 2 * Len(log')
        <3>1. disk \in Nat /\ disk <= 2 * Len(log) /\ Len(log) \in Nat
            BY <1>2 DEF LiveInv, FileOk, FileFacts
        <3> QED
            BY <1>2, <1>3, <3>1
    <2> QED
        BY <1>3, <2>2, <2>3 DEF FileOk
<1>6. Grows /\ disk' >= disk
    BY <1>2, <1>3 DEF LiveInv, FileOk, Grows, Complete, FileFacts
<1> QED
    BY <1>5, <1>6

LEMMA DiskGrows ==
    ASSUME LiveInv, disk' \in disk..2 * Len(log), log' = log
    PROVE  FileOk' /\ Grows /\ disk' >= disk
<1>1. FileOk' /\ disk' >= disk
    BY DEF LiveInv, FileOk
<1>2. Grows
    <2>1. disk \in Nat /\ disk' \in Nat /\ disk <= disk' /\ Len(log) \in Nat
        BY <1>1 DEF LiveInv, FileOk
    <2>2. Complete <= Complete' /\ Complete \in Nat /\ Complete' \in Nat
        BY <2>1, HalvesGrow, Halves DEF Complete
    <2> QED
        BY <2>1, <2>2 DEF Grows
<1> QED
    BY <1>1, <1>2

LEMMA WriterGrows ==
    ASSUME LiveInv, Emit \/ Spill \/ Flush \/ Stop PROVE FileOk' /\ Grows /\ disk' >= disk
<1>1. disk \in Nat /\ disk <= 2 * Len(log) /\ Len(log) \in Nat
    BY FileHas DEF LiveInv, FileOk, FileFacts
<1>2. CASE Emit
    BY <1>2, EmitGrows
<1>3. CASE Spill
    BY <1>1, <1>3, DiskGrows DEF Spill
<1>4. CASE Flush
    BY <1>1, <1>4, DiskGrows DEF Flush
<1>5. CASE Stop
    BY <1>1, <1>5, DiskGrows DEF Stop
<1> QED
    BY <1>2, <1>3, <1>4, <1>5

LEMMA LiveWriter == ASSUME LiveInv, Emit \/ Spill \/ Flush \/ Stop PROVE LiveInv'
<1>1. UNCHANGED <<stream, pageVars, cutBefore>>
    BY DEF Emit, Spill, Flush, Stop
<1> QED
    BY <1>1, WriterGrows, WriterStep

\* A step that leaves the file as it is.
LEMMA Rests == ASSUME UNCHANGED <<log, disk>> PROVE Complete' = Complete /\ Readable' = Readable
BY DEF Complete, Readable

LEMMA RequestedRec ==
    ASSUME NEW n
    PROVE  Requested(n) =
               [at |-> "requested", after |-> n, pos |-> 0, queue |-> {}, got |-> 0, cut |-> 0]
<1> DEFINE none == {}
<1>1. Closed = [at |-> "closed", after |-> 0, pos |-> 0, queue |-> none, got |-> 0, cut |-> 0]
    BY DEF Closed
<1> DEFINE mid == [Closed EXCEPT !.at = "requested"]
<1> HIDE DEF none
<1>2. mid = [at |-> "requested", after |-> 0, pos |-> 0, queue |-> none, got |-> 0, cut |-> 0]
    BY <1>1
<1>3. Requested(n) = [mid EXCEPT !.after = n]
    BY DEF Requested
<1> HIDE DEF mid
<1>4. Requested(n) = [at |-> "requested", after |-> n, pos |-> 0, queue |-> none, got |-> 0, cut |-> 0]
    BY <1>2, <1>3
<1> QED
    BY <1>4 DEF none

\* A stream that is closed, or requested after a number the page has reached.
LEMMA LiveRequest ==
    ASSUME LiveInv, UNCHANGED <<log, disk, pageVars, cutBefore>>,
           stream' = Closed \/ \E n \in 0..MaxEvents : stream' = Requested(n) /\ Seen(n) /\ UpTo(n)
    PROVE  LiveInv'
<1>1. FileOk' /\ LoadOk' /\ PageOk'
    BY DEF LiveInv, FileOk, LoadOk, PageOk, pageVars, Complete, Seen, UpTo, Late, Accounted
<1>2. PICK n \in 0..MaxEvents, at \in {"closed", "requested"} :
          /\ stream' = [at |-> at, after |-> n, pos |-> 0, queue |-> {}, got |-> 0, cut |-> 0]
          /\ Seen(n) /\ UpTo(n)
    <2>1. CASE stream' = Closed
        <3>1. Seen(0) /\ UpTo(0) /\ 0 \in 0..MaxEvents
            BY LiveEventsAssumption DEF Seen, UpTo
        <3> QED
            BY <2>1, <3>1 DEF Closed
    <2>2. CASE stream' # Closed
        <3>1. PICK n \in 0..MaxEvents : stream' = Requested(n) /\ Seen(n) /\ UpTo(n)
            BY <2>2
        <3>2. Requested(n) = [at |-> "requested", after |-> n, pos |-> 0, queue |-> {}, got |-> 0, cut |-> 0]
            BY RequestedRec
        <3> QED
            BY <3>1, <3>2
    <2> QED
        BY <2>1, <2>2
<1>3. /\ stream' = [at |-> at, after |-> n, pos |-> 0, queue |-> {}, got |-> 0, cut |-> 0]
      /\ at \in {"closed", "requested"}
    BY <1>2
<1>4. StreamOk'
    BY <1>3 DEF StreamOk
<1>5. Seen(n)' /\ UpTo(n)'
    BY <1>2, Rests DEF Seen, UpTo, Late, Accounted, pageVars
<1>6. FollowOk'
    BY <1>3, <1>5 DEF FollowOk
<1> QED
    BY <1>1, <1>4, <1>6 DEF LiveInv

LEMMA LiveReopen == ASSUME LiveInv, Refresh \/ Interrupt \/ Reconnect PROVE LiveInv'
<1>1. UNCHANGED <<log, disk, pageVars, cutBefore>>
    BY DEF Refresh, Interrupt, Reconnect, writerVars
<1>2. /\ lastOpid \in 0..MaxEvents /\ Seen(lastOpid) /\ UpTo(lastOpid)
      /\ stream.after \in 0..MaxEvents /\ Seen(stream.after) /\ UpTo(stream.after)
    BY DEF LiveInv, PageOk, FollowOk, StreamOk
<1>3. stream' = Closed \/ stream' = Requested(lastOpid) \/ stream' = Requested(stream.after)
    BY DEF Refresh, Interrupt, Reconnect
<1> QED
    BY <1>1, <1>2, <1>3, LiveRequest

\* What the page shows, has missed and reads stays as it is.
LEMMA SameFile ==
    ASSUME LiveInv, UNCHANGED <<log, disk>>
    PROVE  FileOk' /\ Grows /\ FileFacts /\ FileFacts'
<1>1. FileOk' /\ FileFacts /\ FileFacts'
    BY FileHas DEF LiveInv, FileOk
<1> QED
    BY <1>1, Rests DEF Grows, FileFacts

LEMMA LiveServe == ASSUME LiveInv, ServeHistory PROVE LiveInv'
<1> DEFINE c == IF disk % 2 = 1 THEN Complete + 1 ELSE 0
           q == {i \in 1..Complete : log[i] > stream.after}
<1>1. /\ stream.at = "requested" /\ UNCHANGED <<log, disk, pageVars>>
      /\ stream' = [stream EXCEPT !.at = "streaming", !.pos = disk, !.queue = q, !.cut = c]
      /\ cutBefore \subseteq cutBefore' /\ (c # 0 => log[c] \in cutBefore')
    BY DEF ServeHistory, writerVars, After
<1>2. /\ FileOk' /\ Grows /\ FileFacts
      /\ stream \in [at : {"closed", "requested", "streaming"}, after : 0..MaxEvents, pos : Nat,
                     queue : SUBSET Nat, got : Nat, cut : Nat]
      /\ stream.got = 0 /\ Complete' = Complete /\ disk \in Nat
    BY <1>1, SameFile, Rests DEF LiveInv, StreamOk, FileOk
<1>3. Stays
    BY <1>1 DEF Stays, Accounted, pageVars
<1>4. c \in Nat /\ (c # 0 => c = Complete + 1 /\ disk = 2 * Complete + 1) /\ (c = 0 => disk = 2 * Complete)
    BY <1>2 DEF FileFacts
<1>5. /\ q \subseteq Nat
      /\ q = {i \in 1..Complete : i # c /\ log[i] > stream.after}
    BY <1>2, <1>4 DEF FileFacts
<1> HIDE DEF c, q
<1>6. /\ stream'.at = "streaming" /\ stream'.after = stream.after /\ stream'.pos = disk
      /\ stream'.queue = q /\ stream'.got = 0 /\ stream'.cut = c
      /\ stream' \in [at : {"closed", "requested", "streaming"}, after : 0..MaxEvents, pos : Nat,
                      queue : SUBSET Nat, got : Nat, cut : Nat]
    BY <1>1, <1>2, <1>4, <1>5
<1>7. StreamOk'
    <2>1. stream'.pos \div 2 = Complete
        BY <1>6 DEF Complete
    <2>2. /\ stream'.pos <= disk' /\ stream'.got <= Complete
          /\ IF stream'.pos = 2 * Complete + 1 THEN stream'.cut = Complete + 1 ELSE stream'.cut <= Complete
        <3>1. /\ Complete \in Nat /\ disk' = disk /\ stream'.pos = disk
              /\ stream'.got = 0 /\ stream'.cut = c
            BY <1>1, <1>2, <1>6 DEF FileFacts
        <3>2. CASE c = 0
            BY <1>2, <1>4, <3>1, <3>2
        <3>3. CASE c # 0
            BY <1>2, <1>4, <3>1, <3>3
        <3> QED
            BY <3>2, <3>3
    <2>3. stream'.queue = {i \in stream'.got + 1 .. Complete : i # stream'.cut /\ log'[i] > stream'.after}
        <3>1. stream'.got + 1 = 1 /\ stream'.cut = c /\ stream'.after = stream.after
            BY <1>6
        <3> QED
            BY <1>1, <1>5, <1>6, <3>1
    <2> QED
        BY <1>6, <2>1, <2>2, <2>3 DEF StreamOk
<1>8. FollowOk'
    <2>1. Seen(stream.after)' /\ UpTo(stream.after)'
        <3>1. PICK n \in 0..MaxEvents : n = stream.after /\ Seen(n) /\ UpTo(n)
            BY <1>2 DEF LiveInv, FollowOk
        <3>2. Seen(n)' /\ UpTo(n)'
            BY <1>2, <1>3, <3>1, UpToStays DEF LiveInv
        <3> QED
            BY <1>6, <3>1, <3>2
    <2> QED
        BY <1>1, <1>6, <2>1 DEF FollowOk
<1>9. PageOk' /\ LoadOk'
    <2>1. Seen(lastOpid)' /\ UpTo(lastOpid)'
        BY <1>1, <1>2, <1>3, UpToStays DEF LiveInv, PageOk, pageVars
    <2> QED
        BY <1>1, <1>2, <2>1 DEF LiveInv, PageOk, LoadOk, pageVars
<1> QED
    BY <1>2, <1>7, <1>8, <1>9 DEF LiveInv

LEMMA LivePoll == ASSUME LiveInv, Poll PROVE LiveInv'
<1> DEFINE last == stream.pos \div 2
           more == {i \in (stream.pos + 1) \div 2 + 1 .. Complete : log[i] > stream.after}
           q == {i \in stream.got + 1 .. Complete : i # stream.cut /\ log[i] > stream.after}
<1>1. /\ stream.at = "streaming" /\ stream.pos < 2 * Complete
      /\ UNCHANGED <<log, disk, pageVars, cutBefore>>
      /\ stream' = [stream EXCEPT !.pos = 2 * Complete, !.queue = @ \cup more]
    BY DEF Poll, writerVars, After
<1>2. /\ FileOk' /\ Grows /\ FileFacts /\ FileFacts'
      /\ stream \in [at : {"closed", "requested", "streaming"}, after : 0..MaxEvents, pos : Nat,
                     queue : SUBSET Nat, got : Nat, cut : Nat]
      /\ Complete' = Complete
    BY <1>1, SameFile, Rests DEF LiveInv, StreamOk
<1>3. /\ last \in 0..Complete /\ (stream.pos = 2 * last \/ stream.pos = 2 * last + 1)
      /\ (stream.pos + 1) \div 2 = (IF stream.pos = 2 * last THEN last ELSE last + 1)
      /\ stream.got <= last
      /\ IF stream.pos = 2 * last + 1 THEN stream.cut = last + 1 ELSE stream.cut <= last
      /\ stream.queue = {i \in stream.got + 1 .. last : i # stream.cut /\ log[i] > stream.after}
    BY <1>1, <1>2, Positions, Halves DEF LiveInv, StreamOk
<1>4. Complete \in Nat /\ stream.got \in Nat /\ stream.cut \in Nat
    BY <1>2 DEF FileFacts
<1>5. more = {i \in last + 1 .. Complete : i # stream.cut /\ log[i] > stream.after}
    <2>1. CASE stream.pos = 2 * last
        <3>1. (stream.pos + 1) \div 2 = last /\ stream.cut <= last
            BY <1>3, <1>4, <2>1
        <3> HIDE DEF last
        <3> QED
            BY <1>3, <1>4, <3>1
    <2>2. CASE stream.pos = 2 * last + 1
        <3>1. (stream.pos + 1) \div 2 = last + 1 /\ stream.cut = last + 1
            BY <1>3, <1>4, <2>2
        <3> HIDE DEF last
        <3> QED
            BY <1>3, <1>4, <3>1
    <2> QED
        BY <1>3, <2>1, <2>2
<1> HIDE DEF last, more
<1>6. stream.queue \cup more = q
    BY <1>3, <1>4, <1>5
<1>7. stream.cut <= Complete /\ q \subseteq Nat
    <2>1. CASE stream.pos = 2 * last
        BY <1>3, <1>4, <2>1
    <2>2. CASE stream.pos = 2 * last + 1
        BY <1>1, <1>3, <1>4, <2>2
    <2>3. q \subseteq Nat
        BY <1>4
    <2> QED
        BY <1>3, <2>1, <2>2, <2>3
<1> HIDE DEF q
<1>8. /\ stream'.at = "streaming" /\ stream'.after = stream.after /\ stream'.pos = 2 * Complete
      /\ stream'.queue = q /\ stream'.got = stream.got /\ stream'.cut = stream.cut
      /\ stream' \in [at : {"closed", "requested", "streaming"}, after : 0..MaxEvents, pos : Nat,
                      queue : SUBSET Nat, got : Nat, cut : Nat]
    <2>1. stream' = [stream EXCEPT !.pos = 2 * Complete, !.queue = q]
        BY <1>1, <1>6
    <2>2. 2 * Complete \in Nat /\ q \in SUBSET Nat
        BY <1>4, <1>7
    <2> QED
        BY <1>1, <1>2, <2>1, <2>2
<1>9. StreamOk'
    <2>1. stream'.pos \div 2 = Complete /\ stream'.pos # 2 * Complete + 1
        BY <1>4, <1>8
    <2>2. stream'.pos <= disk' /\ stream'.got <= Complete /\ stream'.cut <= Complete
        <3>1. 2 * Complete <= disk
            BY <1>2 DEF FileFacts, LiveInv, FileOk
        <3>2. stream.got <= Complete
            BY <1>3, <1>4
        <3> QED
            BY <1>1, <1>7, <1>8, <3>1, <3>2
    <2>3. stream'.queue = {i \in stream'.got + 1 .. Complete : i # stream'.cut /\ log'[i] > stream'.after}
        BY <1>1, <1>8 DEF q
    <2> QED
        BY <1>8, <2>1, <2>2, <2>3 DEF StreamOk
<1>10. FollowOk' /\ PageOk' /\ LoadOk'
    BY <1>1, <1>2, <1>8 DEF LiveInv, FollowOk, PageOk, LoadOk, Seen, UpTo, Late, Accounted, pageVars
<1> QED
    BY <1>2, <1>9, <1>10 DEF LiveInv

\* What the load replaces is remembered.
LEMMA LiveLoad == ASSUME LiveInv, LoadRead \/ LoadFails PROVE LiveInv'
<1>1. /\ load.at = "fetching" /\ UNCHANGED <<log, disk, stream, shown, lastOpid, cutBefore, dropped>>
      /\ load' = [at |-> "waiting", events |-> Readable] \/ load' = [at |-> "waiting", events |-> <<>>]
    BY DEF LoadRead, LoadFails, writerVars
<1>2. FileOk' /\ StreamOk' /\ FollowOk' /\ PageOk'
    BY <1>1 DEF LiveInv, FileOk, StreamOk, FollowOk, PageOk, Seen, UpTo, Late, Accounted, Complete
<1>3. LoadOk'
    <2>1. dropped = {} /\ Complete' = Complete /\ Complete \in Nat
        BY <1>1, SameFile, Rests DEF LiveInv, LoadOk, FileFacts
    <2>2. CASE load'.events = Readable
        <3>1. /\ Readable \in Seq(Nat) /\ Len(Readable) = Complete
              /\ \A i \in DOMAIN Readable : Readable[i] = log[i]
            BY <2>1, ReadableLines DEF LiveInv
        <3> QED
            BY <1>1, <2>1, <2>2, <3>1 DEF LoadOk
    <2>3. CASE load'.events = <<>>
        BY <1>1, <2>1, <2>3 DEF LoadOk
    <2> QED
        BY <1>1, <2>2, <2>3
<1> QED
    BY <1>2, <1>3 DEF LiveInv

LEMMA ToSetAppend ==
    ASSUME NEW S, NEW s \in Seq(S), NEW e \in S
    PROVE  ToSet(Append(s, e)) = ToSet(s) \cup {e}
<1>1. /\ Len(s) \in Nat /\ DOMAIN s = 1..Len(s) /\ DOMAIN Append(s, e) = 1..Len(s) + 1
      /\ \A i \in 1..Len(s) : Append(s, e)[i] = s[i]
      /\ Append(s, e)[Len(s) + 1] = e
    BY AppendProperties
<1>2. DOMAIN Append(s, e) = DOMAIN s \cup {Len(s) + 1}
    BY <1>1
<1> QED
    BY <1>1, <1>2 DEF ToSet

\* An event with a number below that of an earlier line is overtaken.
LEMMA Overtakes ==
    ASSUME FileOk, NEW h \in 1..Complete, NEW i \in 1..Complete, h < i, log[i] <= log[h]
    PROVE  Late(i)
<1>1. FileFacts
    BY FileHas
<1>2. h \in 1..Len(log) /\ i \in 1..Len(log) /\ h \in 1..i - 1 /\ h # i
    BY <1>1 DEF FileFacts
<1>3. log[h] # log[i] /\ log[h] \in Nat /\ log[i] \in Nat
    BY <1>1, <1>2 DEF FileOk, FileFacts
<1> QED
    BY <1>2, <1>3 DEF Late

LEMMA LiveDeliver == ASSUME LiveInv, Deliver PROVE LiveInv'
<1>1. PICK h \in stream.queue :
          /\ \A j \in stream.queue : h <= j
          /\ shown' = Append(shown, log[h]) /\ lastOpid' = log[h]
          /\ stream' = [stream EXCEPT !.queue = @ \ {h}, !.got = h]
    BY DEF Deliver
<1>2. stream.at = "streaming" /\ UNCHANGED <<log, disk, load, cutBefore, dropped>>
    BY DEF Deliver, writerVars
<1>3. /\ FileOk' /\ Grows /\ FileFacts
      /\ stream \in [at : {"closed", "requested", "streaming"}, after : 0..MaxEvents, pos : Nat,
                     queue : SUBSET Nat, got : Nat, cut : Nat]
      /\ Complete' = Complete /\ shown \in Seq(Nat)
    BY <1>2, SameFile, Rests DEF LiveInv, StreamOk, PageOk
<1>4. PICK last \in 0..Complete :
          /\ last = stream.pos \div 2 /\ stream.pos <= disk /\ stream.got <= last
          /\ IF stream.pos = 2 * last + 1 THEN stream.cut = last + 1 ELSE stream.cut <= last
          /\ stream.queue = {i \in stream.got + 1 .. last : i # stream.cut /\ log[i] > stream.after}
    BY <1>2, Positions DEF LiveInv, StreamOk
<1>5. /\ h \in 1..Complete /\ h \in Nat /\ h > stream.got /\ h <= last
      /\ log[h] \in 0..MaxEvents - 1 /\ log[h] \in Nat
    <2>1. Complete \in Nat /\ Complete <= Len(log) /\ Len(log) \in Nat
        BY <1>3 DEF FileFacts
    <2>2. h \in 1..Complete /\ h \in Nat /\ h > stream.got /\ h <= last /\ h \in 1..Len(log)
        <3>1. h \in stream.got + 1 .. last /\ stream.got \in Nat /\ last \in Nat /\ last <= Complete
            BY <1>3, <1>4, <2>1
        <3> QED
            BY <2>1, <3>1
    <2> QED
        BY <1>3, <2>2 DEF FileFacts
<1>6. \A i \in stream.got + 1 .. h - 1 : i = stream.cut \/ ~(log[i] > stream.after)
    <2>1. stream.got \in Nat /\ last \in Nat /\ h \in Nat /\ h <= last
        BY <1>3, <1>4, <1>5
    <2>2. \A i \in stream.got + 1 .. h - 1 : i \in stream.got + 1 .. last /\ ~(h <= i)
        BY <2>1
    <2> QED
        BY <1>1, <1>4, <2>2
<1>7. stream.queue \ {h} = {i \in h + 1 .. last : i # stream.cut /\ log[i] > stream.after}
    <2>1. stream.got \in Nat /\ last \in Nat /\ h \in Nat /\ h > stream.got /\ h <= last
        BY <1>3, <1>4, <1>5
    <2>2. \A i \in stream.got + 1 .. last : i \in h + 1 .. last <=> h <= i /\ i # h
        BY <2>1
    <2>3. \A i \in h + 1 .. last : i \in stream.got + 1 .. last
        BY <2>1
    <2> QED
        BY <1>1, <1>4, <2>2, <2>3
<1>8. ToSet(shown') = ToSet(shown) \cup {log[h]} /\ shown' \in Seq(Nat)
    <2>1. shown' = Append(shown, log[h]) /\ shown \in Seq(Nat) /\ log[h] \in Nat
        BY <1>1, <1>3, <1>5
    <2>2. ToSet(Append(shown, log[h])) = ToSet(shown) \cup {log[h]}
        BY <2>1, ToSetAppend
    <2>3. Append(shown, log[h]) \in Seq(Nat)
        BY <2>1, AppendProperties
    <2> QED
        BY <2>1, <2>2, <2>3
<1>9. Stays
    BY <1>2, <1>8 DEF Stays, Accounted
<1>10. /\ stream'.at = "streaming" /\ stream'.after = stream.after /\ stream'.pos = stream.pos
       /\ stream'.queue = stream.queue \ {h} /\ stream'.got = h /\ stream'.cut = stream.cut
       /\ stream' \in [at : {"closed", "requested", "streaming"}, after : 0..MaxEvents, pos : Nat,
                       queue : SUBSET Nat, got : Nat, cut : Nat]
    BY <1>1, <1>2, <1>3, <1>5
<1>11. StreamOk'
    <2>1. stream'.pos \div 2 = last /\ stream'.pos <= disk' /\ stream'.got <= last
        BY <1>2, <1>4, <1>5, <1>10
    <2>2. stream'.queue = {i \in stream'.got + 1 .. last : i # stream'.cut /\ log'[i] > stream'.after}
        BY <1>2, <1>7, <1>10
    <2> QED
        BY <1>4, <1>10, <2>1, <2>2 DEF StreamOk
<1>12. PICK n \in 0..MaxEvents : n = stream.after /\ Seen(n) /\ UpTo(n)
    BY <1>3 DEF LiveInv, FollowOk
<1>13. FollowOk'
    <2>1. Seen(n)' /\ UpTo(n)'
        BY <1>3, <1>9, <1>12, UpToStays DEF LiveInv
    <2>2. ASSUME NEW i \in 1..h, log[i] > stream.after, i # stream.cut
          PROVE  log[i] \in ToSet(shown') \cup dropped
        <3>1. CASE i \in 1..stream.got
            BY <1>8, <2>2, <3>1 DEF LiveInv, FollowOk
        <3>2. CASE i = h
            BY <1>8, <3>2
        <3>3. CASE i \in stream.got + 1 .. h - 1
            BY <1>6, <2>2, <3>3
        <3> QED
            BY <1>3, <1>5, <3>1, <3>2, <3>3
    <2> QED
        BY <1>2, <1>10, <1>12, <2>1, <2>2 DEF LiveInv, FollowOk
<1>14. PICK m \in 0..MaxEvents : m = log[h]
    BY <1>5, LiveEventsAssumption
<1>15. PageOk'
    <2>1. Seen(m)'
        BY <1>2, <1>3, <1>5, <1>14 DEF Seen
    <2>2. ASSUME NEW i \in 1..Complete, log[i] \in 1..m, ~Late(i) PROVE Accounted(i)'
        <3>1. CASE h < i
            BY <1>5, <1>14, <2>2, <3>1, Overtakes DEF LiveInv
        <3>2. CASE i = h
            BY <1>2, <1>8, <3>2 DEF Accounted
        <3>3. CASE i < h /\ i = stream.cut
            BY <1>2, <1>3, <3>3 DEF LiveInv, FollowOk, Accounted, FileFacts
        <3>4. CASE i < h /\ i # stream.cut /\ log[i] > stream.after
            <4>1. i \in 1..stream.got
                BY <1>3, <1>5, <1>6, <3>4
            <4> QED
                BY <1>2, <1>8, <3>4, <4>1 DEF LiveInv, FollowOk, Accounted
        <3>5. CASE ~(log[i] > stream.after)
            <4>1. log[i] \in 1..n
                BY <1>12, <2>2, <3>5, LiveEventsAssumption
            <4> QED
                BY <1>9, <1>12, <2>2, <4>1 DEF UpTo, Stays
        <3> QED
            BY <1>3, <1>5, <3>1, <3>2, <3>3, <3>4, <3>5 DEF FileFacts
    <2>3. UpTo(m)'
        BY <1>2, <1>3, <2>2 DEF UpTo, Late
    <2> QED
        BY <1>1, <1>8, <1>14, <2>1, <2>3 DEF PageOk
<1>16. LoadOk'
    BY <1>2, <1>3 DEF LiveInv, LoadOk
<1> QED
    BY <1>3, <1>11, <1>13, <1>15, <1>16 DEF LiveInv

LEMMA LiveLoaded == ASSUME LiveInv, LoadDone PROVE LiveInv'
<1> DEFINE read == load.events
<1>1. /\ load.at = "waiting" /\ load' = [at |-> "done", events |-> <<>>]
      /\ shown' = read /\ dropped' = ToSet(shown) \ ToSet(read)
      /\ UNCHANGED <<log, disk, stream, cutBefore>>
      /\ lastOpid' \in IF read = <<>> THEN {0} ELSE Greatest(ToSet(read))
    BY DEF LoadDone, writerVars
<1>2. /\ FileOk' /\ Grows /\ FileFacts /\ Complete' = Complete /\ Complete \in Nat
      /\ dropped = {} /\ read \in Seq(Nat) /\ Len(read) <= Complete
      /\ \A i \in DOMAIN read : read[i] = log[i]
    BY <1>1, SameFile, Rests DEF LiveInv, LoadOk, FileFacts
<1>3. Stays
    BY <1>1, <1>2 DEF Stays, Accounted
<1>4. DOMAIN read = 1..Len(read) /\ Len(read) \in Nat
    BY <1>2
<1> HIDE DEF read
<1>5. StreamOk'
    BY <1>1 DEF LiveInv, StreamOk
<1>6. LoadOk'
    BY <1>1, <1>2 DEF LoadOk
<1>7. FollowOk'
    <2>1. PICK n \in 0..MaxEvents : n = stream.after /\ Seen(n) /\ UpTo(n)
        BY DEF LiveInv, FollowOk, StreamOk
    <2>2. Seen(n)' /\ UpTo(n)'
        BY <1>2, <1>3, <2>1, UpToStays DEF LiveInv
    <2>3. ToSet(shown) \cup dropped \subseteq ToSet(shown') \cup dropped'
        BY <1>1, <1>2
    <2> QED
        BY <1>1, <2>1, <2>2, <2>3 DEF LiveInv, FollowOk
<1>8. PICK m \in 0..MaxEvents : m = lastOpid' /\ Seen(m)' /\ UpTo(m)'
    <2>1. CASE read = <<>>
        BY <1>1, <2>1, LiveEventsAssumption DEF Seen, UpTo
    <2>2. CASE read # <<>>
        <3>1. PICK l \in 1..Len(read) : read[l] = lastOpid' /\ \A i \in 1..Len(read) : read[i] <= read[l]
            BY <1>1, <1>4, <2>2 DEF Greatest, ToSet
        <3>2. /\ l \in 1..Complete /\ log[l] = lastOpid'
              /\ log[l] \in 0..MaxEvents - 1 /\ log[l] \in Nat
            <4>1. Complete <= Len(log) /\ Len(log) \in Nat
                BY <1>2 DEF FileFacts
            <4>2. l \in 1..Complete /\ l \in 1..Len(log)
                BY <1>2, <1>4, <4>1
            <4>3. log[l] = read[l]
                BY <1>2, <1>4
            <4> QED
                BY <1>2, <3>1, <4>2, <4>3 DEF FileFacts
        <3>3. PICK m \in 0..MaxEvents : m = lastOpid'
            BY <3>2, LiveEventsAssumption
        <3>4. Seen(m)'
            BY <1>1, <1>2, <3>2, <3>3 DEF Seen
        <3>5. ASSUME NEW i \in 1..Complete, log[i] \in 1..m, ~Late(i) PROVE Accounted(i)'
            <4>1. CASE i \in 1..Len(read)
                BY <1>1, <1>2, <1>4, <4>1 DEF Accounted, ToSet
            <4>2. CASE i \notin 1..Len(read)
                <5>1. l < i
                    BY <1>2, <1>4, <4>2
                <5> QED
                    BY <3>2, <3>3, <3>5, <5>1, Overtakes DEF LiveInv
            <4> QED
                BY <4>1, <4>2
        <3>6. UpTo(m)'
            BY <1>1, <1>2, <3>5 DEF UpTo, Late
        <3> QED
            BY <3>3, <3>4, <3>6
    <2> QED
        BY <2>1, <2>2
<1>9. PageOk'
    BY <1>1, <1>2, <1>8 DEF PageOk
<1> QED
    BY <1>2, <1>5, <1>6, <1>7, <1>9 DEF LiveInv

LEMMA LiveStep == LiveInv /\ [Next]_vars => LiveInv'
<1> SUFFICES ASSUME LiveInv, [Next]_vars PROVE LiveInv'
    OBVIOUS
<1>1. CASE UNCHANGED vars
    BY <1>1 DEF vars, LiveInv, FileOk, StreamOk, LoadOk, FollowOk, PageOk, Seen, UpTo, Late,
       Accounted, Complete
<1> QED
    BY <1>1, LiveWriter, LiveServe, LivePoll, LiveDeliver, LiveLoad, LiveLoaded, LiveReopen
    DEF Next

LEMMA LiveAlways == Spec => []LiveInv
BY LiveInit, LiveStep, PTL DEF Spec

(* The page misses an event of the file up to its cursor only when one of   *)
(* the named races took it (lib.rs:536-606, RunPage.tsx:151-193), for any   *)
(* number of events and faults, and for logs in any order.                  *)
THEOREM MissesExplained == Spec => []GapsExplained
<1>1. LiveInv => GapsExplained
    <2> SUFFICES ASSUME LiveInv, NEW e \in ToSet(Readable) \cap 1..lastOpid
                 PROVE  e \in ToSet(shown) \cup cutBefore \cup dropped \cup Overtaken
        BY DEF GapsExplained
    <2>1. PICK i \in 1..Complete : log[i] = e
        BY ReadableLines DEF LiveInv, ToSet
    <2>2. CASE ~Late(i)
        BY <2>1, <2>2 DEF LiveInv, PageOk, UpTo, Accounted
    <2>3. CASE Late(i)
        <3>1. i \in DOMAIN log
            BY <2>1, FileHas DEF LiveInv, FileFacts
        <3> QED
            BY <2>1, <2>3, <3>1 DEF Overtaken, Late
    <2> QED
        BY <2>2, <2>3
<1> QED
    BY LiveAlways, <1>1, PTL

-----------------------------------------------------------------------------
(* The stream implements EventFeed.                                         *)

\* What can be read of the file keeps its beginning.
LEMMA ReadableGrows ==
    ASSUME FileOk, FileOk', Grows
    PROVE  /\ SubSeq(Readable', 1, Len(Readable)) = Readable
           /\ Len(Readable') = Complete' /\ Len(Readable) = Complete
           /\ Complete' = Complete => Readable' = Readable
<1>0. FileFacts /\ FileFacts'
    BY FileHas
<1>1. /\ Readable \in Seq(Nat) /\ Len(Readable) = Complete
      /\ \A i \in 1..Complete : Readable[i] = log[i]
    BY ReadableLines
<1>2. /\ Complete' \in Nat /\ Complete' <= Len(log') /\ \A i \in 1..Len(log') : log'[i] \in Nat
    BY <1>0 DEF FileFacts
<1>3. /\ Readable' \in Seq(Nat) /\ Len(Readable') = Complete'
      /\ \A i \in 1..Complete' : Readable'[i] = log'[i]
    <2>1. PICK c \in Nat : c = Complete'
        BY <1>2
    <2>2. \A i \in 1..c : log'[i] \in Nat
        BY <1>0, <1>2, <2>1 DEF FileFacts
    <2>3. /\ SubSeq(log', 1, c) \in Seq(Nat) /\ Len(SubSeq(log', 1, c)) = c
          /\ \A i \in 1..c : SubSeq(log', 1, c)[i] = log'[i]
        BY <2>2, SubSeqProperties
    <2>4. Readable' = SubSeq(log', 1, c)
        BY <2>1 DEF Readable
    <2> QED
        BY <2>1, <2>3, <2>4
<1>4. \A i \in 1..Complete : i \in 1..Complete' /\ Readable'[i] = Readable[i]
    BY <1>0, <1>1, <1>3 DEF Grows, FileFacts
<1>5. SubSeq(Readable', 1, Len(Readable)) = Readable
    <2>1. Complete \in Nat /\ Complete <= Complete' /\ \A i \in 1..Complete : Readable'[i] \in Nat
        <3>1. Complete \in Nat /\ Complete <= Complete'
            BY <1>0 DEF FileFacts, Grows
        <3>2. Len(Readable) = Complete /\ Readable \in Seq(Nat)
            BY <1>1
        <3> QED
            BY <1>4, <3>1, <3>2
    <2>2. /\ SubSeq(Readable', 1, Complete) \in Seq(Nat) /\ Len(SubSeq(Readable', 1, Complete)) = Complete
          /\ \A i \in 1..Complete : SubSeq(Readable', 1, Complete)[i] = Readable'[i]
        BY <2>1, SubSeqProperties
    <2> QED
        BY <1>1, <1>4, <2>2, SeqEqual
<1>6. Complete' = Complete => Readable' = Readable
    BY <1>1, <1>3, <1>4, SeqEqual
<1> QED
    BY <1>1, <1>3, <1>5, <1>6

LEMMA FeedInit == Init => Feed!Init
BY SubSeqEmpty DEF Init, Feed!Init, Streaming, Readable, Complete, Closed

LEMMA FeedWriter ==
    ASSUME LiveInv, FileOk', Grows, UNCHANGED stream
    PROVE  [Feed!Next]_(Feed!vars)
<1>1. /\ SubSeq(Readable', 1, Len(Readable)) = Readable
      /\ Len(Readable') = Complete' /\ Len(Readable) = Complete
      /\ Complete' = Complete => Readable' = Readable
    BY ReadableGrows DEF LiveInv
<1>2. Complete \in Nat /\ Complete' \in Nat /\ Complete' >= Complete
    BY FileHas DEF LiveInv, FileFacts, Grows
<1>3. Streaming' = Streaming /\ stream' = stream
    BY DEF Streaming
<1>4. CASE Complete' = Complete
    BY <1>1, <1>3, <1>4 DEF Feed!vars
<1>5. CASE Complete' # Complete
    <2>1. Feed!AppendLines
        BY <1>1, <1>2, <1>3, <1>5 DEF Feed!AppendLines
    <2> QED
        BY <2>1 DEF Feed!Next
<1> QED
    BY <1>4, <1>5

\* A stream that opens: the line that is next in the file may be cut.
LEMMA FeedServe == ASSUME LiveInv, ServeHistory PROVE Feed!Connect
<1>1. /\ stream.at = "requested" /\ UNCHANGED <<log, disk>>
      /\ \E q : stream' = [stream EXCEPT !.at = "streaming", !.pos = disk, !.queue = q,
                                         !.cut = IF disk % 2 = 1 THEN Complete + 1 ELSE 0]
    BY DEF ServeHistory, writerVars
<1>2. /\ stream \in [at : {"closed", "requested", "streaming"}, after : 0..MaxEvents, pos : Nat,
                     queue : SUBSET Nat, got : Nat, cut : Nat]
      /\ stream.got = 0
    BY <1>1 DEF LiveInv, StreamOk
<1>3. /\ stream'.at = "streaming" /\ stream'.after = stream.after /\ stream'.got = 0
      /\ stream'.cut \in {0, Complete + 1}
    BY <1>1, <1>2
<1>4. Readable' = Readable /\ Len(Readable) = Complete
    BY <1>1, Rests, ReadableLines DEF LiveInv
<1>5. ~Streaming /\ Streaming' /\ stream'.after \in 0..MaxEvents
    BY <1>1, <1>2, <1>3 DEF Streaming
<1> QED
    BY <1>3, <1>4, <1>5 DEF Feed!Connect

\* The first line of the queue is the next that is due.
LEMMA FeedDeliver == ASSUME LiveInv, Deliver PROVE Feed!Give
<1>1. PICK h \in stream.queue :
          /\ \A j \in stream.queue : h <= j
          /\ stream' = [stream EXCEPT !.queue = @ \ {h}, !.got = h]
    BY DEF Deliver
<1>2. stream.at = "streaming" /\ UNCHANGED <<log, disk>>
    BY DEF Deliver, writerVars
<1>3. /\ FileFacts /\ Readable' = Readable /\ Len(Readable) = Complete
      /\ DOMAIN Readable = 1..Complete /\ \A i \in 1..Complete : Readable[i] = log[i]
      /\ stream \in [at : {"closed", "requested", "streaming"}, after : 0..MaxEvents, pos : Nat,
                     queue : SUBSET Nat, got : Nat, cut : Nat]
    <2>1. Readable \in Seq(Nat) /\ Len(Readable) = Complete /\ \A i \in 1..Complete : Readable[i] = log[i]
        BY ReadableLines DEF LiveInv
    <2> QED
        BY <1>2, <2>1, Rests, FileHas DEF LiveInv, StreamOk
<1>4. PICK last \in 0..Complete :
          stream.queue = {i \in stream.got + 1 .. last : i # stream.cut /\ log[i] > stream.after}
    BY <1>2, Positions DEF LiveInv, StreamOk
<1>5. /\ stream'.at = "streaming" /\ stream'.after = stream.after /\ stream'.cut = stream.cut
      /\ stream'.got = h
    BY <1>1, <1>2, <1>3
<1>6. /\ h \in Nat /\ last \in Nat /\ Complete \in Nat /\ last <= Complete /\ stream.got \in Nat
      /\ h \in stream.got + 1 .. last /\ h # stream.cut /\ log[h] > stream.after
    BY <1>3, <1>4 DEF FileFacts
<1>7. h \in DOMAIN Readable /\ h > stream.got /\ Readable[h] = log[h]
    BY <1>3, <1>6
<1>8. ASSUME NEW j \in 1..h - 1, j > stream.got, j # stream.cut PROVE ~(Readable[j] > stream.after)
    <2>1. j \in 1..Complete /\ j \in stream.got + 1 .. last /\ ~(h <= j)
        BY <1>6, <1>8
    <2>2. j \notin stream.queue
        BY <1>1, <2>1
    <2> QED
        BY <1>3, <1>4, <1>8, <2>1, <2>2
<1>9. Streaming /\ Streaming'
    BY <1>2, <1>5 DEF Streaming
<1>10. Feed!Due(h)
    BY <1>6, <1>7, <1>9 DEF Feed!Due
<1>11. \A j \in 1..h - 1 : ~Feed!Due(j)
    BY <1>8, <1>9 DEF Feed!Due
<1> QED
    BY <1>3, <1>5, <1>7, <1>9, <1>10, <1>11 DEF Feed!Give

LEMMA FeedPoll == ASSUME LiveInv, Poll PROVE UNCHANGED Feed!vars
<1>1. /\ stream.at = "streaming" /\ UNCHANGED <<log, disk>>
      /\ \E q : stream' = [stream EXCEPT !.pos = 2 * Complete, !.queue = q]
    BY DEF Poll, writerVars
<1>2. stream \in [at : {"closed", "requested", "streaming"}, after : 0..MaxEvents, pos : Nat,
                  queue : SUBSET Nat, got : Nat, cut : Nat]
    BY DEF LiveInv, StreamOk
<1>3. /\ stream'.at = "streaming" /\ stream'.after = stream.after
      /\ stream'.got = stream.got /\ stream'.cut = stream.cut
    BY <1>1, <1>2
<1>4. Readable' = Readable
    BY <1>1, Rests
<1> QED
    BY <1>1, <1>3, <1>4 DEF Feed!vars, Streaming

LEMMA FeedReopen ==
    ASSUME LiveInv, Refresh \/ Interrupt \/ Reconnect PROVE [Feed!Next]_(Feed!vars)
<1>1. UNCHANGED <<log, disk>>
    BY DEF Refresh, Interrupt, Reconnect, writerVars
<1>2. stream'.at # "streaming" /\ stream'.got = 0 /\ stream'.cut = 0
    <2>1. stream' = Closed \/ stream' = Requested(lastOpid) \/ stream' = Requested(stream.after)
        BY DEF Refresh, Interrupt, Reconnect
    <2>2. \A n : Requested(n).at = "requested" /\ Requested(n).got = 0 /\ Requested(n).cut = 0
        BY RequestedRec
    <2>3. Closed.at = "closed" /\ Closed.got = 0 /\ Closed.cut = 0
        BY DEF Closed
    <2> QED
        BY <2>1, <2>2, <2>3
<1>3. Readable' = Readable /\ ~Streaming'
    BY <1>1, <1>2, Rests DEF Streaming
<1>4. CASE Streaming
    <2>1. Feed!Disconnect
        BY <1>2, <1>3, <1>4 DEF Feed!Disconnect
    <2> QED
        BY <2>1 DEF Feed!Next
<1>5. CASE ~Streaming
    <2>1. stream.got = 0 /\ stream.cut = 0
        BY <1>5 DEF LiveInv, StreamOk, Streaming
    <2> QED
        <3>1. Streaming = FALSE /\ Streaming' = FALSE
            BY <1>2, <1>5 DEF Streaming
        <3> QED
            BY <1>2, <1>3, <2>1, <3>1 DEF Feed!vars
<1> QED
    BY <1>4, <1>5

LEMMA FeedSame == ASSUME UNCHANGED <<log, disk, stream>> PROVE UNCHANGED Feed!vars
BY Rests DEF Feed!vars, Streaming

LEMMA FeedStep == LiveInv /\ LiveInv' /\ [Next]_vars => [Feed!Next]_(Feed!vars)
<1> SUFFICES ASSUME LiveInv, LiveInv', [Next]_vars PROVE [Feed!Next]_(Feed!vars)
    OBVIOUS
<1>1. CASE Emit \/ Spill \/ Flush \/ Stop
    <2>1. UNCHANGED stream /\ FileOk'
        BY <1>1 DEF Emit, Spill, Flush, Stop, LiveInv
    <2>2. Grows
        BY <1>1, WriterGrows
    <2> QED
        BY <2>1, <2>2, FeedWriter
<1>2. CASE ServeHistory \/ Deliver
    BY <1>2, FeedServe, FeedDeliver DEF Feed!Next
<1>3. CASE Poll
    BY <1>3, FeedPoll
<1>4. CASE LoadRead \/ LoadFails \/ LoadDone \/ UNCHANGED vars
    BY <1>4, FeedSame DEF LoadRead, LoadFails, LoadDone, writerVars, vars
<1>5. CASE Refresh \/ Interrupt \/ Reconnect
    BY <1>5, FeedReopen
<1> QED
    BY <1>1, <1>2, <1>3, <1>4, <1>5 DEF Next

(* Every step of the server and the page is a step that EventFeed allows,   *)
(* or none that a follower sees: it gets the events above the number it     *)
(* asked for in the order of the file, each once, and misses at most the    *)
(* line that was cut when it connected (lib.rs:536-606).                    *)
THEOREM StreamImplementsFeed == Spec => StreamFaithful
BY LiveAlways, FeedInit, FeedStep, PTL DEF Spec, StreamFaithful, Feed!Spec
============================================================================
