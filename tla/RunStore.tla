------------------------------ MODULE RunStore ------------------------------
(* The store of pushed runs (patchbay-server/lib.rs): concurrent pushes that *)
(* unpack an archive into a new directory, the watcher that removes runs     *)
(* when they grow too large, and what the server then lists of a run and of  *)
(* its tests (patchbay-utils/manifest.rs).                                   *)
(* The name of a run is project-date-uuid; names are compared as strings, so *)
(* by project first.  A date has seconds, a uuid is random.                  *)
EXTENDS Naturals, Sequences, FiniteSets, SequencesExt

CONSTANTS
    Projects,   \* numbered in the order of their names
    Archives,   \* what is pushed: test directories, results, a run.json or not,
                \* the tests it lists
    MaxPushes,  \* bound: pushes
    MaxSeconds, \* bound: seconds that pass
    MaxBytes    \* the retention limit; an entry of an archive counts one

ASSUME RunStoreAssumption ==
    Projects \subseteq Nat /\ MaxPushes \in Nat \ {0} /\ MaxSeconds \in Nat /\ MaxBytes \in Nat

\* An archive has finitely many test directories and a list of results; its
\* run.json, if it has one that parses, lists tests.
ASSUME ArchivesAssumption ==
    \A a \in Archives :
        /\ IsFiniteSet(a.dirs) /\ a.json \in {"none", "broken", "ok"}
        /\ a.results \in Seq(Range(a.results)) /\ a.listed \in Seq(Range(a.listed))
        /\ a.json = "ok" \/ a.listed = <<>>

VARIABLES
    now,        \* the clock
    store,      \* the directories: the entries each has; the state of its
                \* run.json, and the tests it lists
    push,       \* the handlers of the pushes
    watcher,    \* the retention watcher
    attempted   \* history: runs the watcher tried to remove

storeVars == <<now, store, push, watcher, attempted>>

Pushes == 1..MaxPushes
NoArchive == [dirs |-> {}, results |-> <<>>, json |-> "none", listed |-> <<>>]
EmptyDir(archive) ==
    [entries |-> {}, json |-> "none", tests |-> <<>>, archive |-> archive]
Asleep == [at |-> "asleep", found |-> {}, runs |-> <<>>, size |-> <<>>, toFree |-> 0]

StoreInit ==
    /\ now = 0
    /\ store = [r \in {} |-> EmptyDir(NoArchive)]
    /\ push = [p \in Pushes |-> [at |-> "new", run |-> <<>>, archive |-> NoArchive, left |-> {}]]
    /\ watcher = Asleep
    /\ attempted = {}

-----------------------------------------------------------------------------
(* The tests of a run.                                                      *)

\* A result of nextest, and the entry of the list for a directory.
Nextest(test, status) == [kind |-> "nextest", test |-> test, status |-> status]
Directory(test, status) == [kind |-> "dir", test |-> test, status |-> status]

\* The elements of s at the indices I, in their order.
Picked(s, I) ==
    [k \in 1..Cardinality(I) |-> s[CHOOSE i \in I : Cardinality({j \in I : j <= i}) = k]]

\* build_test_list: one entry for each directory, in the order they are read,
\* and the results that match none.  A result goes to the last directory with
\* its bare function name, and a directory keeps the last result it gets.
BuildTestList(dirs, tests) ==
    LET match(t) == {i \in DOMAIN dirs : dirs[i].fn = t.test.fn}
        results(i) == {j \in DOMAIN tests : match(tests[j]) # {} /\ i = Max(match(tests[j]))}
    IN  [i \in DOMAIN dirs |->
            Directory(dirs[i], IF results(i) = {} THEN "pass" ELSE tests[Max(results(i))].status)]
        \o Picked(tests, {j \in DOMAIN tests : match(tests[j]) = {}})

\* merge_nextest_results: by name, and a directory has the name of its path;
\* what is listed stays as it is listed.
MergeResults(tests, results) ==
    tests \o Picked(results, {k \in DOMAIN results :
        \A i \in DOMAIN tests : ~(tests[i].kind = "nextest" /\ tests[i].test = results[k].test)})

Has(r, entry) == r \in DOMAIN store /\ entry \in store[r].entries
DirsOf(r) == IF Has(r, "dirs") THEN store[r].archive.dirs ELSE {}
ResultsOf(r) == IF Has(r, "results") THEN store[r].archive.results ELSE <<>>

\* read_run_json, and the manifest in the list of runs: read_dir has no order.
Manifests(r) ==
    IF Has(r, "run.json") /\ store[r].json = "ok"
    THEN {BuildTestList(dirs, store[r].tests) : dirs \in SetToSeqs(DirsOf(r))}
    ELSE {}
ListedManifests(r) == {MergeResults(tests, ResultsOf(r)) : tests \in Manifests(r)}

\* discover_runs: a run for each test directory, or the push itself when it
\* has none but a run.json.
Discovered(r) ==
    IF DirsOf(r) # {} THEN {<<r, d>> : d \in DirsOf(r)}
    ELSE IF Has(r, "run.json") THEN {<<r>>} ELSE {}

-----------------------------------------------------------------------------
(* push_run.                                                                *)

Goto(p, step) == push' = [push EXCEPT ![p].at = step]
RemoveDir(r) == store' = [q \in DOMAIN store \ {r} |-> store[q]]
Entries(archive) ==
    {e \in {"dirs", "results", "run.json"} :
        \/ e = "dirs" /\ archive.dirs # {}
        \/ e = "results" /\ archive.results # <<>>
        \/ e = "run.json" /\ archive.json # "none"}

\* The name is chosen: two pushes in one second differ in their uuid only.
PushBegin(p) ==
    /\ push[p].at = "new"
    /\ \E project \in Projects, uuid \in Pushes, a \in Archives :
           /\ \A q \in Pushes : push[q].at # "new" => push[q].run[3] # uuid
           /\ push' = [push EXCEPT ![p] = [at |-> "named", run |-> <<project, now, uuid>>,
                                           archive |-> a, left |-> Entries(a)]]
    /\ UNCHANGED <<now, store, watcher, attempted>>

PushCreateDir(p) ==
    /\ push[p].at = "named"
    /\ store' = [r \in DOMAIN store \cup {push[p].run} |->
                    IF r = push[p].run THEN EmptyDir(push[p].archive) ELSE store[r]]
    /\ Goto(p, "extract")
    /\ UNCHANGED <<now, watcher, attempted>>

\* The directory d with one more entry of its archive.
Unpack(d, e) ==
    [entries |-> d.entries \cup {e}, archive |-> d.archive,
     json |-> IF e = "run.json" THEN d.archive.json ELSE d.json,
     tests |-> IF e = "run.json" THEN d.archive.listed ELSE d.tests]

\* Entries are unpacked one by one; the directory may be gone by then.
PushExtract(p) ==
    /\ push[p].at = "extract" /\ push[p].run \in DOMAIN store
    /\ \E e \in push[p].left :
           /\ store' = [store EXCEPT ![push[p].run] = Unpack(@, e)]
           /\ push' = [push EXCEPT ![p].left = @ \ {e}]
    /\ UNCHANGED <<now, watcher, attempted>>

\* Mutant: a bad entry ends the push, and what was unpacked stays.
PushExtractLeaves(p) ==
    /\ push[p].at = "extract" /\ push[p].left # {}
    /\ UNCHANGED store
    /\ Goto(p, "refused")
    /\ UNCHANGED <<now, watcher, attempted>>

\* A bad entry, an unsafe path or a failure: all that was unpacked goes.
PushExtractFails(p) ==
    /\ push[p].at = "extract" /\ push[p].left # {}
    /\ RemoveDir(push[p].run)
    /\ Goto(p, "refused")
    /\ UNCHANGED <<now, watcher, attempted>>

\* The run.json of a run without one: it lists no tests.
Minimal(d) ==
    [entries |-> d.entries \cup {"run.json"}, archive |-> d.archive, json |-> "ok", tests |-> <<>>]

\* Mutant: the results are not merged into the run.json of the archive.
PushManifestUnmerged(p) ==
    /\ push[p].at = "extract" /\ push[p].left = {}
    /\ LET r == push[p].run IN
       store' = IF r \notin DOMAIN store \/ Has(r, "run.json") THEN store
                ELSE [store EXCEPT ![r] = Minimal(@)]
    /\ Goto(p, "written")
    /\ UNCHANGED <<now, watcher, attempted>>

\* The results are merged into the run.json of the archive, which is left as
\* it is if it does not parse; without one a minimal manifest is written.  A
\* write into a directory that is gone fails and is ignored.
PushManifest(p) ==
    /\ push[p].at = "extract" /\ push[p].left = {}
    /\ LET r == push[p].run IN
       store' = IF r \notin DOMAIN store THEN store
                ELSE IF ~Has(r, "run.json") THEN [store EXCEPT ![r] = Minimal(@)]
                ELSE IF store[r].json = "ok"
                THEN [store EXCEPT ![r].tests = MergeResults(@, ResultsOf(r))]
                ELSE store
    /\ Goto(p, "written")
    /\ UNCHANGED <<now, watcher, attempted>>

\* Subscribers are told, and the reply names the run, whatever became of it.
PushReply(p) ==
    /\ push[p].at = "written"
    /\ Goto(p, "accepted")
    /\ UNCHANGED <<now, store, watcher, attempted>>

-----------------------------------------------------------------------------
(* retention_watcher.                                                       *)

\* Paths are compared as strings: by project, then date, then uuid.
Before(r, q) ==
    \/ r[1] < q[1]
    \/ r[1] = q[1] /\ r[2] < q[2]
    \/ r[1] = q[1] /\ r[2] = q[2] /\ r[3] < q[3]

Wake ==
    /\ watcher.at = "asleep"
    /\ watcher' = [Asleep EXCEPT !.at = "measuring", !.found = DOMAIN store]
    /\ UNCHANGED <<now, store, push, attempted>>

\* dir_size of one directory after the other; one that is gone counts zero.
Measure ==
    /\ watcher.at = "measuring"
    /\ \E r \in watcher.found :
           watcher' = [watcher EXCEPT !.found = @ \ {r}, !.runs = Append(@, r),
                          !.size = Append(@, IF r \in DOMAIN store
                                             THEN Cardinality(store[r].entries) ELSE 0)]
    /\ UNCHANGED <<now, store, push, attempted>>

Total(sizes) == FoldSeq(LAMBDA x, y : x + y, 0, sizes)

\* Sorted by path; nothing to do below the limit.
Sort ==
    /\ watcher.at = "measuring" /\ watcher.found = {}
    /\ LET order == SortSeq([i \in DOMAIN watcher.runs |-> i],
                            LAMBDA i, j : Before(watcher.runs[i], watcher.runs[j]))
       IN  watcher' = IF Total(watcher.size) <= MaxBytes THEN Asleep
                      ELSE [watcher EXCEPT !.at = "removing",
                               !.runs = [i \in DOMAIN order |-> watcher.runs[order[i]]],
                               !.size = [i \in DOMAIN order |-> watcher.size[order[i]]],
                               !.toFree = Total(watcher.size) - MaxBytes]
    /\ UNCHANGED <<now, store, push, attempted>>

\* The first run of the list goes, whole or in part; its size counts as freed.
RemoveRun ==
    /\ watcher.at = "removing" /\ watcher.toFree > 0 /\ watcher.runs # <<>>
    /\ LET r == Head(watcher.runs) IN
       /\ attempted' = attempted \cup {r}
       /\ \/ RemoveDir(r)
          \/ /\ r \in DOMAIN store
             /\ \E e \in SUBSET store[r].entries : store' = [store EXCEPT ![r].entries = e]
    /\ watcher' = [watcher EXCEPT !.runs = Tail(@), !.size = Tail(@),
                      !.toFree = IF @ > Head(watcher.size) THEN @ - Head(watcher.size) ELSE 0]
    /\ UNCHANGED <<now, push>>

Sleep ==
    /\ watcher.at = "removing" /\ (watcher.toFree = 0 \/ watcher.runs = <<>>)
    /\ watcher' = Asleep
    /\ UNCHANGED <<now, store, push, attempted>>

Tick ==
    /\ now < MaxSeconds /\ now' = now + 1
    /\ UNCHANGED <<store, push, watcher, attempted>>

StoreNext ==
    \/ \E p \in Pushes : \/ PushBegin(p) \/ PushCreateDir(p) \/ PushExtract(p)
                         \/ PushExtractFails(p) \/ PushManifest(p) \/ PushReply(p)
    \/ Wake \/ Measure \/ Sort \/ RemoveRun \/ Sleep
    \/ Tick

StoreSpec == StoreInit /\ [][StoreNext]_storeVars

-----------------------------------------------------------------------------
(* What must hold.                                                          *)

\* A push is all or nothing while retention leaves its run alone: refused, it
\* leaves no directory; accepted, everything of the archive is there, with a
\* run.json, and the run is in the list (lib.rs:1004-1190, lib.rs:92-221).
PushAllOrNothing ==
    \A p \in Pushes : LET r == push[p].run IN
        /\ push[p].at = "refused" => r \notin DOMAIN store \/ r \in attempted
        /\ push[p].at = "accepted" /\ r \notin attempted =>
               /\ \A e \in Entries(push[p].archive) \cup {"run.json"} : Has(r, e)
               /\ Discovered(r) # {}

\* What the files of an archive say of its tests.
Said(a) == Range(a.listed) \cup Range(a.results)

\* The bare function name of a test is that of no other test of its run, and
\* whatever says something of a test says the same.
OneAnswer(a) ==
    /\ \A s, t \in a.dirs \cup {x.test : x \in Said(a)} : s.fn = t.fn => s = t
    /\ \A x, y \in Said(a) : x.test = y.test => x = y

\* A test that failed, in the run.json of the archive or in its results, is
\* shown as failed in the list of runs and, if the archive had a run.json, on
\* the page of its run (lib.rs:473, lib.rs:982, manifest.rs:166).  One that
\* does not parse shows no tests at all.
FailuresShown ==
    \A p \in Pushes : LET r == push[p].run
                          a == push[p].archive
                      IN
        push[p].at = "accepted" /\ r \notin attempted /\ OneAnswer(a) =>
        \A x \in Said(a) : x.status = "fail" =>
            \A tests \in ListedManifests(r) \cup (IF a.json = "ok" THEN Manifests(r) ELSE {}) :
                \E j \in DOMAIN tests : tests[j].test = x.test /\ tests[j].status = "fail"
=============================================================================
