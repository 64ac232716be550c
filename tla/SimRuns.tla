------------------------------ MODULE SimRuns ------------------------------
(* The runner (patchbay-runner/sim/runner.rs): what it does from a list of   *)
(* simulation files to the reports of the run, for several runners that      *)
(* share a work directory and start in the same second.  Nothing makes a     *)
(* runner go on, so it may be killed between any two of its steps.  The      *)
(* steps of a simulation are those of SimSteps.                              *)
EXTENDS SimConfig

CONSTANTS
    Runners,
    Files,      \* the simulation files, by name
    FileLists   \* the lists of names a runner may be given

VARIABLES
    latest,     \* the link to the latest run: <<>> or a directory
    disk,       \* what the directories of the runs hold
    run         \* the runners

runVars == <<latest, disk, run>>

NoProgress == [status |-> "none", completed |-> 0, ok |-> 0, error |-> 0, entries |-> <<>>]
NoManifest == [status |-> "none", success |-> "none", entries |-> <<>>]
EmptyRoot == [sims |-> [d \in {} |-> [status |-> "none", results |-> FALSE]],
              progress |-> NoProgress, manifest |-> NoManifest, combined |-> {}]

RunsInit ==
    /\ latest = <<>>
    /\ disk = [d \in {} |-> EmptyRoot]
    /\ run \in [Runners -> {[at |-> "new", n |-> 0, root |-> <<>>, files |-> files, i |-> 1,
                             v |-> 1, dir |-> <<>>, result |-> "none",
                             outcomes |-> <<>>, progress |-> NoProgress, exit |-> "none"] :
                                files \in FileLists}]

\* Function f with value at key, which it may not have had.
With(f, key, value) == [k \in DOMAIN f \cup {key} |-> IF k = key THEN value ELSE f[k]]

\* A step of runner r: it is at one point, goes to another, and may change
\* what its own directory holds.
At(r, point) == run[r].at = point
GoOn(r, point) == run' = [run EXCEPT ![r].at = point]
Leave(r, exit) == run' = [run EXCEPT ![r].at = "over", ![r].exit = exit]
Root(r) == disk[run[r].root]
KeepDisk == UNCHANGED <<latest, disk>>

NameOf(r) == run[r].files[run[r].i]
FileOf(r) == Files[NameOf(r)]

\* expand_matrix of every file; a variant that has a chance of success.
VariantsOf == [f \in DOMAIN Files |-> Variants(Files[f])]
CanRun == [f \in DOMAIN Files |-> [v \in DOMAIN VariantsOf[f] |-> Runnable(VariantsOf[f][v])]]

\* What the parsers give: lists of entries, extensions and references, and a
\* topology of its own that fits.
EntriesFit(entries) ==
    IsList(entries) /\ \A i \in DOMAIN entries : IsList(entries[i].step.refs)
DefinitionsFit(file) ==
    /\ \A t \in DOMAIN file.templates : IsList(file.templates[t].refs)
    /\ \A g \in DOMAIN file.groups : EntriesFit(file.groups[g].steps)
FileFits(file) ==
    /\ {"name", "topology", "entries", "templates", "groups"} \subseteq DOMAIN file
    /\ IsList(file.matrix) /\ \A i \in DOMAIN file.matrix : IsList(file.matrix[i].values)
    /\ TopologyFits(file.inline)
    /\ EntriesFit(file.entries) /\ DefinitionsFit(file)
    /\ IsList(file.extends) /\ \A i \in DOMAIN file.extends : DefinitionsFit(file.extends[i])

ASSUME FilesAssumption ==
    FileLists \subseteq Seq(DOMAIN Files) /\ \A f \in DOMAIN Files : FileFits(Files[f])

VariantOf(r) == VariantsOf[NameOf(r)][run[r].v]
MoreVariants(r) == run[r].v <= Len(VariantsOf[NameOf(r)])

\* sanitize_for_path_component.
Unsafe == {"/", " "}
Sanitized(text) == [i \in DOMAIN text |-> IF text[i] \in Unsafe THEN "_" ELSE text[i]]

\* The n-th name create_unique_dir tries, and the one it ends with: the first
\* that is not taken.
Attempt(base, n) == IF n = 0 THEN base ELSE Numbered(base, n)
FirstFree(base, taken) ==
    {Attempt(base, n) : n \in {k \in 0..Cardinality(taken) :
        /\ Attempt(base, k) \notin taken
        /\ \A m \in 0..(k - 1) : Attempt(base, m) \in taken}}

-----------------------------------------------------------------------------
(* prepare_run_root: a directory of its own, then the link.                  *)

\* Mutant: the directory is created whether or not another runner has it.
MakeRootShared(r) ==
    LET name == Attempt(<<"run">>, run[r].n) IN
    /\ At(r, "new")
    /\ disk' = disk @@ (name :> EmptyRoot)
    /\ run' = [run EXCEPT ![r].at = "unlink", ![r].root = name]
    /\ UNCHANGED latest

MakeRoot(r) ==
    LET name == Attempt(<<"run">>, run[r].n) IN
    /\ At(r, "new")
    /\ IF name \in DOMAIN disk
       THEN run' = [run EXCEPT ![r].n = @ + 1] /\ UNCHANGED disk
       ELSE /\ disk' = With(disk, name, EmptyRoot)
            /\ run' = [run EXCEPT ![r].at = "unlink", ![r].root = name]
    /\ UNCHANGED latest

Unlink(r) ==
    /\ At(r, "unlink")
    /\ latest' = <<>> /\ UNCHANGED disk
    /\ GoOn(r, "link")

\* Another runner may have set the link since.
Link(r) ==
    /\ At(r, "link")
    /\ IF latest = <<>> THEN latest' = run[r].root /\ GoOn(r, "assemble")
       ELSE Leave(r, "failed") /\ UNCHANGED latest
    /\ UNCHANGED disk

-----------------------------------------------------------------------------
(* assemble_binaries_for_run and the start of run_sims.                      *)

\* The file wins over what it extends, and a later extension over an earlier.
BinariesOf(file) ==
    file.binaries @@ FoldLeft(LAMBDA specs, e : e.binaries @@ specs, Empty, file.extends)

\* Every file is read and parsed before the first simulation starts: one that
\* is broken, or that wants another build of a binary, fails the whole run.
Assembles(files) ==
    /\ \A f \in files : f.parses /\ \A e \in DOMAIN f.extends : f.extends[e].found
    /\ \A f, g \in files : \A b \in DOMAIN BinariesOf(f) \cap DOMAIN BinariesOf(g) :
           BinariesOf(f)[b] = BinariesOf(g)[b]

\* A build or a download may fail.
Assemble(r) ==
    /\ At(r, "assemble")
    /\ \/ Assembles({Files[f] : f \in Range(run[r].files)}) /\ GoOn(r, "begin")
       \/ Leave(r, "failed")
    /\ KeepDisk

Entry(status, dir) == [status |-> status, dir |-> dir]
WriteProgress(r, progress) ==
    /\ disk' = [disk EXCEPT ![run[r].root].progress = progress]
    /\ UNCHANGED latest

\* build_sim_report: the entries of the manifest are those of the progress.
WriteManifest(r, success) ==
    /\ disk' = [disk EXCEPT ![run[r].root].manifest =
                   [status |-> run[r].progress.status, success |-> success,
                    entries |-> run[r].progress.entries]]
    /\ UNCHANGED latest

Begin(r) ==
    LET p == [status |-> "running", completed |-> 0, ok |-> 0, error |-> 0,
              entries |-> [i \in DOMAIN run[r].files |-> Entry("pending", <<>>)]]
    IN  /\ At(r, "begin")
        /\ WriteProgress(r, p)
        /\ run' = [run EXCEPT ![r].at = "started", ![r].progress = p]

BeginManifest(r) ==
    /\ At(r, "started")
    /\ WriteManifest(r, "none")
    /\ GoOn(r, "next")

-----------------------------------------------------------------------------
(* The loop over the files: run_single_sim for each.                         *)

StartSim(r) ==
    /\ At(r, "next") /\ run[r].i <= Len(run[r].files)
    /\ LET p == [run[r].progress EXCEPT !.entries[run[r].i].status = "running"] IN
       /\ WriteProgress(r, p)
       /\ run' = [run EXCEPT ![r].at = "read", ![r].progress = p]

\* What run_single_sim_variant and finalize_failed_sim make of a simulation.
Outcome(r, dir, status) == [file |-> run[r].i, dir |-> dir, status |-> status]
MakeSimDir(r, base) == FirstFree(Sanitized(base), DOMAIN Root(r).sims)
NewSim(status) == [status |-> status, results |-> FALSE]
SetSim(r, dir, sim) ==
    /\ disk' = [disk EXCEPT ![run[r].root].sims = With(@, dir, sim)]
    /\ UNCHANGED latest

\* finalize_failed_sim, for a file: it may have been changed since assemble,
\* and its matrix is expanded here for the first time.
FailFile(r) ==
    /\ At(r, "read")
    /\ \E dir \in MakeSimDir(r, FileOf(r).base) :
       /\ SetSim(r, dir, NewSim("error"))
       /\ run' = [run EXCEPT ![r].at = "record",
                             ![r].outcomes = Append(@, Outcome(r, dir, "error"))]

ReadSim(r) ==
    /\ At(r, "read") /\ MatrixOk(FileOf(r).matrix)
    /\ run' = [run EXCEPT ![r].at = "variant", ![r].v = 1]
    /\ KeepDisk

\* A variant that does not parse; its directory has the name of the file.
FailVariant(r) ==
    /\ At(r, "variant") /\ MoreVariants(r)
    /\ \E dir \in MakeSimDir(r, FileOf(r).base) :
       /\ SetSim(r, dir, NewSim("error"))
       /\ run' = [run EXCEPT ![r].v = @ + 1,
                             ![r].outcomes = Append(@, Outcome(r, dir, "error"))]

StartVariant(r) ==
    /\ At(r, "variant") /\ MoreVariants(r)
    /\ LET name == IF VariantOf(r).name = None THEN FileOf(r).base ELSE VariantOf(r).name
       IN \E dir \in MakeSimDir(r, name) :
           /\ SetSim(r, dir, NewSim("none"))
           /\ run' = [run EXCEPT ![r].at = "execute", ![r].dir = dir]

\* execute_single_sim: any step may fail.  Results are written if all succeed.
Execute(r) ==
    /\ At(r, "execute")
    /\ \/ /\ CanRun[NameOf(r)][run[r].v]
          /\ \E results \in BOOLEAN :
                 SetSim(r, run[r].dir, [status |-> "none", results |-> results])
          /\ run' = [run EXCEPT ![r].at = "summary", ![r].result = "ok"]
       \/ /\ run' = [run EXCEPT ![r].at = "summary", ![r].result = "error"]
          /\ KeepDisk

Summarize(r) ==
    /\ At(r, "summary")
    /\ SetSim(r, run[r].dir, [Root(r).sims[run[r].dir] EXCEPT !.status = run[r].result])
    /\ run' = [run EXCEPT ![r].at = "variant", ![r].v = @ + 1, ![r].result = "none",
                          ![r].outcomes = Append(@, Outcome(r, run[r].dir, run[r].result))]

EndSim(r) ==
    /\ At(r, "variant") /\ ~MoreVariants(r)
    /\ GoOn(r, "record")
    /\ KeepDisk

\* The outcomes of a file reach the progress together; the entry of the file
\* is that of its first variant.
RecordOutcomes(r) ==
    LET outcomes == run[r].outcomes
        new == {k \in DOMAIN outcomes : outcomes[k].file = run[r].i}
        count(s) == Cardinality({k \in new : outcomes[k].status = s})
    IN  \E first \in new :
            /\ At(r, "record") /\ \A k \in new : first <= k
            /\ LET p == [run[r].progress EXCEPT
                            !.entries[run[r].i] = Entry(outcomes[first].status,
                                                        outcomes[first].dir),
                            !.completed = Len(outcomes),
                            !.ok = @ + count("ok"), !.error = @ + count("error")]
               IN  /\ WriteProgress(r, p)
                   /\ run' = [run EXCEPT ![r].at = "combine", ![r].progress = p]

\* write_combined_results_for_runs: of the directories of the outcomes.
Combined(r) ==
    {run[r].outcomes[k].dir : k \in {k \in DOMAIN run[r].outcomes :
                                        Root(r).sims[run[r].outcomes[k].dir].results}}
WriteCombined(r) ==
    /\ disk' = [disk EXCEPT ![run[r].root].combined = Combined(r)]
    /\ UNCHANGED latest

\* Mutant: the combined results are only written at the end of the run.
CombineLate(r) == At(r, "combine") /\ GoOn(r, "manifest") /\ KeepDisk

Combine(r) ==
    /\ At(r, "combine")
    /\ WriteCombined(r)
    /\ GoOn(r, "manifest")

Report(r) ==
    /\ At(r, "manifest")
    /\ WriteManifest(r, "none")
    /\ run' = [run EXCEPT ![r].at = "next", ![r].i = @ + 1]

-----------------------------------------------------------------------------
(* The end of run_sims.                                                      *)

Finish(r) ==
    /\ At(r, "next") /\ run[r].i > Len(run[r].files)
    /\ WriteCombined(r)
    /\ GoOn(r, "done")

Done(r) ==
    /\ At(r, "done")
    /\ LET p == [run[r].progress EXCEPT !.status = "done"] IN
       /\ WriteProgress(r, p)
       /\ run' = [run EXCEPT ![r].at = "verdict", ![r].progress = p]

\* Mutant: the verdict is read off the entries of the files.
VerdictOfEntries(r) ==
    /\ At(r, "verdict")
    /\ LET good == \A i \in DOMAIN run[r].progress.entries :
                       run[r].progress.entries[i].status = "ok"
       IN  /\ WriteManifest(r, IF good THEN "yes" ELSE "no")
           /\ Leave(r, IF good THEN "ok" ELSE "failed")

Verdict(r) ==
    /\ At(r, "verdict")
    /\ LET good == \A k \in DOMAIN run[r].outcomes : run[r].outcomes[k].status = "ok"
       IN  /\ WriteManifest(r, IF good THEN "yes" ELSE "no")
           /\ Leave(r, IF good THEN "ok" ELSE "failed")

RunsNext ==
    \E r \in Runners :
        \/ MakeRoot(r) \/ Unlink(r) \/ Link(r) \/ Assemble(r) \/ Begin(r) \/ BeginManifest(r)
        \/ StartSim(r) \/ FailFile(r) \/ ReadSim(r) \/ FailVariant(r) \/ StartVariant(r)
        \/ Execute(r) \/ Summarize(r) \/ EndSim(r)
        \/ RecordOutcomes(r) \/ Combine(r) \/ Report(r) \/ Finish(r) \/ Done(r) \/ Verdict(r)

RunsSpec == RunsInit /\ [][RunsNext]_runVars

-----------------------------------------------------------------------------
(* What must hold.                                                          *)

\* Nobody writes where another has written: two runners never have the same
\* directory, two simulations of a run neither, and a directory keeps the
\* status of its simulation (runner.rs:741-791).
OwnDirs ==
    \A r \in Runners : run[r].root # <<>> =>
        /\ \A q \in Runners : run[q].root = run[r].root => q = r
        /\ \A k, l \in DOMAIN run[r].outcomes :
               run[r].outcomes[k].dir = run[r].outcomes[l].dir => k = l
        /\ \A k \in DOMAIN run[r].outcomes :
               Root(r).sims[run[r].outcomes[k].dir].status = run[r].outcomes[k].status

\* The runner succeeds exactly if every variant of every file has run and
\* succeeded, and the manifest, the counts and the entries it leaves behind
\* say the same (runner.rs:236-297).
VerdictRight ==
    \A r \in Runners : LET p == Root(r).progress IN
        run[r].root # <<>> /\ Root(r).manifest.success # "none" =>
            /\ run[r].exit = "ok" <=>
                   \A i \in DOMAIN run[r].files :
                       /\ MatrixOk(Files[run[r].files[i]].matrix)
                       /\ Cardinality({k \in DOMAIN run[r].outcomes :
                                          run[r].outcomes[k].file = i
                                              /\ run[r].outcomes[k].status = "ok"})
                              = Len(VariantsOf[run[r].files[i]])
            /\ Root(r).manifest = [status |-> "done", entries |-> p.entries,
                                   success |-> IF run[r].exit = "ok" THEN "yes" ELSE "no"]
            /\ p.completed = p.ok + p.error /\ p.completed = Len(run[r].outcomes)
            /\ p.error = 0 <=> run[r].exit = "ok"
            /\ \A i \in DOMAIN p.entries : p.entries[i].status \in {"ok", "error"}

\* Whenever the runner is killed: the manifest names no simulation whose
\* results the combined results lack (runner.rs:252-262).
CombinedFirst ==
    \A r \in Runners : run[r].root # <<>> =>
        \A i \in DOMAIN Root(r).manifest.entries :
            LET e == Root(r).manifest.entries[i] IN
            e.dir # <<>> /\ Root(r).sims[e.dir].results => e.dir \in Root(r).combined

\* The steps that leave captures under an id.
Capturing == {"run", "spawn", "gen-certs", "gen-file"}
Capturers(steps) == {i \in DOMAIN steps : steps[i].kind \in Capturing /\ steps[i].id # None}

\* A simulation as its author means it: steps address declared devices, ids
\* are unique and no instance's, an id of a counted device is its name, no
\* count is one, and only steps of counted devices, assertions and waits refer
\* to a counted device.
Meant(sim) ==
    LET steps == Expanded(sim)
        topo == TopologyOf(sim)
        counts == DeviceCounts(topo)
        ids == Capturers(steps)
    IN  /\ \A d \in DOMAIN topo.devices : topo.devices[d].count # <<1>>
        /\ \A i \in DOMAIN steps : steps[i].device \in DOMAIN topo.devices \cup {None}
        /\ \A i, j \in ids : steps[i].id = steps[j].id => i = j
        /\ \A i \in ids :
               /\ steps[i].device \in DOMAIN counts \/ steps[i].id \in DOMAIN counts
                      => steps[i].id = steps[i].device
               /\ \A d \in DOMAIN counts : steps[i].id \notin Instances(d, counts[d])
        /\ \A i \in DOMAIN steps : steps[i].kind = "wait-for" =>
               \E j \in ids : steps[j].id = steps[i].id
        /\ \A i \in DOMAIN steps : \A k \in DOMAIN steps[i].refs :
               /\ \E j \in ids : steps[j].id = steps[i].refs[k]
               /\ steps[i].refs[k] \in DOMAIN counts =>
                      steps[i].device \in DOMAIN counts \/ steps[i].kind = "assert"

\* A router whose upstream is a router of the file is connected to it.
LabAsDescribed(topo) ==
    \A x \in RouterNames(topo) :
        UpstreamIn(topo, x) \in RouterNames(topo) => UplinkOf(topo, x) = UpstreamIn(topo, x)

StepsFit(topo, steps) ==
    LET captured == {steps[i].id : i \in Capturers(steps)} IN
    /\ \A i, j \in Capturers(steps) : steps[i].id = steps[j].id => i = j
    /\ \A i \in DOMAIN steps :
           /\ steps[i].device \in LabDevices(topo) \cup {None}
           /\ \A k \in DOMAIN steps[i].refs : steps[i].refs[k] \in captured
           /\ steps[i].kind = "wait-for" => steps[i].id \in captured

\* The lab of a simulation is the one its file describes: a router whose
\* upstream is a router of the file is connected to it and never to the IX
\* instead (lab.rs:707-755).  And the steps fit that lab, if they are written
\* as meant: after all expansions every step addresses a device of the lab, ids
\* are unique, and whatever a step refers to or waits for is captured by a
\* step that is run (runner.rs:1425-1645).
StepsResolve ==
    \A r \in Runners : At(r, "execute") /\ CanRun[NameOf(r)][run[r].v] =>
        LET sim == VariantOf(r) IN
        /\ LabAsDescribed(TopologyOf(sim))
        /\ Meant(sim) => StepsFit(TopologyOf(sim), StepsToRun(sim))

\* docs/reference/toml-reference.md:109: "Steps can include a `when` field to
\* conditionally skip execution".  A step that is guarded by false is skipped.
GuardsKept ==
    \A r \in Runners : At(r, "execute") /\ CanRun[NameOf(r)][run[r].v] =>
        LET sim == VariantOf(r) IN
        \A i \in DOMAIN Flattened(sim) :
            Flattened(sim)[i].step.when = "false" => Expanded(sim)[i].when = "false"
=============================================================================
