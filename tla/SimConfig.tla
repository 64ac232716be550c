----------------------------- MODULE SimConfig -----------------------------
(* From the file of a simulation to what is run (patchbay-runner/sim): the   *)
(* variants of its matrix, its steps after templates, groups and counted     *)
(* devices are expanded, and the lab its topology gives (patchbay/lab.rs).   *)
(* A text - a name, an id, a reference - is a sequence of tokens.  A          *)
(* placeholder is one token; the tokens of a name are joined by dashes.      *)
EXTENDS Naturals, Sequences, FiniteSets, SequencesExt

CONSTANT Topologies     \* the topology files, by name

None == <<>>
Empty == [x \in {} |-> ""]

\* What the parsers give: a list of routers, device names that are texts, and
\* counts that are numbers or absent.  Different numbers are written differently.
IsList(x) == x \in Seq(Range(x))
TopologyFits(topo) ==
    /\ IsList(topo.routers)
    /\ \A d \in DOMAIN topo.devices : LET count == topo.devices[d].count IN
           /\ d \in Seq(STRING) /\ d # None
           /\ count \in Seq(Nat) /\ Len(count) <= 1
           /\ count # None =>
                  \A i, j \in 0..(count[1] - 1) : ToString(i) = ToString(j) => i = j

ASSUME TopologiesAssumption == \A name \in DOMAIN Topologies : TopologyFits(Topologies[name])

Token(token, map) == IF token \in DOMAIN map THEN map[token] ELSE token
Substitute(text, map) == [i \in DOMAIN text |-> Token(text[i], map)]
Numbered(text, i) == Append(text, ToString(i))
Instances(text, n) == {Numbered(text, i) : i \in 0..(n - 1)}

\* A step.  refs are the ids whose captures it requires, names in its command
\* or collects as results; the token "." stands for the step's own id.
SimStep(kind, device, id, refs, when) ==
    [kind |-> kind, device |-> device, id |-> id, refs |-> refs, when |-> when]

\* An entry of the list of steps: a step, or the use of a template or group.
Concrete(step) == [use |-> "none", vars |-> Empty, step |-> step]
Use(name, vars, step) == [use |-> name, vars |-> vars, step |-> step]

-----------------------------------------------------------------------------
(* matrix.rs.                                                               *)

\* extract_matrix refuses an axis without values.
MatrixOk(axes) == \A i \in DOMAIN axes : axes[i].values # <<>>

\* An axis adds its value and the parameters of that value to a combination.
ParamsOf(axis, value) == IF value \in DOMAIN axis.params THEN axis.params[value] ELSE Empty
WithValue(combo, axis, value) ==
    LET params == ParamsOf(axis, value)
    IN  [k \in DOMAIN params \cup {axis.key} \cup DOMAIN combo |->
            IF k \in DOMAIN params THEN params[k] ELSE IF k = axis.key THEN value ELSE combo[k]]
TimesAxis(combos, axis) ==
    FlattenSeq([i \in DOMAIN combos |->
        [j \in DOMAIN axis.values |-> WithValue(combos[i], axis, axis.values[j])]])

\* cartesian_product; without a matrix there is one variant.
Combinations(axes) ==
    LET product[n \in 0..Len(axes)] ==
            IF n = 0 THEN <<Empty>> ELSE TimesAxis(product[n - 1], axes[n])
    IN  product[Len(axes)]

SubstituteStep(s, map) ==
    SimStep(s.kind, Substitute(s.device, map), Substitute(s.id, map),
            [i \in DOMAIN s.refs |-> Substitute(s.refs[i], map)], Token(s.when, map))

SubstituteEntries(entries, map) ==
    [i \in DOMAIN entries |->
        Use(entries[i].use, [k \in DOMAIN entries[i].vars |-> Token(entries[i].vars[k], map)],
            SubstituteStep(entries[i].step, map))]

\* expand_matrix: the texts of the file itself, not of the files it extends.
Variant(file, map) ==
    [file EXCEPT
        !.name = Substitute(file.name, map), !.topology = Substitute(file.topology, map),
        !.entries = SubstituteEntries(file.entries, map),
        !.templates = [t \in DOMAIN file.templates |-> SubstituteStep(file.templates[t], map)],
        !.groups = [g \in DOMAIN file.groups |->
            [keys |-> file.groups[g].keys,
             steps |-> SubstituteEntries(file.groups[g].steps, map)]]]

Variants(file) ==
    LET maps == Combinations(file.matrix) IN [i \in DOMAIN maps |-> Variant(file, maps[i])]

-----------------------------------------------------------------------------
(* load_extends and expand_steps.                                           *)

\* Of two files the first wins, and the simulation wins over both.
Merged(tables) ==
    [name \in UNION {DOMAIN tables[i] : i \in DOMAIN tables} |->
        tables[Min({i \in DOMAIN tables : name \in DOMAIN tables[i]})][name]]

Sources(sim) ==
    [i \in 1..(Len(sim.extends) + 1) |-> IF i = 1 THEN sim ELSE sim.extends[i - 1]]
Templates(sim) == Merged([i \in DOMAIN Sources(sim) |-> Sources(sim)[i].templates])
Groups(sim) == Merged([i \in DOMAIN Sources(sim) |-> Sources(sim)[i].groups])

\* A step of a group that uses a template keeps id, device and requires only.
GroupEntries(entry, group) ==
    [i \in DOMAIN group.steps |->
        LET e == group.steps[i]
            s == SubstituteStep(e.step, entry.vars)
        IN  IF e.use = "none" THEN Concrete(s)
            ELSE Use(e.use, Empty, SimStep(s.kind, s.device, s.id, s.refs, "true"))]

Flattened(sim) ==
    FlattenSeq([i \in DOMAIN sim.entries |->
        LET e == sim.entries[i] IN
        IF e.use \in DOMAIN Groups(sim) THEN GroupEntries(e, Groups(sim)[e.use]) ELSE <<e>>])

\* Unknown names, and group variables that are not given, are errors.
StepsOk(sim) ==
    /\ \A i \in DOMAIN sim.entries : LET e == sim.entries[i] IN
           e.use \in DOMAIN Groups(sim) => Groups(sim)[e.use].keys \subseteq DOMAIN e.vars
    /\ \A i \in DOMAIN Flattened(sim) :
           Flattened(sim)[i].use \in DOMAIN Templates(sim) \cup {"none"}

\* merge_use_step: the entry overrides id and device and adds its references.
\* The guard of an entry that uses a template is taken off when it is read.
MergeUse(entry, template) ==
    LET id == IF entry.step.id = None THEN template.id ELSE entry.step.id
        device == IF entry.step.device = None THEN template.device ELSE entry.step.device
        refs == template.refs \o entry.step.refs
    IN  SimStep(template.kind, device, id,
                [i \in DOMAIN refs |-> IF refs[i] = <<".">> /\ id # None THEN id ELSE refs[i]],
                "true")

\* The table of a step is read: what a step of its kind has no field for is lost.
Parsed(s) ==
    SimStep(s.kind,
            IF s.kind \in {"wait", "wait-for", "assert"} THEN None ELSE s.device,
            IF s.kind \in {"run", "spawn", "wait-for", "gen-certs", "gen-file"} THEN s.id ELSE None,
            IF s.kind \in {"run", "spawn", "gen-file", "assert"} THEN s.refs ELSE <<>>,
            s.when)

Expanded(sim) ==
    [i \in DOMAIN Flattened(sim) |->
        LET e == Flattened(sim)[i] IN
        Parsed(IF e.use = "none" THEN e.step ELSE MergeUse(e, Templates(sim)[e.use]))]

-----------------------------------------------------------------------------
(* load_topology and Lab::from_config.                                      *)

NoTopology == [routers |-> <<>>, devices |-> [d \in {} |-> [count |-> <<>>, gateways |-> {}]]]

TopologyOk(sim) ==
    sim.topology # None => sim.topology \in DOMAIN Topologies /\ sim.inline = NoTopology
TopologyOf(sim) == IF sim.topology = None THEN sim.inline ELSE Topologies[sim.topology]

\* Of two routers with one name the last counts.
RouterNames(topo) == {topo.routers[i].name : i \in DOMAIN topo.routers}
UpstreamIn(topo, r) ==
    topo.routers[Max({i \in DOMAIN topo.routers : topo.routers[i].name = r})].upstream

\* A router is ready when its upstream is not pending.
Ready(topo, built) ==
    {r \in RouterNames(topo) \ built : UpstreamIn(topo, r) \notin RouterNames(topo) \ built}

\* The routers after each round.
Built(topo) ==
    LET rounds[k \in 0..Len(topo.routers)] ==
            IF k = 0 THEN {} ELSE rounds[k - 1] \cup Ready(topo, rounds[k - 1])
    IN  rounds

\* Where a router is connected: to its upstream if that is there by then.
UplinkOf(topo, r) ==
    LET round == CHOOSE k \in 1..Len(topo.routers) :
                     r \in Built(topo)[k] /\ r \notin Built(topo)[k - 1]
    IN  IF UpstreamIn(topo, r) \in Built(topo)[round - 1] THEN UpstreamIn(topo, r) ELSE "ix"

\* A count is <<n>>, or <<>> if there is none.  With a count a device has numbered
\* instances, also when the count is one.
DevicesOf(topo, d) ==
    IF topo.devices[d].count = <<>> THEN {d} ELSE Instances(d, topo.devices[d].count[1])

LabDevices(topo) == UNION {DevicesOf(topo, d) : d \in DOMAIN topo.devices}

\* No cycle of upstreams, no unknown gateway, no device without an interface,
\* no count of zero and no name twice.
LabOk(topo) ==
    /\ Built(topo)[Len(topo.routers)] = RouterNames(topo)
    /\ \A d \in DOMAIN topo.devices : LET dev == topo.devices[d] IN
           dev.gateways # {} /\ dev.gateways \subseteq RouterNames(topo) /\ dev.count # <<0>>
    /\ \A d, e \in DOMAIN topo.devices :
           d # e => DevicesOf(topo, d) \cap DevicesOf(topo, e) = {}

-----------------------------------------------------------------------------
(* expand_counted_steps.                                                    *)

\* device_counts leaves out a count of one.
DeviceCounts(topo) ==
    LET counted == {d \in DOMAIN topo.devices : topo.devices[d].count \notin {<<>>, <<1>>}}
    IN  [d \in counted |-> topo.devices[d].count[1]]

\* Mutant: instance i refers to instance i, of a device with fewer instances too.
CountedRefUnwrapped(ref, i, counts) == IF ref \in DOMAIN counts THEN Numbered(ref, i) ELSE ref

\* A reference to another counted device goes round its instances.
CountedRef(ref, i, counts) ==
    IF ref \in DOMAIN counts THEN Numbered(ref, i % counts[ref]) ELSE ref

CountedStep(s, counts) ==
    LET refs(i) ==
            IF s.kind \in {"run", "spawn", "gen-file"}
            THEN [k \in DOMAIN s.refs |-> CountedRef(s.refs[k], i, counts)] ELSE s.refs
        instance(i) ==
            SimStep(s.kind, Numbered(s.device, i),
                    IF s.id = None THEN None ELSE Numbered(s.id, i), refs(i), s.when)
        all(ref) == IF ref \notin DOMAIN counts THEN <<ref>>
                    ELSE [i \in 1..counts[ref] |-> Numbered(ref, i - 1)]
    IN  IF s.device \in DOMAIN counts THEN [i \in 1..counts[s.device] |-> instance(i - 1)]
        ELSE IF s.kind = "wait-for" /\ s.id \in DOMAIN counts
        THEN [i \in 1..counts[s.id] |-> [s EXCEPT !.id = Numbered(s.id, i - 1)]]
        ELSE IF s.kind = "assert"
        THEN <<[s EXCEPT !.refs = FlattenSeq([k \in DOMAIN s.refs |-> all(s.refs[k])])]>>
        ELSE <<s>>

StepsToRun(sim) ==
    LET steps == Expanded(sim)
        counts == DeviceCounts(TopologyOf(sim))
    IN  FlattenSeq([i \in DOMAIN steps |-> CountedStep(steps[i], counts)])

\* What has to hold for the steps of a simulation to be able to succeed.
Runnable(sim) ==
    /\ \A i \in DOMAIN sim.extends : sim.extends[i].found
    /\ TopologyOk(sim)
    /\ LabOk(TopologyOf(sim))
    /\ StepsOk(sim)
    /\ \A i \in DOMAIN StepsToRun(sim) : LET s == StepsToRun(sim)[i] IN
           s.device # None /\ s.when # "false" => s.device \in LabDevices(TopologyOf(sim))
=============================================================================
