----------------------------- MODULE MCSimRuns -----------------------------
(* Two runners that start in the same second.  The file "pair" has a matrix  *)
(* over two topologies with counted devices, a template, a group and a       *)
(* guard, and the name "a" for both variants; "single" is called "a-1" and   *)
(* has its topology inline; the others are broken in one way each.           *)
EXTENDS SimRuns

Router(name, upstream) == [name |-> name, upstream |-> upstream]
Device(count, gateway) == [count |-> count, gateways |-> {gateway}]
Topo(routers, provider, fetcher) ==
    [routers |-> routers,
     devices |-> (<<"provider">> :> provider) @@ (<<"fetcher">> :> fetcher)]

\* A child is declared before its parent, and sorts before it.
Nested == <<Router("a", "b"), Router("b", "none")>>

MCTopologies ==
    (<<"wide">> :> Topo(Nested, Device(<<2>>, "b"), Device(<<3>>, "a")))
        @@ (<<"one">> :> Topo(Nested, Device(<<>>, "b"), Device(<<2>>, "a")))

P == <<"provider">>
F == <<"fetcher">>
Nothing == [x \in {} |-> ""]
Serve == SimStep("spawn", None, None, <<>>, "true")
Wait(id) == Concrete(SimStep("wait-for", None, id, <<>>, "true"))
Check(id) == Concrete(SimStep("assert", None, None, <<id>>, "true"))

Plain == [base |-> <<"plain">>, parses |-> TRUE, matrix |-> <<>>, name |-> None,
          topology |-> <<"one">>, inline |-> NoTopology, entries |-> <<>>,
          templates |-> Nothing, groups |-> Nothing, extends |-> <<>>, binaries |-> Nothing]

Defaults == [found |-> TRUE, templates |-> ("serve" :> Serve), binaries |-> ("tool" :> "v1"),
             groups |-> ("setup" :> [keys |-> {"${group.id}"},
                 steps |-> <<Use("serve", Nothing,
                                 SimStep("spawn", <<"${group.id}">>, <<"${group.id}">>, <<>>, "true")),
                             Wait(<<"${group.id}">>)>>])]

Pair == [Plain EXCEPT !.base = <<"pair">>, !.name = <<"a">>, !.topology = <<"${matrix.topo}">>,
    !.matrix = <<[key |-> "${matrix.topo}", values |-> <<"wide", "one">>,
                  params |-> ("wide" :> ("${matrix.slow}" :> "false"))
                                 @@ ("one" :> ("${matrix.slow}" :> "true"))]>>,
    !.extends = <<Defaults>>,
    !.entries = <<Use("setup", "${group.id}" :> "provider", SimStep("use", None, None, <<>>, "true")),
                  Concrete(SimStep("set", F, None, <<>>, "${matrix.slow}")),
                  Concrete(SimStep("run", F, F, <<P>>, "true")),
                  Check(F)>>]

Single == [Plain EXCEPT !.base = <<"single">>, !.name = <<"a", "1">>, !.topology = None,
    !.inline = Topo(Nested, Device(<<>>, "b"), Device(<<>>, "a")),
    !.templates = ("serve" :> Serve),
    !.entries = <<Use("serve", Nothing, SimStep("spawn", P, P, <<>>, "true")),
                  Concrete(SimStep("run", F, F, <<P>>, "true"))>>]

\* A guard on the use of a template.
Guarded == [Single EXCEPT !.entries =
    <<Use("serve", Nothing, SimStep("spawn", P, P, <<>>, "false"))>>]

NoValues == [Plain EXCEPT !.matrix = <<[key |-> "k", values |-> <<>>, params |-> Nothing]>>]
Cycle == [Plain EXCEPT !.topology = None,
    !.inline = Topo(<<Router("a", "b"), Router("b", "a")>>, Device(<<>>, "b"), Device(<<>>, "a"))]
Other == [Plain EXCEPT !.binaries = ("tool" :> "v2")]

MCFiles == [pair |-> Pair, single |-> Single, guarded |-> Guarded, novalues |-> NoValues,
            cycle |-> Cycle, other |-> Other]
MCFileLists == {<<"pair", "single">>, <<"cycle", "novalues">>, <<"pair", "other">>}
Symmetry == Permutations(Runners)
OneFile == {<<"guarded">>}
=============================================================================
