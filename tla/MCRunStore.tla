---------------------------- MODULE MCRunStore ----------------------------
(* Two projects and two pushes.  The tests A and B have the same function    *)
(* name in two suites; the archives have test directories with and without a *)
(* result and results without one, results that run.json lists too, with the *)
(* same status and with another one, no run.json, and one that does not      *)
(* parse.                                                                    *)
EXTENDS RunStore

TestA == [suite |-> "a", fn |-> "f"]
TestB == [suite |-> "b", fn |-> "f"]
TestC == [suite |-> "a", fn |-> "g"]
TestD == [suite |-> "a", fn |-> "h"]

MCProjects == {1, 2}
MCArchives == {
    [dirs |-> {TestA, TestD}, json |-> "ok", listed |-> <<Nextest(TestA, "fail")>>,
     results |-> <<Nextest(TestC, "fail"), Nextest(TestA, "fail")>>],
    [dirs |-> {}, json |-> "ok", listed |-> <<Nextest(TestA, "pass")>>,
     results |-> <<Nextest(TestA, "fail"), Nextest(TestB, "fail")>>],
    [dirs |-> {}, json |-> "none", listed |-> <<>>, results |-> <<Nextest(TestC, "fail")>>],
    [dirs |-> {}, json |-> "broken", listed |-> <<>>, results |-> <<>>]}
=============================================================================
