----------------------------- MODULE MCSimSteps -----------------------------
(* Small simulations for TLC. *)
EXTENDS SimSteps

CONSTANTS srv, cli

Blank == [kind |-> "lab", id |-> srv, requires |-> <<>>, refs |-> <<>>, out |-> 0, err |-> 0,
          hangs |-> FALSE, left |-> "nothing", capture |-> "none", json |-> FALSE, results |-> FALSE,
          sleep |-> 0, timeout |-> 1]

(* A server that prints its address and runs on; a client that needs it.   *)
Server == [Blank EXCEPT !.kind = "spawn", !.out = 1, !.capture = "out", !.hangs = TRUE]
Client == [Blank EXCEPT !.kind = "run", !.id = cli, !.requires = <<srv>>, !.out = 2,
                        !.err = 1, !.capture = "err", !.results = TRUE]
(* A transfer with a summary on its last line, or as one document.         *)
Transfer == [Blank EXCEPT !.kind = "spawn", !.id = cli, !.refs = <<srv>>, !.out = 2,
                          !.capture = "out", !.results = TRUE, !.sleep = 1]
Report == [Transfer EXCEPT !.json = TRUE, !.out = 1, !.err = 1]
RunReport == [Report EXCEPT !.kind = "run"]
WaitFor1(i) == [Blank EXCEPT !.kind = "wait-for", !.id = i]
Pause == [Blank EXCEPT !.kind = "wait", !.sleep = 1]
Check(i) == [Blank EXCEPT !.kind = "assert", !.id = i]
GenCert == [Blank EXCEPT !.kind = "gen"]

(* A command that goes to the background with its pipes.                   *)
Daemon(s, left) == [s EXCEPT !.left = left]

Simulations == {
    <<Server, Client, Check(cli)>>,
    <<Server, Transfer, WaitFor1(cli), WaitFor1(cli)>>,
    <<GenCert, Transfer, WaitFor1(cli), Blank>>,
    <<GenCert, Report, WaitFor1(cli), WaitFor1(srv)>>,
    <<Server, Pause, RunReport>>,
    <<[Pause EXCEPT !.sleep = NoParse]>>,
    <<Transfer, Client>>,
    <<Server, WaitFor1(srv)>>,
    <<Server, Daemon(Transfer, "ends"), WaitFor1(cli)>>,
    <<Daemon(RunReport, "ends"), Check(cli)>>,
    <<GenCert, Daemon(Report, "hangs"), Server, WaitFor1(cli)>>,
    <<Daemon([Server EXCEPT !.capture = "none"], "hangs"), Pause>>,
    <<Daemon(Server, "ends"), [Client EXCEPT !.hangs = TRUE]>>}

=============================================================================
