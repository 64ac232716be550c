---------------------------- MODULE MCLabEvents ----------------------------
(* Small instances of LabEvents for TLC. *)
EXTENDS LabEvents, TLC

CONSTANTS d1, e0, e1, r1, r2

(* Interfaces and routers are interchangeable: one port stands for all.    *)
MCPorts == {<<e0, r1>>}
============================================================================
