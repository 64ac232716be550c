----------------------------- MODULE RouterOps -----------------------------
(* A router with its two groups of runtime operations.  Its packet rules    *)
(* (RouterRules) and its RA settings (RaRoutes) are independent state under *)
(* one op mutex: an operation of one group waits for one of the other.      *)
EXTENDS RouterRules, RaRoutes

CONSTANTS
    R0,       \* the router whose rules RouterRules has
    Budgets   \* bound: pairs of the operations on rules and on RA and routes

ASSUME OpsAssumption == R0 \in Routers /\ Budgets \subseteq Nat \X Nat

VARIABLE left   \* operations that may still start

vars == <<rulesVars, raVars, left>>

Spend(i) == left[i] > 0 /\ left' = [left EXCEPT ![i] = @ - 1]

Init == RulesInit /\ RaInit /\ left \in Budgets

\* The RA worker and the router handle exist once the build has returned.
Built == op.kind \notin {"build", "failed"}

RuleOp ==
    \/ RulesStart /\ rop[R0] = RopIdle /\ Spend(1) /\ UNCHANGED raVars
    \/ RulesStep /\ UNCHANGED <<raVars, left>>
    \/ Traffic /\ (left[1] > 0 \/ op.kind \in {"nat", "fw", "flush"}) /\ UNCHANGED <<raVars, left>>

RaOp ==
    /\ Built
    /\ UNCHANGED rulesVars
    /\ \/ RaStart /\ (rop'[R0] # rop[R0] => op = Idle) /\ Spend(2)
       \/ DeviceStart /\ Spend(2)
       \/ RaStep /\ UNCHANGED left

RaWorker(r) == Built /\ Worker(r) /\ UNCHANGED <<rulesVars, left>>

Next == RuleOp \/ RaOp \/ \E r \in Routers : RaWorker(r)

\* The worker is a task of the router's runtime, and its timer always fires.
Spec == Init /\ [][Next]_vars /\ \A r \in Routers : WF_vars(RaWorker(r))

-----------------------------------------------------------------------------

\* A worker that was spawned at last advertises the settings that stay: a
\* change between the load of the interval and the creation of the Notified
\* wakes nobody and waits for the tick (wiring.rs:524-544).
AdvertisedEventually ==
    \A r \in Routers : worker[r] # "none" /\ <>Built => <>[]Current(r)
=============================================================================
