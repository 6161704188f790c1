---------------------------- MODULE MCScenarioRun ---------------------------
(* Model-checking instance of ScenarioRun: two VMs, a fault on both, a     *)
(* fault on one, a fault with a trigger and a fault with a bad "at".       *)
EXTENDS ScenarioRun, TLC

CONSTANTS v1, v2, f1, f2, f3, f4

AllTargets == f1 :> {v1, v2} @@ f2 :> {v2} @@ f3 :> {v1} @@ f4 :> {v1}
=============================================================================
