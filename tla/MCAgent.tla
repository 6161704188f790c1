------------------------------- MODULE MCAgent ------------------------------
(* Model-checking instance of Agent.                                       *)
EXTENDS Agent

\* Every type startFault knows, and one it does not know.
AllTypes == {"cpu", "memory", "disk", "network", "process", "dns", "unknown"}

\* One type of each way to carry a fault: a goroutine that works, a goroutine
\* that only cleans up, none at all.
OneOfEach == {"disk", "network", "process"}
=============================================================================
