------------------------------ MODULE IDLease -------------------------------
(***************************************************************************)
(* What the API server promises about VM IDs, without its mechanism: an ID *)
(* that is handed out belongs to one live holder only, until a fleet that  *)
(* was given it is deleted.  From then on the ID is tainted: deleteFleet   *)
(* has freed it under a VM that may still run, and nothing is promised.    *)
(*                                                                         *)
(* Server is shown to keep this promise.  VMLaunch, which models what the  *)
(* holders do to the host, is shown to rely on no more than it.            *)
(***************************************************************************)
CONSTANT Holders   \* fleets and scenarios, or single VM goroutines

VARIABLES
  granted,   \* granted[h]: the IDs h was given, also after it has ended
  open,      \* the holders that are live
  tainted    \* the IDs that a deleted fleet was given

leaseVars == <<granted, open, tainted>>

Init ==
  /\ granted = [h \in Holders |-> {}]
  /\ open = {}
  /\ tainted = {}

\* A holder is given IDs, once; none that another live holder has, unless it
\* is tainted.
Grant(h) ==
  /\ granted[h] = {} /\ h \notin open
  /\ open' = open \cup {h}
  /\ \A g \in Holders \ {h} : granted'[g] = granted[g]
  /\ \A g \in open : granted'[h] \cap granted[g] \subseteq tainted
  /\ UNCHANGED tainted

\* The holder's goroutine has ended.
Close(h) ==
  /\ h \in open
  /\ open' = open \ {h}
  /\ UNCHANGED <<granted, tainted>>

\* The fleet h, or the fleet the VM h belongs to, is deleted.
Taint(h) ==
  /\ tainted' = tainted \cup granted[h]
  /\ UNCHANGED <<granted, open>>

Next == \E h \in Holders : Grant(h) \/ Close(h) \/ Taint(h)

LeaseSpec == Init /\ [][Next]_leaseVars
=============================================================================
