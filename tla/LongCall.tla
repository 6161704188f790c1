------------------------------ MODULE LongCall ------------------------------
(***************************************************************************)
(* Calls that block on a cancellable context, as their callers know them:  *)
(* launchFleet and Runner.Run for the API server, the launch of one VM for *)
(* those two.  A call may return at any moment and for any reason; it      *)
(* blames the cancellation only if there was one; once it is cancelled it  *)
(* has to return.                                                          *)
(***************************************************************************)
CONSTANT Calls

VARIABLES
  at,          \* at[c]: "idle", "running" or "returned"
  cancelled,   \* cancelled[c]: the context is done
  blamed       \* blamed[c]: the call has returned because of the cancellation

callVars == <<at, cancelled, blamed>>

Init ==
  /\ at \in [Calls -> {"idle", "running"}]
  /\ cancelled = [c \in Calls |-> FALSE]
  /\ blamed = [c \in Calls |-> FALSE]

Enter(c) ==
  /\ at[c] = "idle"
  /\ at' = [at EXCEPT ![c] = "running"]
  /\ UNCHANGED <<cancelled, blamed>>

Cancel(c) ==
  /\ cancelled' = [cancelled EXCEPT ![c] = TRUE]
  /\ UNCHANGED <<at, blamed>>

Return(c) ==
  /\ at[c] = "running"
  /\ at' = [at EXCEPT ![c] = "returned"]
  /\ blamed' \in {blamed, [blamed EXCEPT ![c] = cancelled[c]]}
  /\ UNCHANGED cancelled

Next == \E c \in Calls : Enter(c) \/ Cancel(c) \/ Return(c)

CallSpec == Init /\ [][Next]_callVars

\* A call that is under way and cancelled returns.
CancelledReturns ==
  \A c \in Calls : cancelled[c] /\ at[c] = "running" ~> at[c] = "returned"
=============================================================================
