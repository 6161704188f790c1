------------------------------- MODULE Server -------------------------------
(***************************************************************************)
(* The in-memory state of the REST API server (package api): the global    *)
(* table of VM IDs in use, the fleet entries and the scenario entries, and *)
(* the handler and goroutine steps that change them.  A step is one        *)
(* critical section of Server.mu, or the return of the long-running call   *)
(* (launchFleet, Runner.Run) a background goroutine is blocked in.         *)
(*                                                                         *)
(* Handlers that only read (list, get) and requests answered with an error *)
(* before any state changes are stuttering steps.  Hints and scores, which *)
(* share no state with the ID table, are not part of this module.          *)
(***************************************************************************)
EXTENDS Naturals, FiniteSets

CONSTANTS
  Fleets,      \* the UUIDs of the fleets that requests create
  Scenarios,   \* the UUIDs of the scenarios that requests create
  Counts       \* the VM counts a request can ask for

ASSUME ServerAssumption ==
  /\ Fleets \cap Scenarios = {}   \* uuid.New never repeats a value
  /\ Counts \subseteq Nat

Owners == Fleets \cup Scenarios

VARIABLES
  usedIDs,     \* Server.usedIDs: the VM IDs marked as in use
  ids,         \* ids[o]: the vmIDs allocated to entry o
  status,      \* status[o]: the Status the API reports, "absent" if o is not in the map
  cancelled,   \* cancelled[o]: the entry's context has been cancelled
  pc,          \* pc[o]: how far the handler and the goroutine of o have come
  result       \* result[s]: why Runner.Run of scenario s returned

vars == <<usedIDs, ids, status, cancelled, pc, result>>

(***************************************************************************)
(* idle       no request has created the entry yet                         *)
(* allocated  createScenario is between its two critical sections          *)
(* spawned    createFleet has registered the entry, its goroutine has not  *)
(*            taken the lock yet                                           *)
(* running    the goroutine is inside launchFleet or Runner.Run            *)
(* returned   that call has returned, the last critical section is ahead   *)
(* finished   the goroutine has ended, or createScenario has given up      *)
(***************************************************************************)
PCs == {"idle", "allocated", "spawned", "running", "returned", "finished"}

FleetStatuses == {"absent", "starting", "running", "stopped"}
ScenarioStatuses == {"absent", "running", "complete", "aborted"}

Results == {"none", "solved", "cancelled", "error"}

Live(o) == pc[o] \notin {"idle", "finished"}

\* Types; a fleet only ever has the statuses FleetEntry.Status documents, and a
\* scenario those of ScenarioEntry.Status.
TypeOK ==
  /\ usedIDs \subseteq Nat
  /\ ids \in [Owners -> SUBSET Nat]
  /\ status \in [Owners -> FleetStatuses \cup ScenarioStatuses]
  /\ \A f \in Fleets : status[f] \in FleetStatuses
  /\ \A s \in Scenarios : status[s] \in ScenarioStatuses
  /\ cancelled \in [Owners -> BOOLEAN]
  /\ pc \in [Owners -> PCs]
  /\ result \in [Scenarios -> Results]

Init ==
  /\ usedIDs = {}
  /\ ids = [o \in Owners |-> {}]
  /\ status = [o \in Owners |-> "absent"]
  /\ cancelled = [o \in Owners |-> FALSE]
  /\ pc = [o \in Owners |-> "idle"]
  /\ result = [s \in Scenarios |-> "none"]

-----------------------------------------------------------------------------
(***************************************************************************)
(* VM IDs.                                                                 *)
(***************************************************************************)

\* Plausible slip: IDs are handed out above the highest one in use.
AllocateVMIDsAppend(count) ==
  LET base == Cardinality(usedIDs) IN {c \in base..(base + count - 1) : c \notin usedIDs}

\* Plausible slip: the used table is not consulted.
AllocateVMIDsBlind(count) == 0..(count - 1)

\* allocateVMIDs scans the candidates from 0 and takes every free one until it
\* has count of them: a free candidate is taken iff fewer than count free ones
\* lie below it.  The scan ends after at most count + |usedIDs| candidates.
AllocateVMIDs(count) ==
  {c \in 0..(count + Cardinality(usedIDs)) :
      /\ c \notin usedIDs
      /\ Cardinality({d \in 0..c : d # c /\ d \notin usedIDs}) < count}

\* releaseVMIDs clears the entries of vmIDs, whoever they were set for.
ReleaseVMIDs(vmIDs) == usedIDs \ vmIDs

-----------------------------------------------------------------------------
(***************************************************************************)
(* Fleets.                                                                 *)
(***************************************************************************)

\* POST /api/v1/fleets.  A count below 1 is read as 1.  One critical section
\* allocates the IDs and registers the entry; then the goroutine is spawned.
CreateFleet(f, count) ==
  LET vmIDs == AllocateVMIDs(IF count < 1 THEN 1 ELSE count) IN
  /\ pc[f] = "idle"
  /\ usedIDs' = usedIDs \cup vmIDs
  /\ ids' = [ids EXCEPT ![f] = vmIDs]
  /\ status' = [status EXCEPT ![f] = "starting"]
  /\ pc' = [pc EXCEPT ![f] = "spawned"]
  /\ UNCHANGED <<cancelled, result>>

\* First critical section of the fleet's goroutine, taken whatever the status
\* is by now; launchFleet is entered right after it.
MarkFleetRunning(f) ==
  /\ pc[f] = "spawned"
  /\ status' = [status EXCEPT ![f] = "running"]
  /\ pc' = [pc EXCEPT ![f] = "running"]
  /\ UNCHANGED <<usedIDs, ids, cancelled, result>>

\* launchFleet returns: every VM goroutine has ended, because the context was
\* cancelled, the VM exited or its launch failed.  The error is only printed.
LaunchFleetReturns(f) ==
  /\ pc[f] = "running"
  /\ pc' = [pc EXCEPT ![f] = "returned"]
  /\ UNCHANGED <<usedIDs, ids, status, cancelled, result>>

\* Plausible slip: the goroutine keeps the IDs of a fleet already stopped by
\* DELETE but also forgets the ordinary case.
FinishFleetKeep(f) ==
  /\ pc[f] = "returned"
  /\ status' = [status EXCEPT ![f] = "stopped"]
  /\ pc' = [pc EXCEPT ![f] = "finished"]
  /\ UNCHANGED <<usedIDs, ids, cancelled, result>>

\* Last critical section of the fleet's goroutine: releases the IDs whether or
\* not DELETE has released them before.
FinishFleet(f) ==
  /\ pc[f] = "returned"
  /\ status' = [status EXCEPT ![f] = "stopped"]
  /\ usedIDs' = ReleaseVMIDs(ids[f])
  /\ pc' = [pc EXCEPT ![f] = "finished"]
  /\ UNCHANGED <<ids, cancelled, result>>

\* Plausible slip: DELETE marks the fleet stopped without cancelling it.
DeleteFleetNoCancel(f) ==
  /\ status[f] \notin {"absent", "stopped"}
  /\ status' = [status EXCEPT ![f] = "stopped"]
  /\ usedIDs' = ReleaseVMIDs(ids[f])
  /\ UNCHANGED <<ids, cancelled, pc, result>>

\* DELETE /api/v1/fleets/{id}: cancels the context and, unless the fleet is
\* stopped, releases its IDs at once, while its VMs may still be running.
DeleteFleet(f) ==
  /\ status[f] # "absent"
  /\ cancelled' = [cancelled EXCEPT ![f] = TRUE]
  /\ \/ /\ status[f] # "stopped"
        /\ status' = [status EXCEPT ![f] = "stopped"]
        /\ usedIDs' = ReleaseVMIDs(ids[f])
     \/ /\ status[f] = "stopped"
        /\ UNCHANGED <<status, usedIDs>>
  /\ UNCHANGED <<ids, pc, result>>

-----------------------------------------------------------------------------
(***************************************************************************)
(* Scenarios.                                                              *)
(***************************************************************************)

\* POST /api/v1/scenarios, first critical section: one ID per VM of the plan.
\* A plan has at least one VM.
AllocateScenario(s, count) ==
  LET vmIDs == AllocateVMIDs(count) IN
  /\ pc[s] = "idle"
  /\ count > 0
  /\ usedIDs' = usedIDs \cup vmIDs
  /\ ids' = [ids EXCEPT ![s] = vmIDs]
  /\ pc' = [pc EXCEPT ![s] = "allocated"]
  /\ UNCHANGED <<status, cancelled, result>>

\* NewRunner fails: the IDs are released in a critical section of their own and
\* no entry is made.  NewRunner builds the plan a second time from the inputs it
\* was just built from, so this path is a precaution of the code.
RejectScenario(s) ==
  /\ pc[s] = "allocated"
  /\ usedIDs' = ReleaseVMIDs(ids[s])
  /\ pc' = [pc EXCEPT ![s] = "finished"]
  /\ UNCHANGED <<ids, status, cancelled, result>>

\* Second critical section: the entry becomes visible; then the goroutine that
\* calls Runner.Run is spawned.
RegisterScenario(s) ==
  /\ pc[s] = "allocated"
  /\ status' = [status EXCEPT ![s] = "running"]
  /\ pc' = [pc EXCEPT ![s] = "running"]
  /\ UNCHANGED <<usedIDs, ids, cancelled, result>>

\* Runner.Run returns: all objectives were met, the context was cancelled, or
\* a cloud-init ISO could not be generated.
RunReturns(s, why) ==
  /\ pc[s] = "running"
  /\ why = "cancelled" => cancelled[s]
  /\ result' = [result EXCEPT ![s] = why]
  /\ pc' = [pc EXCEPT ![s] = "returned"]
  /\ UNCHANGED <<usedIDs, ids, status, cancelled>>

\* Plausible slip: the status is written without looking at the current one.
FinishScenarioOverwrite(s) ==
  /\ pc[s] = "returned"
  /\ status' = [status EXCEPT ![s] = IF result[s] = "cancelled" THEN "aborted" ELSE "complete"]
  /\ usedIDs' = ReleaseVMIDs(ids[s])
  /\ pc' = [pc EXCEPT ![s] = "finished"]
  /\ UNCHANGED <<ids, cancelled, result>>

\* Last critical section of the scenario's goroutine.
FinishScenario(s) ==
  /\ pc[s] = "returned"
  /\ status' = [status EXCEPT ![s] = IF @ # "running" THEN @
                                     ELSE IF cancelled[s] THEN "aborted" ELSE "complete"]
  /\ usedIDs' = ReleaseVMIDs(ids[s])
  /\ pc' = [pc EXCEPT ![s] = "finished"]
  /\ UNCHANGED <<ids, cancelled, result>>

\* Plausible slip: the status word of fleets is used for a scenario.
DeleteScenarioStopped(s) ==
  /\ status[s] # "absent"
  /\ cancelled' = [cancelled EXCEPT ![s] = TRUE]
  /\ status' = [status EXCEPT ![s] = "stopped"]
  /\ UNCHANGED <<usedIDs, ids, pc, result>>

\* DELETE /api/v1/scenarios/{id}: cancels the context and reports the scenario
\* aborted; the IDs stay in use until Runner.Run has returned.
DeleteScenario(s) ==
  /\ status[s] # "absent"
  /\ cancelled' = [cancelled EXCEPT ![s] = TRUE]
  /\ status' = [status EXCEPT ![s] = "aborted"]
  /\ UNCHANGED <<usedIDs, ids, pc, result>>

-----------------------------------------------------------------------------
FleetStep(f) ==
  \/ MarkFleetRunning(f)
  \/ LaunchFleetReturns(f)
  \/ FinishFleet(f)
  \/ DeleteFleet(f)
  \/ \E count \in Counts : CreateFleet(f, count)

ScenarioStep(s) ==
  \/ RejectScenario(s)
  \/ RegisterScenario(s)
  \/ FinishScenario(s)
  \/ DeleteScenario(s)
  \/ \E count \in Counts : AllocateScenario(s, count)
  \/ \E why \in Results \ {"none"} : RunReturns(s, why)

Next ==
  \/ \E f \in Fleets : FleetStep(f)
  \/ \E s \in Scenarios : ScenarioStep(s)

Spec == Init /\ [][Next]_vars

\* Goroutines that are not blocked run on.  Nothing makes a VM exit or an
\* objective pass, but a cancelled context ends launchFleet and Runner.Run:
\* this is CancelledReturns of LongCall, which VMLaunch and ScenarioRun keep.
Fairness ==
  /\ \A f \in Fleets : /\ WF_vars(MarkFleetRunning(f))
                       /\ WF_vars(cancelled[f] /\ LaunchFleetReturns(f))
                       /\ WF_vars(FinishFleet(f))
  /\ \A s \in Scenarios : /\ WF_vars(RejectScenario(s) \/ RegisterScenario(s))
                          /\ WF_vars(cancelled[s] /\ RunReturns(s, "cancelled"))
                          /\ WF_vars(FinishScenario(s))

FairSpec == Spec /\ Fairness

-----------------------------------------------------------------------------
(***************************************************************************)
(* Properties that hold.                                                   *)
(***************************************************************************)

\* A VM ID that has never been given to a fleet that was deleted.
Clean(i) == \A f \in Fleets : i \in ids[f] => ~cancelled[f]

\* No ID leaks: an ID marked in usedIDs belongs to an entry whose goroutine has
\* not ended, so that every path through createFleet, createScenario and the
\* two DELETE handlers gives all IDs back.
NoIDLeak == \A i \in usedIDs : \E o \in Owners : Live(o) /\ i \in ids[o]

\* An ID untouched by a fleet deletion is marked in usedIDs for as long as the
\* entry that was given it is live: releaseVMIDs of one entry never frees an ID
\* of another.
CleanIDsHeld ==
  \A o \in Owners : Live(o) => \A i \in ids[o] : Clean(i) => i \in usedIDs

\* allocateVMIDs never gives an ID to two live entries, fleets or scenarios, as
\* long as no fleet holding that ID was deleted.
CleanIDsExclusive ==
  \A o, p \in Owners :
    o # p /\ Live(o) /\ Live(p) => \A i \in ids[o] \cap ids[p] : ~Clean(i)

\* allocateVMIDs fills gaps: below an ID just handed out no ID is left free.
LowestIDsFirst ==
  [][\A o \in Owners : ids'[o] # ids[o] =>
        \A i \in ids'[o] : 0..i \subseteq usedIDs']_vars

\* DELETE of a scenario is final: the goroutine that finishes later, with
\* whatever result of Runner.Run, does not overwrite "aborted".
AbortedIsFinal ==
  [][\A s \in Scenarios : status[s] = "aborted" => status'[s] = "aborted"]_vars

\* DELETE makes the background goroutine end: a fleet reported stopped and a
\* scenario reported aborted really wind down.
StoppedWindsDown ==
  /\ \A f \in Fleets : status[f] = "stopped" ~> pc[f] = "finished"
  /\ \A s \in Scenarios : status[s] = "aborted" ~> pc[s] = "finished"

(***************************************************************************)
(* What the server promises, as a specification of its own.                *)
(***************************************************************************)

Lease == INSTANCE IDLease WITH
  Holders <- Owners,
  granted <- ids,
  open <- {o \in Owners : Live(o)},
  tainted <- UNION {ids[f] : f \in {g \in Fleets : cancelled[g]}}

\* However requests and goroutines interleave, usedIDs implements the lease of
\* IDs: no ID goes to two live entries before a fleet that had it is deleted.
ImplementsLease == Lease!LeaseSpec

(***************************************************************************)
(* A statement of the tests that the code violates.                        *)
(***************************************************************************)

\* "VM ID ... must be globally unique" (api/fleet_test.go): two entries that
\* both report themselves up and were not deleted share no ID.
GloballyUniqueIDs ==
  \A o, p \in Owners :
    /\ o # p
    /\ status[o] \in {"starting", "running"} /\ ~cancelled[o]
    /\ status[p] \in {"starting", "running"} /\ ~cancelled[p]
    => ids[o] \cap ids[p] = {}
=============================================================================
