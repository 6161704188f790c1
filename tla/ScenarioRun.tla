---------------------------- MODULE ScenarioRun -----------------------------
(***************************************************************************)
(* Runner.Run of scenario/runner.go: the main goroutine of a scenario, the *)
(* goroutine of each VM, the provisioning goroutines, one goroutine per    *)
(* scheduled fault and the goroutine that polls the objectives.  They meet *)
(* in the run's context, in the child context of the VMs, in two           *)
(* WaitGroups, in the buffered channel fleetErrs and in the channel done.  *)
(*                                                                         *)
(* Time is not measured: a sleep, a ticker or a timer may end at any       *)
(* moment.  What a VM does to the host is the subject of VMLaunch; what a  *)
(* delivered fault does inside the VM, of Agent.                           *)
(***************************************************************************)
EXTENDS Naturals, FiniteSets

CONSTANTS
  VMs,             \* the VMs of the plan
  Faults,          \* the faults of the scenario
  Targets,         \* Targets[f]: the VMs ResolveTargets finds for fault f
  Triggered,       \* the faults that have triggers
  Misdated,        \* the faults whose "at" does not parse
  ObjectiveCount,  \* the number of objectives
  MaxDials         \* SSH connection attempts per VM (15 in the code)

ASSUME ScenarioRunAssumption ==
  /\ IsFiniteSet(VMs) /\ VMs # {}
  /\ Targets \in [Faults -> SUBSET VMs]
  /\ Triggered \subseteq Faults /\ Misdated \subseteq Faults
  /\ ObjectiveCount \in Nat
  /\ MaxDials \in Nat \ {0}

VARIABLES
  phase,      \* where the main goroutine is
  result,     \* how Run ended
  ctxDone,    \* the context of the run is done
  fleetStop,  \* cancelFleet has been called
  vm,         \* vm[v]: the goroutine of VM v
  errs,       \* the number of errors in fleetErrs, which nobody receives from
  prov,       \* prov[v]: the provisioning goroutine of VM v
  dials,      \* dials[v]: its failed connection attempts
  fault,      \* fault[f]: the goroutine of fault f
  left,       \* left[f]: the targets fault f is still to be sent to
  poll,       \* the polling goroutine
  passed      \* the number of objectives that passed in the current poll

main == <<phase, result, ctxDone, fleetStop>>
provisioning == <<prov, dials>>
faults == <<fault, left>>
polling == <<poll, passed>>
vars == <<phase, result, ctxDone, fleetStop, vm, errs, prov, dials, fault, left, poll, passed>>

Phases == {"start", "iso", "boot", "provision", "monitor", "drain", "returned"}

\* fleetErrs is made with room for one error per VM.
Capacity == Cardinality(VMs)

\* Types; a channel never holds more than it has room for.
TypeOK ==
  /\ phase \in Phases
  /\ result \in {"none", "dry", "error", "solved", "aborted"}
  /\ ctxDone \in BOOLEAN /\ fleetStop \in BOOLEAN
  /\ vm \in [VMs -> {"off", "launching", "up", "failing", "gone"}]
  /\ errs \in 0..Capacity
  /\ prov \in [VMs -> {"off", "dialing", "connected", "ended"}]
  /\ dials \in [VMs -> 0..MaxDials]
  /\ fault \in [Faults -> {"off", "pending", "sending", "sent", "quit"}]
  /\ left \in [Faults -> SUBSET VMs]
  /\ poll \in {"off", "waiting", "checking", "done", "quit"}
  /\ passed \in 0..ObjectiveCount

Init ==
  /\ phase = "start" /\ result = "none"
  /\ ctxDone = FALSE /\ fleetStop = FALSE
  /\ vm = [v \in VMs |-> "off"] /\ errs = 0
  /\ prov = [v \in VMs |-> "off"] /\ dials = [v \in VMs |-> 0]
  /\ fault = [f \in Faults |-> "off"] /\ left = [f \in Faults |-> {}]
  /\ poll = "off" /\ passed = 0

-----------------------------------------------------------------------------
(***************************************************************************)
(* The main goroutine.                                                     *)
(***************************************************************************)

\* DELETE of the scenario, or Ctrl-C.
CancelRun ==
  /\ ~ctxDone
  /\ ctxDone' = TRUE
  /\ UNCHANGED <<phase, result, fleetStop, vm, errs, provisioning, faults, polling>>

\* A dry run prints the signals and returns.
StartRun ==
  /\ phase = "start"
  /\ \/ phase' = "iso" /\ UNCHANGED result
     \/ phase' = "returned" /\ result' = "dry"
  /\ UNCHANGED <<ctxDone, fleetStop, vm, errs, provisioning, faults, polling>>

\* The ISOs are made, or Run returns the error; then all VM goroutines start.
LaunchVMs ==
  /\ phase = "iso"
  /\ \/ /\ phase' = "boot"
        /\ vm' = [v \in VMs |-> "launching"]
        /\ UNCHANGED result
     \/ /\ phase' = "returned" /\ result' = "error"
        /\ UNCHANGED vm
  /\ UNCHANGED <<ctxDone, fleetStop, errs, provisioning, faults, polling>>

\* The sleep of eight seconds is over; provisionAll starts its goroutines.
StartProvisioning ==
  /\ phase = "boot"
  /\ phase' = "provision"
  /\ prov' = [v \in VMs |-> "dialing"]
  /\ UNCHANGED <<result, ctxDone, fleetStop, vm, errs, dials, faults, polling>>

\* Plausible slip: one provisioned VM is enough.
StartMonitoringEarly ==
  /\ phase = "provision"
  /\ \E v \in VMs : prov[v] = "ended"
  /\ phase' = "monitor"
  /\ fault' = [f \in Faults |-> IF f \in Triggered \cup Misdated THEN "off" ELSE "pending"]
  /\ left' = [f \in Faults |-> IF f \in Triggered \cup Misdated THEN {} ELSE Targets[f]]
  /\ poll' = "waiting"
  /\ UNCHANGED <<result, ctxDone, fleetStop, vm, errs, provisioning, passed>>

\* provisionAll has waited for all its goroutines; errors are only printed.
\* Faults are scheduled, save those with triggers or with a bad "at", and the
\* polling goroutine starts.
StartMonitoring ==
  /\ phase = "provision"
  /\ \A v \in VMs : prov[v] = "ended"
  /\ phase' = "monitor"
  /\ fault' = [f \in Faults |-> IF f \in Triggered \cup Misdated THEN "off" ELSE "pending"]
  /\ left' = [f \in Faults |-> IF f \in Triggered \cup Misdated THEN {} ELSE Targets[f]]
  /\ poll' = "waiting"
  /\ UNCHANGED <<result, ctxDone, fleetStop, vm, errs, provisioning, passed>>

\* Plausible slip: cancelFleet is left to the deferred call, which runs after
\* the wait.
ConcludeLate ==
  /\ phase = "monitor"
  /\ \/ poll = "done" /\ result' = "solved"
     \/ ctxDone /\ result' = "aborted"
  /\ phase' = "drain"
  /\ UNCHANGED <<ctxDone, fleetStop, vm, errs, provisioning, faults, polling>>

\* The select: all objectives passed, or the context is done; when both are
\* the case either branch may be taken.
Conclude ==
  /\ phase = "monitor"
  /\ \/ poll = "done" /\ result' = "solved" /\ fleetStop' = TRUE
     \/ ctxDone /\ result' = "aborted" /\ UNCHANGED fleetStop
  /\ phase' = "drain"
  /\ UNCHANGED <<ctxDone, vm, errs, provisioning, faults, polling>>

\* Plausible slip: Run does not wait for the VM goroutines.
ReturnFromRunAtOnce ==
  /\ phase = "drain"
  /\ phase' = "returned"
  /\ UNCHANGED <<result, ctxDone, fleetStop, vm, errs, provisioning, faults, polling>>

\* fleetWg.Wait.
ReturnFromRun ==
  /\ phase = "drain"
  /\ \A v \in VMs : vm[v] = "gone"
  /\ phase' = "returned"
  /\ UNCHANGED <<result, ctxDone, fleetStop, vm, errs, provisioning, faults, polling>>

-----------------------------------------------------------------------------
(***************************************************************************)
(* The VM goroutines.                                                      *)
(***************************************************************************)

\* EnsureTAP, PrepareRootFS, vm.New and Machine.Start succeed, or one fails.
LaunchVM(v) ==
  /\ vm[v] = "launching"
  /\ \E s \in {"up", "failing"} : vm' = [vm EXCEPT ![v] = s]
  /\ UNCHANGED <<main, errs, provisioning, faults, polling>>

\* Plausible slip: the goroutine reports its error twice.
ReportVMErrorTwice(v) ==
  /\ vm[v] = "failing"
  /\ errs + 1 < Capacity
  /\ errs' = errs + 2
  /\ vm' = [vm EXCEPT ![v] = "gone"]
  /\ UNCHANGED <<main, provisioning, faults, polling>>

\* The error is sent to fleetErrs, which blocks when the channel is full.
ReportVMError(v) ==
  /\ vm[v] = "failing"
  /\ errs < Capacity
  /\ errs' = errs + 1
  /\ vm' = [vm EXCEPT ![v] = "gone"]
  /\ UNCHANGED <<main, provisioning, faults, polling>>

\* Machine.Wait returns, as the VM's context is done or the VMM has exited; the
\* deferred clean-up runs.
VMEnds(v) ==
  /\ vm[v] = "up"
  /\ vm' = [vm EXCEPT ![v] = "gone"]
  /\ UNCHANGED <<main, errs, provisioning, faults, polling>>

-----------------------------------------------------------------------------
(***************************************************************************)
(* The provisioning goroutines.                                            *)
(***************************************************************************)

\* One round of the connection loop: it gives up when the context is done,
\* connects if the VM is up, or has failed once more.
Dial(v) ==
  /\ prov[v] = "dialing"
  /\ \/ /\ ctxDone
        /\ prov' = [prov EXCEPT ![v] = "ended"]
        /\ UNCHANGED dials
     \/ /\ ~ctxDone /\ vm[v] = "up"
        /\ prov' = [prov EXCEPT ![v] = "connected"]
        /\ UNCHANGED dials
     \/ /\ ~ctxDone
        /\ dials' = [dials EXCEPT ![v] = @ + 1]
        /\ prov' = [prov EXCEPT ![v] = IF dials[v] + 1 = MaxDials THEN "ended" ELSE @]
  /\ UNCHANGED <<main, vm, errs, faults, polling>>

\* The packages and the setup commands have been run, or one has failed.
Install(v) ==
  /\ prov[v] = "connected"
  /\ prov' = [prov EXCEPT ![v] = "ended"]
  /\ UNCHANGED <<main, vm, errs, dials, faults, polling>>

-----------------------------------------------------------------------------
(***************************************************************************)
(* The fault goroutines.                                                   *)
(***************************************************************************)

\* The time of the fault has come, or the context is done; when both are the
\* case either branch may be taken.
FaultDue(f) ==
  /\ fault[f] = "pending"
  /\ \/ fault' = [fault EXCEPT ![f] = "sending"]
     \/ ctxDone /\ fault' = [fault EXCEPT ![f] = "quit"]
  /\ UNCHANGED <<main, vm, errs, provisioning, left, polling>>

\* Plausible slip: the first target that cannot be reached ends the loop.
SendFaultFirstOnly(f) ==
  /\ fault[f] = "sending"
  /\ left[f] # {}
  /\ \E v \in left[f] : left' = [left EXCEPT ![f] = @ \ {v}]
  /\ fault' = [fault EXCEPT ![f] = "sent"]
  /\ UNCHANGED <<main, vm, errs, provisioning, polling>>

\* injectFault posts the fault to the next target; an error is remembered and
\* the loop goes on.  http.Post has neither a timeout nor a context: an agent
\* that accepts the request and never answers keeps the loop where it is.
SendFault(f) ==
  /\ fault[f] = "sending"
  /\ left[f] # {}
  /\ \E v \in left[f] : left' = [left EXCEPT ![f] = @ \ {v}]
  /\ UNCHANGED <<main, vm, errs, provisioning, fault, polling>>

\* injectFault returns.
FaultSent(f) ==
  /\ fault[f] = "sending"
  /\ left[f] = {}
  /\ fault' = [fault EXCEPT ![f] = "sent"]
  /\ UNCHANGED <<main, vm, errs, provisioning, left, polling>>

-----------------------------------------------------------------------------
(***************************************************************************)
(* The polling goroutine.                                                  *)
(***************************************************************************)

\* The ticker fires, or the context is done.
PollTick ==
  /\ poll = "waiting"
  /\ \/ poll' = "checking" /\ passed' = 0
     \/ ctxDone /\ poll' = "quit" /\ UNCHANGED passed
  /\ UNCHANGED <<main, vm, errs, provisioning, faults>>

\* checkObjective of the next objective passes or fails; a failure ends the poll.
CheckObjective ==
  /\ poll = "checking"
  /\ passed < ObjectiveCount
  /\ \/ passed' = passed + 1 /\ UNCHANGED poll
     \/ poll' = "waiting" /\ UNCHANGED passed
  /\ UNCHANGED <<main, vm, errs, provisioning, faults>>

\* All have passed: done is closed, unless there are no objectives.
PollEnds ==
  /\ poll = "checking"
  /\ passed = ObjectiveCount
  /\ poll' = IF ObjectiveCount > 0 THEN "done" ELSE "waiting"
  /\ UNCHANGED <<main, vm, errs, provisioning, faults, passed>>

-----------------------------------------------------------------------------
MainStep ==
  \/ StartRun \/ LaunchVMs \/ StartProvisioning \/ StartMonitoring
  \/ Conclude \/ ReturnFromRun

VMStep(v) == LaunchVM(v) \/ ReportVMError(v) \/ VMEnds(v)
ProvisionStep(v) == Dial(v) \/ Install(v)
FaultStep(f) == FaultDue(f) \/ SendFault(f) \/ FaultSent(f)
PollStep == PollTick \/ CheckObjective \/ PollEnds

Next ==
  \/ CancelRun \/ MainStep \/ PollStep
  \/ \E v \in VMs : VMStep(v) \/ ProvisionStep(v)
  \/ \E f \in Faults : FaultStep(f)

Spec == Init /\ [][Next]_vars

\* Goroutines run on and time passes.  A VM only has to end when its context is
\* done, and a post of a fault and a poll may hang: they have no timeout and talk
\* to agents and services that the scenario breaks.
Fairness ==
  /\ WF_vars(MainStep)
  /\ \A v \in VMs : /\ WF_vars(LaunchVM(v)) /\ WF_vars(ReportVMError(v))
                    /\ WF_vars((ctxDone \/ fleetStop) /\ VMEnds(v))
                    /\ WF_vars(ProvisionStep(v))
  /\ \A f \in Faults : WF_vars(FaultDue(f)) /\ WF_vars(FaultSent(f))

FairSpec == Spec /\ Fairness

-----------------------------------------------------------------------------
(***************************************************************************)
(* Properties that hold.                                                   *)
(***************************************************************************)

\* When Run returns, no VM goroutine is left: the server may release the VM IDs.
ReturnedMeansDrained ==
  phase = "returned" => \A v \in VMs : vm[v] \in {"off", "gone"}

\* A VM goroutine that has an error to report finds room in fleetErrs, although
\* nobody ever receives from it.
RoomForErrors == \A v \in VMs : vm[v] = "failing" => errs < Capacity

\* No fault is sent before every VM's provisioning has ended.
FaultsAfterProvisioning ==
  \A f \in Faults : fault[f] \in {"sending", "sent"} => \A v \in VMs : prov[v] = "ended"

Call == INSTANCE LongCall WITH
  Calls <- {"Run"},
  at <- [c \in {"Run"} |-> IF phase = "returned" THEN "returned" ELSE "running"],
  cancelled <- [c \in {"Run"} |-> ctxDone],
  blamed <- [c \in {"Run"} |-> phase = "returned" /\ result = "aborted"]

\* Runner.Run is the call the API server takes it for: an aborted run returns,
\* whatever its goroutines are doing, and only an aborted one says so.
ImplementsCall == Call!CallSpec /\ Call!CancelledReturns

\* A run whose objectives have passed returns.
SolvedEndsRun == poll = "done" ~> phase = "returned"

\* Every post of fault f ends: its targets answer, or refuse the connection.
PostsEnd(f) == WF_vars(SendFault(f))

\* A scheduled fault whose own posts end is sent to every target, whatever the
\* answers are and whatever becomes of the other faults, unless the run is
\* aborted first.
FaultReachesTargets ==
  \A f \in Faults :
    PostsEnd(f) => (fault[f] = "pending" ~> (left[f] = {} /\ fault[f] = "sent") \/ ctxDone)

(***************************************************************************)
(* Statements of the documentation that the code violates.                 *)
(***************************************************************************)

\* Run "injects faults per schedule, monitors objectives, and blocks until all
\* objectives are met or ctx is cancelled" (scenario/runner.go): once it has
\* returned with all objectives met, and its VM IDs are free for others, it
\* injects no fault, although nobody has cancelled the context.
NoFaultAfterReturn ==
  [][\A f \in Faults :
        phase = "returned" /\ result = "solved" /\ ~ctxDone => left'[f] = left[f]]_vars
=============================================================================
