------------------------- MODULE ScenarioRunProofs --------------------------
(***************************************************************************)
(* Proofs about ScenarioRun for any plan of VMs, any faults and targets    *)
(* and any number of objectives and connection attempts.                   *)
(*                                                                         *)
(* RoomForErrors is not inductive: that a goroutine finds room in          *)
(* fleetErrs follows from counting, the errors in the channel against the  *)
(* goroutines that are gone.  The other two need to know what each phase   *)
(* of the main goroutine has started and what it has waited for.           *)
(***************************************************************************)
EXTENDS ScenarioRun, FiniteSetTheorems, TLAPS

\* What the main goroutine has not started yet.
NotStarted ==
  /\ phase \in {"start", "iso"} => \A v \in VMs : vm[v] = "off"
  /\ phase \in {"start", "iso", "boot"} => \A v \in VMs : prov[v] = "off"

\* No fault goroutine is started before provisionAll has returned.
FaultsLater ==
  \A f \in Faults : fault[f] # "off" =>
    /\ phase \in {"monitor", "drain", "returned"}
    /\ \A v \in VMs : prov[v] = "ended"

\* A goroutine that goes on dialing has attempts left.
DialsLeft == \A v \in VMs : prov[v] \in {"off", "dialing"} => dials[v] < MaxDials

Ended == {v \in VMs : vm[v] = "gone"}

\* Every error in the channel was sent by a goroutine that is gone.
ErrorsCounted == errs <= Cardinality(Ended)

\* The inductive invariant.
RunInv ==
  /\ TypeOK /\ NotStarted /\ FaultsLater /\ DialsLeft /\ ErrorsCounted
  /\ ReturnedMeansDrained

\* Run blames the cancellation only if there was one.
AbortedMeansDone == result = "aborted" => ctxDone

-----------------------------------------------------------------------------
(***************************************************************************)
(* Counting.                                                               *)
(***************************************************************************)

\* The set of goroutines that are gone is finite, and the capacity of the
\* channel is a number.
LEMMA EndedFinite ==
  /\ IsFiniteSet(Ended) /\ Cardinality(Ended) \in Nat
  /\ Capacity \in Nat
  /\ Cardinality(Ended) <= Capacity
<1>1. Ended \subseteq VMs /\ IsFiniteSet(VMs)
  BY ScenarioRunAssumption DEF Ended
<1> QED
  BY <1>1, FS_Subset, FS_CardinalityType DEF Capacity

\* As long as one goroutine is not gone, the channel has room.
LEMMA Room ==
  ASSUME ErrorsCounted, errs \in Nat, NEW v \in VMs, vm[v] # "gone"
  PROVE  errs < Capacity
<1>1. IsFiniteSet(VMs) /\ Ended \subseteq VMs \ {v}
  BY ScenarioRunAssumption DEF Ended
<1>2. IsFiniteSet(VMs \ {v}) /\ Cardinality(VMs \ {v}) = Cardinality(VMs) - 1
  BY <1>1, FS_RemoveElement
<1>3. Cardinality(Ended) <= Cardinality(VMs \ {v})
  BY <1>1, <1>2, FS_Subset
<1> QED
  BY <1>2, <1>3, EndedFinite DEF ErrorsCounted, Capacity

\* A goroutine that ends is counted.
LEMMA OneMoreEnded ==
  ASSUME TypeOK, NEW v \in VMs, vm[v] # "gone", vm' = [vm EXCEPT ![v] = "gone"]
  PROVE  Cardinality(Ended') = Cardinality(Ended) + 1
<1>1. Ended' = Ended \cup {v} /\ v \notin Ended
  BY DEF TypeOK, Ended
<1> QED
  BY <1>1, EndedFinite, FS_AddElement

-----------------------------------------------------------------------------
(***************************************************************************)
(* The invariant.                                                          *)
(***************************************************************************)

\* Every step of every goroutine keeps the types; a channel never holds more
\* than its capacity and a provisioning goroutine never dials too often.
LEMMA TypeStep == RunInv /\ [Next]_vars => TypeOK'
<1> SUFFICES ASSUME RunInv, [Next]_vars PROVE TypeOK'
  OBVIOUS
<1> USE ScenarioRunAssumption, EndedFinite DEF RunInv, TypeOK, Phases, main, provisioning, faults, polling
<1>1. CASE CancelRun
  BY <1>1 DEF CancelRun
<1>2. CASE StartRun
  BY <1>2 DEF StartRun
<1>3. CASE LaunchVMs
  BY <1>3 DEF LaunchVMs
<1>4. CASE StartProvisioning
  BY <1>4 DEF StartProvisioning
<1>5. CASE StartMonitoring
  BY <1>5 DEF StartMonitoring
<1>6. CASE Conclude
  BY <1>6 DEF Conclude
<1>7. CASE ReturnFromRun
  BY <1>7 DEF ReturnFromRun
<1>8. ASSUME NEW v \in VMs, LaunchVM(v) PROVE TypeOK'
  BY <1>8 DEF LaunchVM
<1>9. ASSUME NEW v \in VMs, ReportVMError(v) PROVE TypeOK'
  BY <1>9 DEF ReportVMError
<1>10. ASSUME NEW v \in VMs, VMEnds(v) PROVE TypeOK'
  BY <1>10 DEF VMEnds
<1>11. ASSUME NEW v \in VMs, Dial(v) PROVE TypeOK'
  BY <1>11 DEF Dial, DialsLeft
<1>12. ASSUME NEW v \in VMs, Install(v) PROVE TypeOK'
  BY <1>12 DEF Install
<1>13. ASSUME NEW f \in Faults, FaultDue(f) PROVE TypeOK'
  BY <1>13 DEF FaultDue
<1>14. ASSUME NEW f \in Faults, SendFault(f) PROVE TypeOK'
  BY <1>14 DEF SendFault
<1>15. ASSUME NEW f \in Faults, FaultSent(f) PROVE TypeOK'
  BY <1>15 DEF FaultSent
<1>16. CASE PollTick
  BY <1>16 DEF PollTick
<1>17. CASE CheckObjective
  BY <1>17 DEF CheckObjective
<1>18. CASE PollEnds
  BY <1>18 DEF PollEnds
<1>19. CASE UNCHANGED vars
  BY <1>19 DEF vars
<1> QED
  BY <1>1, <1>2, <1>3, <1>4, <1>5, <1>6, <1>7, <1>8, <1>9, <1>10, <1>11, <1>12,
     <1>13, <1>14, <1>15, <1>16, <1>17, <1>18, <1>19
  DEF Next, MainStep, VMStep, ProvisionStep, FaultStep, PollStep

\* The order in which the main goroutine starts the others, and waits for them,
\* is kept by every step: a goroutine can only do what it was started for.
LEMMA OrderStep ==
  RunInv /\ [Next]_vars => (NotStarted /\ FaultsLater /\ DialsLeft /\ ReturnedMeansDrained)'
<1> DEFINE Order == NotStarted /\ FaultsLater /\ DialsLeft /\ ReturnedMeansDrained
<1> SUFFICES ASSUME RunInv, [Next]_vars PROVE Order'
  OBVIOUS
<1> USE ScenarioRunAssumption
    DEF RunInv, TypeOK, NotStarted, FaultsLater, DialsLeft, ReturnedMeansDrained,
        main, provisioning, faults, polling
<1>1. CASE CancelRun
  BY <1>1 DEF CancelRun
<1>2. CASE StartRun
  BY <1>2 DEF StartRun
<1>3. CASE LaunchVMs
  BY <1>3 DEF LaunchVMs
<1>4. CASE StartProvisioning
  BY <1>4 DEF StartProvisioning
<1>5. CASE StartMonitoring
  BY <1>5 DEF StartMonitoring
<1>6. CASE Conclude
  BY <1>6 DEF Conclude
<1>7. CASE ReturnFromRun
  BY <1>7 DEF ReturnFromRun
<1>8. ASSUME NEW v \in VMs, LaunchVM(v) PROVE Order'
  BY <1>8 DEF LaunchVM
<1>9. ASSUME NEW v \in VMs, ReportVMError(v) PROVE Order'
  BY <1>9 DEF ReportVMError
<1>10. ASSUME NEW v \in VMs, VMEnds(v) PROVE Order'
  BY <1>10 DEF VMEnds
<1>11. ASSUME NEW v \in VMs, Dial(v) PROVE Order'
  BY <1>11 DEF Dial
<1>12. ASSUME NEW v \in VMs, Install(v) PROVE Order'
  BY <1>12 DEF Install
<1>13. ASSUME NEW f \in Faults, FaultDue(f) PROVE Order'
  BY <1>13 DEF FaultDue
<1>14. ASSUME NEW f \in Faults, SendFault(f) PROVE Order'
  BY <1>14 DEF SendFault
<1>15. ASSUME NEW f \in Faults, FaultSent(f) PROVE Order'
  BY <1>15 DEF FaultSent
<1>16. CASE PollTick
  BY <1>16 DEF PollTick
<1>17. CASE CheckObjective
  BY <1>17 DEF CheckObjective
<1>18. CASE PollEnds
  BY <1>18 DEF PollEnds
<1>19. CASE UNCHANGED vars
  BY <1>19 DEF vars
<1> QED
  BY <1>1, <1>2, <1>3, <1>4, <1>5, <1>6, <1>7, <1>8, <1>9, <1>10, <1>11, <1>12,
     <1>13, <1>14, <1>15, <1>16, <1>17, <1>18, <1>19
  DEF Next, MainStep, VMStep, ProvisionStep, FaultStep, PollStep

\* A goroutine that sends its error is gone after it; nothing else is sent.
LEMMA CountStep == RunInv /\ [Next]_vars => ErrorsCounted'
<1> SUFFICES ASSUME RunInv, [Next]_vars PROVE ErrorsCounted'
  OBVIOUS
<1> USE EndedFinite DEF RunInv, ErrorsCounted
<1>1. CASE UNCHANGED <<errs, vm>>
  BY <1>1 DEF Ended
<1>2. CASE LaunchVMs
  <2>1. Ended = {}
    BY <1>2 DEF LaunchVMs, NotStarted, Ended
  <2>2. errs' = 0
    BY <1>2, <2>1, FS_EmptySet DEF LaunchVMs, TypeOK
  <2>3. Ended' \subseteq VMs /\ IsFiniteSet(VMs)
    BY ScenarioRunAssumption DEF Ended
  <2> QED
    BY <2>2, <2>3, FS_Subset, FS_CardinalityType
<1>3. ASSUME NEW v \in VMs, LaunchVM(v) PROVE ErrorsCounted'
  BY <1>3 DEF LaunchVM, Ended, TypeOK
<1>4. ASSUME NEW v \in VMs, ReportVMError(v) PROVE ErrorsCounted'
  <2>1. Cardinality(Ended') = Cardinality(Ended) + 1
    BY <1>4, OneMoreEnded DEF ReportVMError
  <2> QED
    BY <1>4, <2>1 DEF ReportVMError, TypeOK
<1>5. ASSUME NEW v \in VMs, VMEnds(v) PROVE ErrorsCounted'
  <2>1. Cardinality(Ended') = Cardinality(Ended) + 1
    BY <1>5, OneMoreEnded DEF VMEnds
  <2> QED
    BY <1>5, <2>1 DEF VMEnds, TypeOK
<1> QED
  BY <1>1, <1>2, <1>3, <1>4, <1>5
  DEF Next, MainStep, VMStep, ProvisionStep, FaultStep, PollStep, vars,
      CancelRun, StartRun, StartProvisioning, StartMonitoring, Conclude, ReturnFromRun,
      Dial, Install, FaultDue, SendFault, FaultSent, PollTick, CheckObjective, PollEnds

\* The invariant holds in every state of every run.
THEOREM RunInvHolds == Spec => []RunInv
<1>1. Init => RunInv
  <2> SUFFICES ASSUME Init PROVE RunInv
    OBVIOUS
  <2>0. 0 \in 0..Capacity /\ 0 \in 0..MaxDials /\ 0 \in 0..ObjectiveCount
    BY ScenarioRunAssumption, EndedFinite
  <2>1. TypeOK
    BY <2>0 DEF Init, TypeOK, Phases
  <2>2. NotStarted /\ FaultsLater /\ DialsLeft /\ ReturnedMeansDrained
    BY ScenarioRunAssumption
    DEF Init, NotStarted, FaultsLater, DialsLeft, ReturnedMeansDrained
  <2>3. ErrorsCounted
    BY EndedFinite DEF Init, ErrorsCounted
  <2> QED
    BY <2>1, <2>2, <2>3 DEF RunInv
<1>2. RunInv /\ [Next]_vars => RunInv'
  BY TypeStep, OrderStep, CountStep DEF RunInv
<1> QED
  BY <1>1, <1>2, PTL DEF Spec

\* The goroutines of a run keep their types, the channel fleetErrs never holds
\* more errors than it has room for, and no VM is dialed more than MaxDials times.
THEOREM TypeCorrect == Spec => []TypeOK
BY RunInvHolds, PTL DEF RunInv

\* Run returns only when no VM goroutine is left, on every one of its paths.
THEOREM ReturnsDrained == Spec => []ReturnedMeansDrained
BY RunInvHolds, PTL DEF RunInv

\* A VM goroutine is never blocked by its error: nobody receives from fleetErrs,
\* but the errors in it are at most as many as the goroutines that are gone.
THEOREM ErrorsNeverBlock == Spec => []RoomForErrors
<1>1. RunInv => RoomForErrors
  BY Room DEF RunInv, TypeOK, RoomForErrors
<1> QED
  BY <1>1, RunInvHolds, PTL

\* No fault is sent to any VM before the provisioning of all of them has ended.
THEOREM FaultsWait == Spec => []FaultsAfterProvisioning
<1>1. RunInv => FaultsAfterProvisioning
  BY DEF RunInv, FaultsLater, FaultsAfterProvisioning
<1> QED
  BY <1>1, RunInvHolds, PTL

-----------------------------------------------------------------------------
(***************************************************************************)
(* Run as a call.                                                          *)
(***************************************************************************)

\* The branch of the select that aborts is taken only when the context is done.
LEMMA AbortStep == AbortedMeansDone /\ [Next]_vars => AbortedMeansDone'
BY DEF AbortedMeansDone, Next, MainStep, VMStep, ProvisionStep, FaultStep, PollStep, vars,
       CancelRun, StartRun, LaunchVMs, StartProvisioning, StartMonitoring, Conclude, ReturnFromRun,
       LaunchVM, ReportVMError, VMEnds, Dial, Install, FaultDue, SendFault, FaultSent,
       PollTick, CheckObjective, PollEnds, main

\* Every step of a run is a step of the call or none of the caller's business.
LEMMA CallStep ==
  AbortedMeansDone /\ TypeOK /\ [Next]_vars => [Call!Next]_(Call!callVars)
<1> SUFFICES ASSUME AbortedMeansDone, TypeOK, [Next]_vars
             PROVE  [Call!Next]_(Call!callVars)
  OBVIOUS
<1>1. CASE UNCHANGED main
  BY <1>1 DEF main, Call!callVars
<1>2. CASE CancelRun
  <2>1. Call!Cancel("Run")
    BY <1>2 DEF CancelRun, Call!Cancel
  <2> QED
    BY <2>1 DEF Call!Next
<1>3. CASE UNCHANGED ctxDone /\ phase # "returned" /\ phase' # "returned"
  BY <1>3 DEF Call!callVars
<1>4. CASE /\ UNCHANGED ctxDone /\ phase # "returned" /\ phase' = "returned"
           /\ result' = "aborted" => result = "aborted"
  <2>1. Call!Return("Run")
    BY <1>4 DEF Call!Return, AbortedMeansDone, TypeOK
  <2> QED
    BY <2>1 DEF Call!Next
<1> QED
  BY <1>1, <1>2, <1>3, <1>4
  DEF Next, MainStep, VMStep, ProvisionStep, FaultStep, PollStep, vars, main,
      StartRun, LaunchVMs, StartProvisioning, StartMonitoring, Conclude, ReturnFromRun,
      LaunchVM, ReportVMError, VMEnds, Dial, Install, FaultDue, SendFault, FaultSent,
      PollTick, CheckObjective, PollEnds

\* Runner.Run, with all its goroutines, implements the call the API server makes:
\* it returns once, and says it was aborted only if its context was done.
THEOREM RunImplementsCall == Spec => Call!CallSpec
<1>1. Init => Call!Init /\ AbortedMeansDone
  BY DEF Init, Call!Init, AbortedMeansDone
<1> QED
  BY <1>1, AbortStep, CallStep, TypeCorrect, PTL DEF Spec, Call!CallSpec

-----------------------------------------------------------------------------
(***************************************************************************)
(* Why a run ends.  That it does is liveness, which TLC checks for a few   *)
(* VMs.  The two facts the argument rests on are about single states and   *)
(* steps and hold for any number of them: as long as Run has not returned, *)
(* and is not waiting for the trainee, one of the goroutines it depends on *)
(* can take a step; and such steps lead forward only, so that there are    *)
(* finitely many.                                                          *)
(***************************************************************************)

\* What the main goroutine, a VM's and a provisioning goroutine wait for: the
\* guards of the steps Fairness is about.
MainReady ==
  \/ phase \in {"start", "iso", "boot"}
  \/ phase = "provision" /\ \A v \in VMs : prov[v] = "ended"
  \/ phase = "monitor" /\ (poll = "done" \/ ctxDone)
  \/ phase = "drain" /\ \A v \in VMs : vm[v] = "gone"
VMReady(v) ==
  \/ vm[v] = "launching"
  \/ vm[v] = "failing" /\ errs < Capacity
  \/ vm[v] = "up" /\ (ctxDone \/ fleetStop)
ProvisionReady(v) == prov[v] \in {"dialing", "connected"}

\* Run monitors the objectives, and neither are they met nor is the context done.
WaitsForTrainee == phase = "monitor" /\ poll # "done" /\ ~ctxDone

\* fleetWg.Wait, provisionAll's wait and fleetErrs hold nobody up for good: there is
\* always a goroutine that can go on.
NeverStuck ==
  phase # "returned" /\ ~WaitsForTrainee =>
    MainReady \/ \E v \in VMs : VMReady(v) \/ ProvisionReady(v)

\* The goroutines Run waits for were started, and the VMs told to stop.
Started ==
  /\ phase = "provision" => \A v \in VMs : prov[v] # "off"
  /\ phase \in {"boot", "provision", "monitor", "drain"} => \A v \in VMs : vm[v] # "off"
  /\ phase = "drain" => ctxDone \/ fleetStop

\* Every step keeps it.
LEMMA StartedStep == RunInv /\ Started /\ [Next]_vars => Started'
<1> SUFFICES ASSUME RunInv, Started, [Next]_vars PROVE Started'
  OBVIOUS
<1> USE DEF RunInv, TypeOK, Started, main, provisioning
<1>1. CASE UNCHANGED <<phase, ctxDone, fleetStop>>
  <2>1. ASSUME NEW v \in VMs, vm[v] # "off" PROVE vm'[v] # "off"
    BY <1>1, <2>1 DEF Next, MainStep, VMStep, ProvisionStep, FaultStep, PollStep, vars,
       CancelRun, StartRun, LaunchVMs, StartProvisioning, StartMonitoring, Conclude,
       ReturnFromRun, LaunchVM, ReportVMError, VMEnds, Dial, Install, FaultDue, SendFault,
       FaultSent, PollTick, CheckObjective, PollEnds
  <2>2. ASSUME NEW v \in VMs, prov[v] # "off" PROVE prov'[v] # "off"
    BY <1>1, <2>2 DEF Next, MainStep, VMStep, ProvisionStep, FaultStep, PollStep, vars,
       CancelRun, StartRun, LaunchVMs, StartProvisioning, StartMonitoring, Conclude,
       ReturnFromRun, LaunchVM, ReportVMError, VMEnds, Dial, Install, FaultDue, SendFault,
       FaultSent, PollTick, CheckObjective, PollEnds
  <2> QED
    BY <1>1, <2>1, <2>2
<1>2. CASE CancelRun \/ MainStep
  BY <1>2 DEF CancelRun, MainStep, StartRun, LaunchVMs, StartProvisioning, StartMonitoring,
     Conclude, ReturnFromRun
<1> QED
  BY <1>1, <1>2 DEF Next, VMStep, ProvisionStep, FaultStep, PollStep, vars, LaunchVM,
     ReportVMError, VMEnds, Dial, Install, FaultDue, SendFault, FaultSent, PollTick,
     CheckObjective, PollEnds

\* Run is never stuck, with any number of VMs: neither provisionAll nor the wait for
\* the VM goroutines, the full channel of errors included, blocks everyone.
THEOREM RunNeverStuck == Spec => []NeverStuck
<1>1. Init => Started
  BY DEF Init, Started
<1>2. RunInv /\ Started => NeverStuck
  <2> SUFFICES ASSUME RunInv, Started, phase # "returned", ~WaitsForTrainee
               PROVE  MainReady \/ \E v \in VMs : VMReady(v) \/ ProvisionReady(v)
    BY DEF NeverStuck
  <2>1. CASE phase \in {"start", "iso", "boot", "monitor"}
    BY <2>1 DEF WaitsForTrainee, MainReady
  <2>2. CASE phase = "provision"
    <3>1. \A v \in VMs : prov[v] \in {"dialing", "connected", "ended"}
      BY <2>2 DEF RunInv, TypeOK, Started
    <3> QED
      BY <2>2, <3>1 DEF MainReady, ProvisionReady
  <2>3. CASE phase = "drain"
    <3>1. \A v \in VMs : vm[v] = "gone" \/ VMReady(v)
      <4> SUFFICES ASSUME NEW v \in VMs, vm[v] # "gone" PROVE VMReady(v)
        OBVIOUS
      <4>1. vm[v] \in {"launching", "up", "failing"} /\ (ctxDone \/ fleetStop)
        BY <2>3 DEF RunInv, TypeOK, Started
      <4>2. errs < Capacity
        BY Room DEF RunInv, TypeOK
      <4> QED
        BY <4>1, <4>2 DEF VMReady
    <3> QED
      BY <2>3, <3>1 DEF MainReady
  <2> QED
    BY <2>1, <2>2, <2>3 DEF RunInv, TypeOK, Phases
<1> QED
  BY <1>1, <1>2, StartedStep, RunInvHolds, PTL DEF Spec

\* How far the goroutines have come.
PhaseRank(p) ==
  IF p = "start" THEN 0 ELSE IF p = "iso" THEN 1 ELSE IF p = "boot" THEN 2
  ELSE IF p = "provision" THEN 3 ELSE IF p = "monitor" THEN 4 ELSE IF p = "drain" THEN 5 ELSE 6
VMRank(s) ==
  IF s = "off" THEN 0 ELSE IF s = "launching" THEN 1 ELSE IF s \in {"up", "failing"} THEN 2 ELSE 3
ProvisionRank(s) ==
  IF s = "off" THEN 0 ELSE IF s = "dialing" THEN 1 ELSE IF s = "connected" THEN 2 ELSE 3

\* No step leads back, and one of the goroutines Run depends on leads forward: with
\* n VMs there are at most 6 + n * (6 + MaxDials) of them.
OnlyForward ==
  /\ PhaseRank(phase') >= PhaseRank(phase)
  /\ \A v \in VMs : /\ VMRank(vm'[v]) >= VMRank(vm[v])
                    /\ ProvisionRank(prov'[v]) >= ProvisionRank(prov[v])
                    /\ dials'[v] >= dials[v]
  /\ MainStep => PhaseRank(phase') > PhaseRank(phase)
  /\ \A v \in VMs : VMStep(v) => VMRank(vm'[v]) > VMRank(vm[v])
  /\ \A v \in VMs : ProvisionStep(v) =>
       ProvisionRank(prov'[v]) > ProvisionRank(prov[v]) \/ dials'[v] > dials[v]
  /\ (ctxDone => ctxDone') /\ (fleetStop => fleetStop')

\* The goroutines of a run, and a dial loop with its retries, never start over.
THEOREM RunGoesForward == Spec => [][OnlyForward]_vars
<1>1. RunInv /\ [Next]_vars => [OnlyForward]_vars
  <2> SUFFICES ASSUME RunInv, Next PROVE OnlyForward
    OBVIOUS
  <2>1. /\ vm \in [VMs -> {"off", "launching", "up", "failing", "gone"}]
        /\ prov \in [VMs -> {"off", "dialing", "connected", "ended"}]
        /\ dials \in [VMs -> 0..MaxDials] /\ MaxDials \in Nat
        /\ phase \in Phases
        /\ phase \in {"start", "iso"} => \A v \in VMs : vm[v] = "off"
        /\ phase \in {"start", "iso", "boot"} => \A v \in VMs : prov[v] = "off"
    BY ScenarioRunAssumption DEF RunInv, TypeOK, NotStarted
  <2>2. ASSUME MainStep PROVE PhaseRank(phase') > PhaseRank(phase)
    BY <2>2 DEF MainStep, StartRun, LaunchVMs, StartProvisioning, StartMonitoring, Conclude,
       ReturnFromRun, PhaseRank
  <2>3. ASSUME NEW v \in VMs, VMStep(v)
        PROVE  VMRank(vm'[v]) > VMRank(vm[v]) /\ \A w \in VMs : w # v => vm'[w] = vm[w]
    BY <2>1, <2>3 DEF VMStep, LaunchVM, ReportVMError, VMEnds, VMRank
  <2>4. ASSUME NEW v \in VMs, ProvisionStep(v)
        PROVE  /\ ProvisionRank(prov'[v]) > ProvisionRank(prov[v]) \/ dials'[v] > dials[v]
               /\ ProvisionRank(prov'[v]) >= ProvisionRank(prov[v]) /\ dials'[v] >= dials[v]
               /\ \A w \in VMs : w # v => prov'[w] = prov[w] /\ dials'[w] = dials[w]
    <3>1. CASE Install(v)
      BY <2>1, <3>1 DEF Install, ProvisionRank
    <3>2. CASE Dial(v)
      <4>1. prov[v] = "dialing" /\ dials[v] \in Int
        BY <2>1, <3>2 DEF Dial
      <4>2. /\ \A w \in VMs : w # v => prov'[w] = prov[w] /\ dials'[w] = dials[w]
            /\ \/ prov'[v] \in {"ended", "connected"} /\ dials'[v] = dials[v]
               \/ prov'[v] \in {"ended", "dialing"} /\ dials'[v] = dials[v] + 1
        BY <2>1, <3>2 DEF Dial
      <4> QED
        BY <4>1, <4>2 DEF ProvisionRank
    <3> QED
      BY <2>4, <3>1, <3>2 DEF ProvisionStep
  <2>5. PhaseRank(phase') >= PhaseRank(phase)
    <3>1. MainStep \/ phase' = phase
      BY DEF Next, CancelRun, VMStep, ProvisionStep, FaultStep, PollStep, LaunchVM,
         ReportVMError, VMEnds, Dial, Install, FaultDue, SendFault, FaultSent, PollTick,
         CheckObjective, PollEnds, main
    <3> QED
      BY <2>2, <3>1 DEF PhaseRank
  <2>6. \A v \in VMs : VMRank(vm'[v]) >= VMRank(vm[v])
    <3>1. CASE LaunchVMs
      BY <2>1, <3>1 DEF LaunchVMs, VMRank
    <3>2. CASE \E v \in VMs : VMStep(v)
      BY <2>3, <3>2 DEF VMRank
    <3>3. CASE vm' = vm
      BY <3>3 DEF VMRank
    <3> QED
      BY <3>1, <3>2, <3>3 DEF Next, MainStep, CancelRun, StartRun, StartProvisioning,
         StartMonitoring, Conclude, ReturnFromRun, ProvisionStep, FaultStep, PollStep, Dial,
         Install, FaultDue, SendFault, FaultSent, PollTick, CheckObjective, PollEnds
  <2>7. \A v \in VMs : ProvisionRank(prov'[v]) >= ProvisionRank(prov[v]) /\ dials'[v] >= dials[v]
    <3>1. CASE StartProvisioning
      BY <2>1, <3>1 DEF StartProvisioning, ProvisionRank
    <3>2. CASE \E v \in VMs : ProvisionStep(v)
      <4>1. \A w \in VMs : dials[w] \in Int
        BY <2>1
      <4> QED
        BY <2>4, <3>2, <4>1 DEF ProvisionRank
    <3>3. CASE prov' = prov /\ dials' = dials
      BY <2>1, <3>3 DEF ProvisionRank
    <3> QED
      BY <3>1, <3>2, <3>3 DEF Next, MainStep, CancelRun, StartRun, LaunchVMs,
         StartMonitoring, Conclude, ReturnFromRun, VMStep, FaultStep, PollStep, LaunchVM,
         ReportVMError, VMEnds, FaultDue, SendFault, FaultSent, PollTick, CheckObjective,
         PollEnds, provisioning
  <2>8. (ctxDone => ctxDone') /\ (fleetStop => fleetStop')
    BY DEF Next, MainStep, VMStep, ProvisionStep, FaultStep, PollStep, CancelRun, StartRun,
       LaunchVMs, StartProvisioning, StartMonitoring, Conclude, ReturnFromRun, LaunchVM,
       ReportVMError, VMEnds, Dial, Install, FaultDue, SendFault, FaultSent, PollTick,
       CheckObjective, PollEnds, main
  <2> QED
    BY <2>2, <2>3, <2>4, <2>5, <2>6, <2>7, <2>8 DEF OnlyForward
<1> QED
  BY <1>1, RunInvHolds, PTL DEF Spec
=============================================================================
