---------------------------- MODULE ServerProofs ----------------------------
(***************************************************************************)
(* Proofs about Server for any number of fleets and scenarios and any VM   *)
(* counts.  The ID properties are proved together: none of NoIDLeak,       *)
(* CleanIDsHeld and CleanIDsExclusive is preserved by every step on its    *)
(* own.  A release keeps CleanIDsHeld only because no other live entry     *)
(* owns the released ID cleanly (CleanIDsExclusive), and an allocation     *)
(* keeps CleanIDsExclusive only because every clean ID of a live entry is  *)
(* marked in usedIDs (CleanIDsHeld).                                       *)
(***************************************************************************)
EXTENDS Server, FiniteSetTheorems, TLAPS

\* An entry not yet registered in its map cannot have been deleted, and one no
\* request has created has no IDs.
Fresh ==
  \A o \in Owners : /\ pc[o] = "idle" => ids[o] = {}
                    /\ pc[o] \in {"idle", "allocated"} => status[o] = "absent" /\ ~cancelled[o]

\* The inductive invariant.
IDInv == TypeOK /\ Fresh /\ NoIDLeak /\ CleanIDsHeld /\ CleanIDsExclusive

-----------------------------------------------------------------------------
(***************************************************************************)
(* allocateVMIDs.                                                          *)
(***************************************************************************)

\* allocateVMIDs returns VM IDs that are free.
LEMMA AllocateFree ==
  ASSUME NEW count
  PROVE  AllocateVMIDs(count) \subseteq Nat \ usedIDs
BY DEF AllocateVMIDs

\* Every handler and goroutine step preserves the types.
LEMMA TypeStep == TypeOK /\ [Next]_vars => TypeOK'
<1> SUFFICES ASSUME TypeOK, [Next]_vars PROVE TypeOK'
  OBVIOUS
<1> USE DEF Owners, PCs, FleetStatuses, ScenarioStatuses, Results
<1>1. ASSUME NEW f \in Fleets, NEW count \in Counts, CreateFleet(f, count) PROVE TypeOK'
  BY <1>1, AllocateFree, ServerAssumption DEF TypeOK, CreateFleet
<1>2. ASSUME NEW f \in Fleets, MarkFleetRunning(f) PROVE TypeOK'
  BY <1>2, ServerAssumption DEF TypeOK, MarkFleetRunning
<1>3. ASSUME NEW f \in Fleets, LaunchFleetReturns(f) PROVE TypeOK'
  BY <1>3 DEF TypeOK, LaunchFleetReturns
<1>4. ASSUME NEW f \in Fleets, FinishFleet(f) PROVE TypeOK'
  BY <1>4, ServerAssumption DEF TypeOK, FinishFleet, ReleaseVMIDs
<1>5. ASSUME NEW f \in Fleets, DeleteFleet(f) PROVE TypeOK'
  BY <1>5, ServerAssumption DEF TypeOK, DeleteFleet, ReleaseVMIDs
<1>6. ASSUME NEW s \in Scenarios, NEW count \in Counts, AllocateScenario(s, count) PROVE TypeOK'
  BY <1>6, AllocateFree DEF TypeOK, AllocateScenario
<1>7. ASSUME NEW s \in Scenarios, RegisterScenario(s) PROVE TypeOK'
  BY <1>7, ServerAssumption DEF TypeOK, RegisterScenario
<1>8. ASSUME NEW s \in Scenarios, NEW why \in Results \ {"none"}, RunReturns(s, why) PROVE TypeOK'
  BY <1>8 DEF TypeOK, RunReturns
<1>9. ASSUME NEW s \in Scenarios, FinishScenario(s) PROVE TypeOK'
  BY <1>9, ServerAssumption DEF TypeOK, FinishScenario, ReleaseVMIDs
<1>10. ASSUME NEW s \in Scenarios, DeleteScenario(s) PROVE TypeOK'
  BY <1>10, ServerAssumption DEF TypeOK, DeleteScenario
<1>11. ASSUME NEW s \in Scenarios, RejectScenario(s) PROVE TypeOK'
  BY <1>11 DEF TypeOK, RejectScenario, ReleaseVMIDs
<1>12. CASE UNCHANGED vars
  BY <1>12 DEF TypeOK, vars
<1> QED
  BY <1>1, <1>2, <1>3, <1>4, <1>5, <1>6, <1>7, <1>8, <1>9, <1>10, <1>11, <1>12
  DEF Next, FleetStep, ScenarioStep

\* The server's tables keep their types and every entry keeps to the statuses
\* the API documents, whatever requests arrive and however goroutines interleave.
THEOREM TypeCorrect == Spec => []TypeOK
<1>1. Init => TypeOK
  BY DEF Init, TypeOK, Owners, PCs, FleetStatuses, ScenarioStatuses, Results
<1> QED
  BY <1>1, TypeStep, PTL DEF Spec

-----------------------------------------------------------------------------
(***************************************************************************)
(* The ID table.  What the critical sections do to it falls into three     *)
(* kinds, treated by one lemma each: an entry is given free IDs, the IDs   *)
(* of a deleted fleet are released, the IDs of an ending entry are         *)
(* released.                                                               *)
(***************************************************************************)

IDParts == NoIDLeak /\ CleanIDsHeld /\ CleanIDsExclusive

\* allocateVMIDs for a new entry o: the new IDs were free, so no live entry
\* held one of them cleanly.
LEMMA Allocation ==
  ASSUME IDInv, NEW o \in Owners, NEW count,
         pc[o] = "idle", pc'[o] \notin {"idle", "finished"},
         usedIDs' = usedIDs \cup AllocateVMIDs(count),
         ids' = [ids EXCEPT ![o] = AllocateVMIDs(count)],
         \A p \in Owners \ {o} : pc'[p] = pc[p],
         UNCHANGED cancelled
  PROVE  IDParts'
<1> DEFINE new == AllocateVMIDs(count)
<1>0. new \cap usedIDs = {}
  BY AllocateFree
<1> HIDE DEF new
<1> USE DEF IDInv
<1>1. /\ ids[o] = {} /\ ids'[o] = new
      /\ \A p \in Owners \ {o} : ids'[p] = ids[p]
      /\ usedIDs' = usedIDs \cup new
  BY DEF Fresh, TypeOK, new
<1>2. \A p \in Owners \ {o} : Live(p)' <=> Live(p)
  BY DEF Live
<1>3. Live(o)' /\ ~Live(o)
  BY DEF Live
<1>4. \A i : Clean(i)' => Clean(i)
  BY <1>1 DEF Clean, Owners
<1>5. NoIDLeak'
  BY <1>1, <1>2, <1>3 DEF NoIDLeak
<1>6. CleanIDsHeld'
  BY <1>1, <1>2, <1>4 DEF CleanIDsHeld
<1>7. \A p \in Owners \ {o} : Live(p) => \A i \in ids[p] \cap new : ~Clean(i)
  BY <1>0 DEF CleanIDsHeld
<1>8. CleanIDsExclusive'
  BY <1>1, <1>2, <1>4, <1>7 DEF CleanIDsExclusive
<1> QED
  BY <1>5, <1>6, <1>8 DEF IDParts

\* deleteFleet: the IDs it releases are those of a cancelled fleet.
LEMMA Deletion ==
  ASSUME IDInv, NEW f \in Fleets, DeleteFleet(f)
  PROVE  IDParts'
<1> USE DEF IDInv
<1>1. /\ UNCHANGED <<ids, pc>>
      /\ usedIDs' \subseteq usedIDs /\ usedIDs \ ids[f] \subseteq usedIDs'
      /\ cancelled'[f] = TRUE
      /\ \A g \in Fleets : cancelled[g] => cancelled'[g]
  BY DEF DeleteFleet, ReleaseVMIDs, TypeOK, Owners
<1>2. \A p \in Owners : Live(p)' <=> Live(p)
  BY <1>1 DEF Live
<1>3. \A i : Clean(i)' => Clean(i) /\ i \notin ids[f]
  BY <1>1 DEF Clean
<1>4. NoIDLeak'
  BY <1>1, <1>2 DEF NoIDLeak
<1>5. CleanIDsHeld'
  BY <1>1, <1>2, <1>3 DEF CleanIDsHeld
<1>6. CleanIDsExclusive'
  BY <1>1, <1>2, <1>3 DEF CleanIDsExclusive
<1> QED
  BY <1>4, <1>5, <1>6 DEF IDParts

\* The last critical section of a goroutine: another live entry that holds one
\* of the released IDs does not hold it cleanly.
LEMMA Release ==
  ASSUME IDInv, NEW o \in Owners,
         pc[o] \in {"allocated", "returned"}, pc' = [pc EXCEPT ![o] = "finished"],
         usedIDs' = usedIDs \ ids[o],
         UNCHANGED <<ids, cancelled>>
  PROVE  IDParts'
<1> USE DEF IDInv
<1>1. Live(o) /\ ~Live(o)'
  BY DEF Live, TypeOK
<1>2. \A p \in Owners \ {o} : Live(p)' <=> Live(p)
  BY DEF Live, TypeOK
<1>3. \A i : Clean(i)' <=> Clean(i)
  BY DEF Clean
<1>4. NoIDLeak'
  BY <1>2 DEF NoIDLeak
<1>5. CleanIDsHeld'
  BY <1>1, <1>2, <1>3 DEF CleanIDsHeld, CleanIDsExclusive
<1>6. CleanIDsExclusive'
  BY <1>1, <1>2, <1>3 DEF CleanIDsExclusive
<1> QED
  BY <1>4, <1>5, <1>6 DEF IDParts

\* A step that changes neither the ID table nor who is live.
LEMMA NoIDChange ==
  ASSUME IDInv, UNCHANGED <<usedIDs, ids>>,
         \A o \in Owners : Live(o)' <=> Live(o),
         \A f \in Fleets : cancelled'[f] = cancelled[f]
  PROVE  IDParts'
<1>1. \A i : Clean(i)' <=> Clean(i)
  BY DEF Clean
<1> QED
  BY <1>1 DEF IDInv, IDParts, NoIDLeak, CleanIDsHeld, CleanIDsExclusive

-----------------------------------------------------------------------------
(***************************************************************************)
(* The invariant holds.                                                    *)
(***************************************************************************)

\* Only createFleet and createScenario bring an entry into being; DELETE finds
\* registered entries only.
LEMMA FreshStep == TypeOK /\ Fresh /\ [Next]_vars => Fresh'
<1> SUFFICES ASSUME TypeOK, Fresh, [Next]_vars PROVE Fresh'
  OBVIOUS
<1> USE DEF Owners, TypeOK, Fresh
<1>1. ASSUME NEW f \in Fleets, FleetStep(f) PROVE Fresh'
  <2>1. CASE \E count \in Counts : CreateFleet(f, count)
    BY <2>1 DEF CreateFleet
  <2>2. CASE MarkFleetRunning(f)
    BY <2>2 DEF MarkFleetRunning
  <2>3. CASE LaunchFleetReturns(f)
    BY <2>3 DEF LaunchFleetReturns
  <2>4. CASE FinishFleet(f)
    BY <2>4 DEF FinishFleet
  <2>5. CASE DeleteFleet(f)
    BY <2>5 DEF DeleteFleet
  <2> QED
    BY <1>1, <2>1, <2>2, <2>3, <2>4, <2>5 DEF FleetStep
<1>2. ASSUME NEW s \in Scenarios, ScenarioStep(s) PROVE Fresh'
  <2>1. CASE \E count \in Counts : AllocateScenario(s, count)
    BY <2>1 DEF AllocateScenario
  <2>2. CASE RegisterScenario(s)
    BY <2>2 DEF RegisterScenario
  <2>3. CASE \E why \in Results \ {"none"} : RunReturns(s, why)
    BY <2>3 DEF RunReturns
  <2>4. CASE FinishScenario(s)
    BY <2>4 DEF FinishScenario
  <2>5. CASE DeleteScenario(s)
    BY <2>5 DEF DeleteScenario
  <2>6. CASE RejectScenario(s)
    BY <2>6 DEF RejectScenario
  <2> QED
    BY <1>2, <2>1, <2>2, <2>3, <2>4, <2>5, <2>6 DEF ScenarioStep
<1>3. CASE UNCHANGED vars
  BY <1>3 DEF vars
<1> QED
  BY <1>1, <1>2, <1>3 DEF Next

\* Every critical section preserves the invariant.
LEMMA IDInvStep == IDInv /\ [Next]_vars => IDInv'
<1> SUFFICES ASSUME IDInv, [Next]_vars PROVE IDParts'
  BY TypeStep, FreshStep DEF IDInv, IDParts
<1>1. ASSUME NEW f \in Fleets, FleetStep(f) PROVE IDParts'
  <2> f \in Owners
    BY DEF Owners
  <2>1. CASE \E count \in Counts : CreateFleet(f, count)
    <3> PICK count \in Counts : CreateFleet(f, count)
      BY <2>1
    <3>1. pc[f] = "idle" /\ pc' = [pc EXCEPT ![f] = "spawned"]
      BY DEF CreateFleet
    <3>2. pc'[f] \notin {"idle", "finished"} /\ \A p \in Owners \ {f} : pc'[p] = pc[p]
      BY <3>1 DEF IDInv, TypeOK
    <3> QED
      BY <3>1, <3>2, Allocation DEF CreateFleet
  <2>2. CASE MarkFleetRunning(f)
    BY <2>2, NoIDChange DEF MarkFleetRunning, IDInv, TypeOK, Live
  <2>3. CASE LaunchFleetReturns(f)
    BY <2>3, NoIDChange DEF LaunchFleetReturns, IDInv, TypeOK, Live
  <2>4. CASE FinishFleet(f)
    BY <2>4, Release DEF FinishFleet, ReleaseVMIDs
  <2>5. CASE DeleteFleet(f)
    BY <2>5, Deletion
  <2> QED
    BY <1>1, <2>1, <2>2, <2>3, <2>4, <2>5 DEF FleetStep
<1>2. ASSUME NEW s \in Scenarios, ScenarioStep(s) PROVE IDParts'
  <2> s \in Owners
    BY DEF Owners
  <2>1. CASE \E count \in Counts : AllocateScenario(s, count)
    <3> PICK count \in Counts : AllocateScenario(s, count)
      BY <2>1
    <3>1. pc[s] = "idle" /\ pc' = [pc EXCEPT ![s] = "allocated"]
      BY DEF AllocateScenario
    <3>2. pc'[s] \notin {"idle", "finished"} /\ \A p \in Owners \ {s} : pc'[p] = pc[p]
      BY <3>1 DEF IDInv, TypeOK
    <3> QED
      BY <3>1, <3>2, Allocation DEF AllocateScenario
  <2>2. CASE RegisterScenario(s)
    BY <2>2, NoIDChange DEF RegisterScenario, IDInv, TypeOK, Live
  <2>3. CASE \E why \in Results \ {"none"} : RunReturns(s, why)
    BY <2>3, NoIDChange DEF RunReturns, IDInv, TypeOK, Live
  <2>4. CASE FinishScenario(s)
    BY <2>4, Release DEF FinishScenario, ReleaseVMIDs
  <2>5. CASE DeleteScenario(s)
    BY <2>5, NoIDChange, ServerAssumption DEF DeleteScenario, IDInv, TypeOK, Live, Owners
  <2>6. CASE RejectScenario(s)
    BY <2>6, Release DEF RejectScenario, ReleaseVMIDs
  <2> QED
    BY <1>2, <2>1, <2>2, <2>3, <2>4, <2>5, <2>6 DEF ScenarioStep
<1>3. CASE UNCHANGED vars
  BY <1>3, NoIDChange DEF vars, Live
<1> QED
  BY <1>1, <1>2, <1>3 DEF Next

\* The empty server of NewServerWithDeps satisfies the invariant.
LEMMA IDInvInit == Init => IDInv
BY DEF Init, IDInv, TypeOK, Fresh, NoIDLeak, CleanIDsHeld, CleanIDsExclusive, Live,
       Owners, PCs, FleetStatuses, ScenarioStatuses, Results

\* The invariant holds in every state the server reaches.
THEOREM IDInvHolds == Spec => []IDInv
BY IDInvInit, IDInvStep, PTL DEF Spec

\* Every path through the two create and the two DELETE handlers and their
\* goroutines gives all VM IDs back.
THEOREM IDsNeverLeak == Spec => []NoIDLeak
<1>1. IDInv => NoIDLeak
  BY DEF IDInv
<1> QED
  BY <1>1, IDInvHolds, PTL

\* releaseVMIDs of one entry never frees an ID of another entry, unless a fleet
\* that held this ID was deleted before.
THEOREM CleanIDsStayHeld == Spec => []CleanIDsHeld
<1>1. IDInv => CleanIDsHeld
  BY DEF IDInv
<1> QED
  BY <1>1, IDInvHolds, PTL

\* Two live entries never share an ID, unless a fleet that held this ID was
\* deleted before.
THEOREM CleanIDsUnshared == Spec => []CleanIDsExclusive
<1>1. IDInv => CleanIDsExclusive
  BY DEF IDInv
<1> QED
  BY <1>1, IDInvHolds, PTL

-----------------------------------------------------------------------------
(***************************************************************************)
(* Action properties.                                                      *)
(***************************************************************************)

\* The used table only ever holds finitely many IDs, so allocateVMIDs finds free
\* ones.
UsedFinite == IsFiniteSet(usedIDs)

\* allocateVMIDs returns finitely many IDs.
LEMMA AllocateFinite ==
  ASSUME IsFiniteSet(usedIDs), NEW count \in Nat
  PROVE  IsFiniteSet(AllocateVMIDs(count))
<1> DEFINE bound == count + Cardinality(usedIDs)
<1>1. bound \in Nat
  BY FS_CardinalityType
<1>2. IsFiniteSet(0..bound)
  BY <1>1, FS_Interval
<1>3. AllocateVMIDs(count) \subseteq 0..bound
  BY DEF AllocateVMIDs
<1> QED
  BY <1>2, <1>3, FS_Subset

\* The allocation a step makes, if it makes one.
LEMMA StepAllocates ==
  ASSUME TypeOK, [Next]_vars
  PROVE  \/ usedIDs' \subseteq usedIDs /\ ids' = ids
         \/ \E o \in Owners, count \in Nat :
               /\ usedIDs' = usedIDs \cup AllocateVMIDs(count)
               /\ ids' = [ids EXCEPT ![o] = AllocateVMIDs(count)]
<1> USE DEF Owners
<1>1. ASSUME NEW f \in Fleets, NEW count \in Counts, CreateFleet(f, count)
      PROVE  \E o \in Owners, c \in Nat :
               /\ usedIDs' = usedIDs \cup AllocateVMIDs(c)
               /\ ids' = [ids EXCEPT ![o] = AllocateVMIDs(c)]
  <2> DEFINE c == IF count < 1 THEN 1 ELSE count
  <2>1. c \in Nat
    BY ServerAssumption
  <2> QED
    BY <1>1, <2>1 DEF CreateFleet
<1>2. ASSUME NEW s \in Scenarios, NEW count \in Counts, AllocateScenario(s, count)
      PROVE  \E o \in Owners, c \in Nat :
               /\ usedIDs' = usedIDs \cup AllocateVMIDs(c)
               /\ ids' = [ids EXCEPT ![o] = AllocateVMIDs(c)]
  BY <1>2, ServerAssumption DEF AllocateScenario
<1>3. ASSUME NEW f \in Fleets, \/ MarkFleetRunning(f) \/ LaunchFleetReturns(f)
                               \/ FinishFleet(f) \/ DeleteFleet(f)
      PROVE  usedIDs' \subseteq usedIDs /\ ids' = ids
  BY <1>3 DEF MarkFleetRunning, LaunchFleetReturns, FinishFleet, DeleteFleet, ReleaseVMIDs
<1>4. ASSUME NEW s \in Scenarios, \/ RejectScenario(s) \/ RegisterScenario(s)
                                  \/ FinishScenario(s) \/ DeleteScenario(s)
                                  \/ \E why \in Results \ {"none"} : RunReturns(s, why)
      PROVE  usedIDs' \subseteq usedIDs /\ ids' = ids
  BY <1>4
  DEF RejectScenario, RegisterScenario, FinishScenario, DeleteScenario, RunReturns, ReleaseVMIDs
<1>5. CASE UNCHANGED vars
  BY <1>5 DEF vars
<1> QED
  BY <1>1, <1>2, <1>3, <1>4, <1>5 DEF Next, FleetStep, ScenarioStep

\* Every critical section leaves a finite used table.
LEMMA UsedFiniteStep == TypeOK /\ UsedFinite /\ [Next]_vars => UsedFinite'
<1> SUFFICES ASSUME TypeOK, UsedFinite, [Next]_vars PROVE UsedFinite'
  OBVIOUS
<1>1. CASE usedIDs' \subseteq usedIDs
  BY <1>1, FS_Subset DEF UsedFinite
<1>2. ASSUME NEW count \in Nat, usedIDs' = usedIDs \cup AllocateVMIDs(count)
      PROVE  UsedFinite'
  BY <1>2, AllocateFinite, FS_Union DEF UsedFinite
<1> QED
  BY <1>1, <1>2, StepAllocates


\* Below an ID that allocateVMIDs returns every ID is in use or returned too.
LEMMA AllocateLowest ==
  ASSUME IsFiniteSet(usedIDs),
         NEW count \in Nat, NEW i \in AllocateVMIDs(count), NEW j \in 0..i
  PROVE  j \in usedIDs \cup AllocateVMIDs(count)
<1> DEFINE bound == count + Cardinality(usedIDs)
           free(c) == {d \in 0..c : d # c /\ d \notin usedIDs}
<1>1. /\ i \in 0..bound /\ Cardinality(free(i)) < count
      /\ bound \in Nat
  BY FS_CardinalityType DEF AllocateVMIDs
<1>2. CASE j \notin usedIDs
  <2>1. j \in 0..bound
    BY <1>1
  <2>2. free(j) \subseteq free(i)
    BY <1>1
  <2>3. IsFiniteSet(free(i))
    <3>1. IsFiniteSet(0..i)
      BY FS_Interval, <1>1
    <3> QED
      BY <3>1, FS_Subset
  <2>4. Cardinality(free(j)) <= Cardinality(free(i))
    BY <2>2, <2>3, FS_Subset
  <2>5. Cardinality(free(j)) < count
    <3>1. Cardinality(free(j)) \in Nat /\ Cardinality(free(i)) \in Nat
      BY <2>2, <2>3, FS_Subset, FS_CardinalityType
    <3> QED
      BY <3>1, <2>4, <1>1
  <2> QED
    BY <1>2, <2>1, <2>5 DEF AllocateVMIDs
<1> QED
  BY <1>2

\* allocateVMIDs always hands out the lowest free IDs: when a step gives an
\* entry an ID, no ID below it is left free.
THEOREM LowestIDsAreTaken == Spec => LowestIDsFirst
<1> DEFINE Filled == \A o \in Owners : ids'[o] # ids[o] =>
                       \A i \in ids'[o] : 0..i \subseteq usedIDs'
<1>1. Init => UsedFinite
  BY FS_EmptySet DEF Init, UsedFinite
<1>2. TypeOK /\ UsedFinite /\ [Next]_vars => [Filled]_vars
  <2> SUFFICES ASSUME TypeOK, UsedFinite, [Next]_vars PROVE Filled
    OBVIOUS
  <2>1. CASE ids' = ids
    BY <2>1
  <2>2. ASSUME NEW o \in Owners, NEW count \in Nat,
               usedIDs' = usedIDs \cup AllocateVMIDs(count),
               ids' = [ids EXCEPT ![o] = AllocateVMIDs(count)]
        PROVE  Filled
    <3>1. \A p \in Owners : ids'[p] # ids[p] => ids'[p] = AllocateVMIDs(count)
      BY <2>2 DEF TypeOK
    <3>2. \A i \in AllocateVMIDs(count) : 0..i \subseteq usedIDs'
      BY <2>2, AllocateLowest DEF UsedFinite
    <3> QED
      BY <3>1, <3>2
  <2> QED
    BY <2>1, <2>2, StepAllocates
<1> QED
  BY <1>1, <1>2, UsedFiniteStep, TypeCorrect, PTL DEF Spec, LowestIDsFirst

\* DELETE of a scenario is final: no later step changes "aborted", whatever
\* Runner.Run returned.
THEOREM AbortIsFinal == Spec => AbortedIsFinal
<1> DEFINE Kept == \A s \in Scenarios : status[s] = "aborted" => status'[s] = "aborted"
<1>1. TypeOK /\ Fresh /\ [Next]_vars => [Kept]_vars
  <2> SUFFICES ASSUME TypeOK, Fresh, [Next]_vars PROVE Kept
    OBVIOUS
  <2> USE DEF TypeOK, Owners
  <2>1. ASSUME NEW f \in Fleets, FleetStep(f) PROVE Kept
    BY <2>1, ServerAssumption
    DEF FleetStep, CreateFleet, MarkFleetRunning, LaunchFleetReturns, FinishFleet, DeleteFleet
  <2>2. ASSUME NEW s \in Scenarios, ScenarioStep(s) PROVE Kept
    BY <2>2
    DEF ScenarioStep, AllocateScenario, RejectScenario, RegisterScenario, RunReturns,
        FinishScenario, DeleteScenario, Fresh
  <2>3. CASE UNCHANGED vars
    BY <2>3 DEF vars
  <2> QED
    BY <2>1, <2>2, <2>3 DEF Next
<1>2. IDInv => TypeOK /\ Fresh
  BY DEF IDInv
<1> QED
  BY <1>1, <1>2, IDInvHolds, PTL DEF Spec, AbortedIsFinal

-----------------------------------------------------------------------------
(***************************************************************************)
(* The server implements the lease of IDs.                                 *)
(***************************************************************************)

OpenEntries == {o \in Owners : Live(o)}
Tainted == UNION {ids[f] : f \in {g \in Fleets : cancelled[g]}}

\* The IDs that are not clean are the tainted ones.
LEMMA TaintedIDs == \A i : i \in Tainted <=> ~Clean(i)
BY DEF Tainted, Clean

\* A step that gives an entry free IDs is a Grant.
LEMMA GrantStep ==
  ASSUME IDInv, NEW o \in Owners, NEW count,
         pc[o] = "idle", pc'[o] \notin {"idle", "finished"},
         ids' = [ids EXCEPT ![o] = AllocateVMIDs(count)],
         \A p \in Owners \ {o} : pc'[p] = pc[p],
         UNCHANGED cancelled
  PROVE  Lease!Grant(o)
<1> DEFINE new == AllocateVMIDs(count)
<1>0. new \cap usedIDs = {}
  BY AllocateFree
<1> HIDE DEF new
<1>1. /\ ids[o] = {} /\ ids'[o] = new
      /\ \A p \in Owners \ {o} : ids'[p] = ids[p]
  BY DEF IDInv, Fresh, TypeOK, new
<1>2. OpenEntries' = OpenEntries \cup {o} /\ o \notin OpenEntries
  BY DEF OpenEntries, Live
<1>3. \A g \in OpenEntries : ids'[o] \cap ids[g] \subseteq Tainted
  BY <1>0, <1>1, TaintedIDs DEF OpenEntries, IDInv, CleanIDsHeld
<1>4. Tainted' = Tainted
  <2>1. o \in Fleets => ~cancelled[o]
    BY DEF IDInv, Fresh
  <2>2. \A f \in {g \in Fleets : cancelled[g]} : ids'[f] = ids[f]
    BY <1>1, <2>1 DEF Owners
  <2> QED
    BY <2>2 DEF Tainted
<1> QED
  BY <1>1, <1>2, <1>3, <1>4 DEF Lease!Grant, OpenEntries, Tainted

\* The end of a goroutine is a Close.
LEMMA CloseStep ==
  ASSUME IDInv, NEW o \in Owners,
         pc[o] \in {"allocated", "returned"}, pc' = [pc EXCEPT ![o] = "finished"],
         UNCHANGED <<ids, cancelled>>
  PROVE  Lease!Close(o)
<1>1. OpenEntries' = OpenEntries \ {o} /\ o \in OpenEntries
  BY DEF OpenEntries, Live, IDInv, TypeOK
<1>2. Tainted' = Tainted
  BY DEF Tainted
<1> QED
  BY <1>1, <1>2 DEF Lease!Close, OpenEntries, Tainted

\* DELETE of a fleet taints its IDs.
LEMMA TaintStep ==
  ASSUME IDInv, NEW f \in Fleets, DeleteFleet(f)
  PROVE  Lease!Taint(f)
<1>1. /\ UNCHANGED <<ids, pc>>
      /\ \A g \in Fleets : cancelled'[g] <=> cancelled[g] \/ g = f
  BY DEF DeleteFleet, IDInv, TypeOK, Owners
<1>2. Tainted' = Tainted \cup ids[f]
  BY <1>1 DEF Tainted
<1>3. OpenEntries' = OpenEntries
  BY <1>1 DEF OpenEntries, Live
<1> QED
  BY <1>1, <1>2, <1>3 DEF Lease!Taint, OpenEntries, Tainted

\* All other steps leave the lease alone.
LEMMA LeaseUnchanged ==
  ASSUME UNCHANGED ids,
         \A o \in Owners : Live(o)' <=> Live(o),
         \A f \in Fleets : cancelled'[f] = cancelled[f]
  PROVE  UNCHANGED Lease!leaseVars
<1>1. OpenEntries' = OpenEntries
  BY DEF OpenEntries
<1>2. Tainted' = Tainted
  BY DEF Tainted
<1> QED
  BY <1>1, <1>2 DEF Lease!leaseVars, OpenEntries, Tainted

\* Every critical section is a step of the lease or leaves it alone.
LEMMA LeaseStep == IDInv /\ [Next]_vars => [Lease!Next]_(Lease!leaseVars)
<1> SUFFICES ASSUME IDInv, [Next]_vars PROVE [Lease!Next]_(Lease!leaseVars)
  OBVIOUS
<1>1. ASSUME NEW f \in Fleets, FleetStep(f) PROVE [Lease!Next]_(Lease!leaseVars)
  <2>0. f \in Owners
    BY DEF Owners
  <2>1. CASE \E count \in Counts : CreateFleet(f, count)
    <3> PICK count \in Counts : CreateFleet(f, count)
      BY <2>1
    <3>1. pc[f] = "idle" /\ pc' = [pc EXCEPT ![f] = "spawned"]
      BY DEF CreateFleet
    <3>2. pc'[f] \notin {"idle", "finished"} /\ \A p \in Owners \ {f} : pc'[p] = pc[p]
      BY <2>0, <3>1 DEF IDInv, TypeOK
    <3>3. Lease!Grant(f)
      BY <2>0, <3>1, <3>2, GrantStep DEF CreateFleet
    <3> QED
      BY <2>0, <3>3 DEF Lease!Next
  <2>2. CASE MarkFleetRunning(f)
    BY <2>2, LeaseUnchanged DEF MarkFleetRunning, IDInv, TypeOK, Live
  <2>3. CASE LaunchFleetReturns(f)
    BY <2>3, LeaseUnchanged DEF LaunchFleetReturns, IDInv, TypeOK, Live
  <2>4. CASE FinishFleet(f)
    <3>1. Lease!Close(f)
      BY <2>0, <2>4, CloseStep DEF FinishFleet
    <3> QED
      BY <2>0, <3>1 DEF Lease!Next
  <2>5. CASE DeleteFleet(f)
    <3>1. Lease!Taint(f)
      BY <2>5, TaintStep
    <3> QED
      BY <2>0, <3>1 DEF Lease!Next
  <2> QED
    BY <1>1, <2>1, <2>2, <2>3, <2>4, <2>5 DEF FleetStep
<1>2. ASSUME NEW s \in Scenarios, ScenarioStep(s) PROVE [Lease!Next]_(Lease!leaseVars)
  <2>0. s \in Owners
    BY DEF Owners
  <2>1. CASE \E count \in Counts : AllocateScenario(s, count)
    <3> PICK count \in Counts : AllocateScenario(s, count)
      BY <2>1
    <3>1. pc[s] = "idle" /\ pc' = [pc EXCEPT ![s] = "allocated"]
      BY DEF AllocateScenario
    <3>2. pc'[s] \notin {"idle", "finished"} /\ \A p \in Owners \ {s} : pc'[p] = pc[p]
      BY <2>0, <3>1 DEF IDInv, TypeOK
    <3>3. Lease!Grant(s)
      BY <2>0, <3>1, <3>2, GrantStep DEF AllocateScenario
    <3> QED
      BY <2>0, <3>3 DEF Lease!Next
  <2>2. CASE RegisterScenario(s)
    BY <2>2, LeaseUnchanged DEF RegisterScenario, IDInv, TypeOK, Live
  <2>3. CASE \E why \in Results \ {"none"} : RunReturns(s, why)
    BY <2>3, LeaseUnchanged DEF RunReturns, IDInv, TypeOK, Live
  <2>4. CASE FinishScenario(s)
    <3>1. Lease!Close(s)
      BY <2>0, <2>4, CloseStep DEF FinishScenario
    <3> QED
      BY <2>0, <3>1 DEF Lease!Next
  <2>5. CASE DeleteScenario(s)
    BY <2>5, LeaseUnchanged, ServerAssumption
    DEF DeleteScenario, IDInv, TypeOK, Live, Owners
  <2>6. CASE RejectScenario(s)
    <3>1. Lease!Close(s)
      BY <2>0, <2>6, CloseStep DEF RejectScenario
    <3> QED
      BY <2>0, <3>1 DEF Lease!Next
  <2> QED
    BY <1>2, <2>1, <2>2, <2>3, <2>4, <2>5, <2>6 DEF ScenarioStep
<1>3. CASE UNCHANGED vars
  BY <1>3, LeaseUnchanged DEF vars, Live
<1> QED
  BY <1>1, <1>2, <1>3 DEF Next

\* The ID table of the server implements the abstract lease: its initial state
\* is one of the lease and every handler and goroutine step is a Grant, a Close,
\* a Taint or none of the lease's business.
THEOREM ServerImplementsLease == Spec => ImplementsLease
<1>1. ASSUME Init PROVE Lease!Init
  <2>1. OpenEntries = {}
    BY <1>1 DEF Init, OpenEntries, Live
  <2>2. \A i : Clean(i)
    BY <1>1 DEF Init, Clean, Owners
  <2>3. Tainted = {}
    BY <2>2, TaintedIDs
  <2> QED
    BY <1>1, <2>1, <2>3 DEF Init, Lease!Init, OpenEntries, Tainted
<1> QED
  BY <1>1, LeaseStep, IDInvHolds, PTL DEF Spec, ImplementsLease, Lease!LeaseSpec

=============================================================================
