---------------------------- MODULE AgentProofs -----------------------------
(***************************************************************************)
(* Proofs about Agent for any number of calls of startFault, any fault IDs *)
(* and any fault types.  OrphanOnlyAfterFailedStart is not inductive: that *)
(* a goroutine is registered is settled before it is started.  The         *)
(* invariant therefore speaks of a call from the moment it registers its   *)
(* ID (PendingRegistered), and of what the goroutines and timers that      *)
(* exist say about the progress of their call (Progress).                  *)
(***************************************************************************)
EXTENDS Agent, TLAPS

\* What startFault has done of its work, seen from what it has started.
Progress ==
  \A c \in Calls :
    /\ pc[c] = "idle" => ~cancelled[c]
    /\ pc[c] # "idle" => req[c] \in Requests
    /\ worker[c] # "none" => pc[c] \in {"dispatched", "started"}
    /\ worker[c] = "spawned" => req[c].type = "disk"
    /\ timer[c] # "none" => pc[c] = "started"
    /\ \A i \in FaultIDs : active[i] = c => pc[c] \notin {"idle", "refused"}

\* A call that has registered its ID and was neither stopped nor has failed.
Pending(c) == pc[c] \in {"registered", "dispatched", "started"} /\ ~cancelled[c]

PendingRegistered ==
  \A c \in Calls : Pending(c) => active[req[c].id] = c \/ StartFailed(req[c].id)

\* The inductive invariant.
AgentInv ==
  /\ TypeOK /\ Progress /\ RegisteredIsLive /\ PendingRegistered
  /\ NetemHasCleaner /\ FillFileHasOwner

-----------------------------------------------------------------------------
(***************************************************************************)
(* Types and progress.                                                     *)
(***************************************************************************)

\* A request names one of the fault IDs.
LEMMA RequestID == \A r \in Requests : r.id \in FaultIDs
BY DEF Requests

\* Every step of startFault, stopFault, a timer, a goroutine or the trainee
\* preserves the types.
LEMMA TypeStep == TypeOK /\ Progress /\ [Next]_vars => TypeOK'
<1> SUFFICES ASSUME TypeOK, Progress, [Next]_vars PROVE TypeOK'
  OBVIOUS
<1> USE DEF TypeOK, PCs
<1>1. ASSUME NEW c \in Calls, StartStep(c) PROVE TypeOK'
  <2>0. ASSUME NEW r \in Requests, RefuseFault(c, r) PROVE TypeOK'
    BY <2>0 DEF RefuseFault
  <2>1. ASSUME NEW r \in Requests, RegisterFault(c, r) PROVE TypeOK'
    <3>1. active' \in [FaultIDs -> Calls \cup {NoCall}]
      BY <2>1, RequestID DEF RegisterFault
    <3> QED
      BY <2>1, <3>1 DEF RegisterFault
  <2>2. CASE SpawnWorker(c)
    BY <2>2 DEF SpawnWorker
  <2>3. CASE AddQdisc(c)
    BY <2>3 DEF AddQdisc
  <2>4. CASE ChangeSystem(c)
    BY <2>4 DEF ChangeSystem
  <2>5. CASE FailToStart(c)
    BY <2>5 DEF FailToStart
  <2>6. CASE Unregister(c)
    BY <2>6 DEF Unregister
  <2>7. CASE ReturnStarted(c)
    BY <2>7 DEF ReturnStarted
  <2> QED
    BY <1>1, <2>0, <2>1, <2>2, <2>3, <2>4, <2>5, <2>6, <2>7 DEF StartStep
<1>2. ASSUME NEW c \in Calls, TimerStep(c) PROVE TypeOK'
  BY <1>2 DEF TimerStep, TimerExpires, TimerStops, TimerQuits, StopFault
<1>3. ASSUME NEW c \in Calls, WorkerStep(c) PROVE TypeOK'
  BY <1>3 DEF WorkerStep, WorkerQuits, DeleteQdisc, CreateFillFile, StopFilling
<1>4. ASSUME NEW c \in Calls, TraineeRepairs(c) PROVE TypeOK'
  BY <1>4 DEF TraineeRepairs
<1>5. ASSUME NEW i \in FaultIDs, HandleFaultStop(i) PROVE TypeOK'
  BY <1>5 DEF HandleFaultStop, StopFault
<1>6. CASE UNCHANGED vars
  BY <1>6 DEF vars
<1> QED
  BY <1>1, <1>2, <1>3, <1>4, <1>5, <1>6 DEF Next

\* Goroutines, timers and registrations exist only where startFault has come far
\* enough to make them.
LEMMA ProgressStep == TypeOK /\ Progress /\ [Next]_vars => Progress'
<1> SUFFICES ASSUME TypeOK, Progress, [Next]_vars PROVE Progress'
  OBVIOUS
<1> USE DEF TypeOK, Progress
<1>1. ASSUME NEW c \in Calls, StartStep(c) PROVE Progress'
  <2>1. ASSUME NEW r \in Requests, RegisterFault(c, r) PROVE Progress'
    BY <2>1, AgentAssumption DEF RegisterFault, Requests
  <2>2. ASSUME NEW r \in Requests, RefuseFault(c, r) PROVE Progress'
    BY <2>2 DEF RefuseFault
  <2>3. CASE SpawnWorker(c)
    BY <2>3 DEF SpawnWorker
  <2>4. CASE AddQdisc(c)
    BY <2>4 DEF AddQdisc
  <2>5. CASE ChangeSystem(c)
    BY <2>5 DEF ChangeSystem
  <2>6. CASE FailToStart(c)
    BY <2>6 DEF FailToStart
  <2>7. CASE Unregister(c)
    BY <2>7, AgentAssumption DEF Unregister
  <2>8. CASE ReturnStarted(c)
    BY <2>8 DEF ReturnStarted
  <2> QED
    BY <1>1, <2>1, <2>2, <2>3, <2>4, <2>5, <2>6, <2>7, <2>8 DEF StartStep
<1>2. ASSUME NEW c \in Calls, TimerStep(c) PROVE Progress'
  BY <1>2, RequestID, AgentAssumption
  DEF TimerStep, TimerExpires, TimerStops, TimerQuits, StopFault
<1>3. ASSUME NEW c \in Calls, WorkerStep(c) PROVE Progress'
  BY <1>3 DEF WorkerStep, WorkerQuits, DeleteQdisc, CreateFillFile, StopFilling
<1>4. ASSUME NEW c \in Calls, TraineeRepairs(c) PROVE Progress'
  BY <1>4 DEF TraineeRepairs
<1>5. ASSUME NEW i \in FaultIDs, HandleFaultStop(i) PROVE Progress'
  BY <1>5, AgentAssumption DEF HandleFaultStop, StopFault
<1>6. CASE UNCHANGED vars
  BY <1>6 DEF vars
<1> QED
  BY <1>1, <1>2, <1>3, <1>4, <1>5, <1>6 DEF Next

-----------------------------------------------------------------------------
(***************************************************************************)
(* The registry.                                                           *)
(***************************************************************************)

Registry == RegisteredIsLive /\ PendingRegistered

\* A failed start is not forgotten: no step takes a call back.
LEMMA FailedStays ==
  ASSUME TypeOK, [Next]_vars, NEW e \in Calls, req'[e] = req[e], StartFailed(req[e].id)
  PROVE  StartFailed(req[e].id)'
<1> PICK d \in Calls : req[d].id = req[e].id /\ pc[d] \in {"failing", "failed"}
  BY DEF StartFailed
<1> SUFFICES req'[d] = req[d] /\ pc'[d] \in {"failing", "failed"}
  BY DEF StartFailed
<1> USE DEF TypeOK
<1>1. ASSUME NEW c \in Calls, StartStep(c) PROVE req'[d] = req[d] /\ pc'[d] \in {"failing", "failed"}
  BY <1>1
  DEF StartStep, RegisterFault, RefuseFault, SpawnWorker, AddQdisc, ChangeSystem, FailToStart,
      Unregister, ReturnStarted
<1>2. ASSUME ~ \E c \in Calls : StartStep(c) PROVE UNCHANGED <<req, pc>>
  BY <1>2
  DEF Next, vars, TimerStep, TimerExpires, TimerStops, TimerQuits, WorkerStep, WorkerQuits,
      DeleteQdisc, CreateFillFile, StopFilling, TraineeRepairs, HandleFaultStop
<1> QED
  BY <1>1, <1>2

\* stopFault(i) takes a registration and cancels exactly the call that made it.
LEMMA StopKeepsRegistry ==
  ASSUME AgentInv, [Next]_vars, NEW i \in FaultIDs, StopFault(i), UNCHANGED <<req, pc>>
  PROVE  Registry'
<1> USE DEF AgentInv, TypeOK
<1>1. RegisteredIsLive'
  BY AgentAssumption DEF RegisteredIsLive, StopFault
<1>2. ASSUME NEW c \in Calls, Pending(c)' PROVE (active[req[c].id] = c \/ StartFailed(req[c].id))'
  <2>1. Pending(c) /\ active[i] # c
    BY <1>2 DEF Pending, StopFault
  <2>2. CASE active[req[c].id] = c
    BY <2>1, <2>2 DEF StopFault
  <2>3. CASE StartFailed(req[c].id)
    BY <2>3, FailedStays
  <2> QED
    BY <2>1, <2>2, <2>3 DEF PendingRegistered
<1> QED
  BY <1>1, <1>2 DEF Registry, PendingRegistered

\* The registry stays consistent under every step.
LEMMA RegistryStep == AgentInv /\ [Next]_vars => Registry'
<1> SUFFICES ASSUME AgentInv, [Next]_vars PROVE Registry'
  OBVIOUS
<1> USE DEF AgentInv, TypeOK, Progress
<1>1. ASSUME NEW c \in Calls, NEW r \in Requests, RegisterFault(c, r) PROVE Registry'
  <2>1. /\ r.id \in FaultIDs /\ active[r.id] = NoCall /\ pc[c] = "idle" /\ ~cancelled[c]
        /\ req' = [req EXCEPT ![c] = r] /\ pc' = [pc EXCEPT ![c] = "registered"]
        /\ active' = [active EXCEPT ![r.id] = c] /\ UNCHANGED cancelled
    BY <1>1, RequestID DEF RegisterFault
  <2>2. RegisteredIsLive'
    BY <2>1 DEF RegisteredIsLive
  <2>3. ASSUME NEW d \in Calls, Pending(d)'
        PROVE  (active[req[d].id] = d \/ StartFailed(req[d].id))'
    <3>1. CASE d = c
      BY <2>1, <3>1
    <3>2. CASE d # c
      <4>1. Pending(d) /\ req'[d] = req[d]
        BY <2>1, <2>3, <3>2 DEF Pending
      <4>2. CASE active[req[d].id] = d
        BY <2>1, <4>1, <4>2, AgentAssumption
      <4>3. CASE StartFailed(req[d].id)
        BY <4>1, <4>3, FailedStays
      <4> QED
        BY <4>1, <4>2, <4>3 DEF PendingRegistered
    <3> QED
      BY <3>1, <3>2
  <2> QED
    BY <2>2, <2>3 DEF Registry, PendingRegistered
<1>2. ASSUME NEW c \in Calls, Unregister(c) PROVE Registry'
  <2>1. /\ req[c].id \in FaultIDs /\ pc[c] = "failing"
        /\ active' = [active EXCEPT ![req[c].id] = NoCall] /\ pc' = [pc EXCEPT ![c] = "failed"]
        /\ UNCHANGED <<req, cancelled>>
    BY <1>2, RequestID DEF Unregister
  <2>2. RegisteredIsLive'
    BY <2>1, AgentAssumption DEF RegisteredIsLive
  <2>3. StartFailed(req[c].id)'
    BY <2>1 DEF StartFailed
  <2>4. ASSUME NEW d \in Calls, Pending(d)'
        PROVE  (active[req[d].id] = d \/ StartFailed(req[d].id))'
    <3>1. Pending(d) /\ req'[d] = req[d]
      BY <2>1, <2>4 DEF Pending
    <3>2. CASE active[req[d].id] = d /\ req[d].id # req[c].id
      BY <2>1, <3>1, <3>2
    <3>3. CASE StartFailed(req[d].id)
      BY <3>1, <3>3, FailedStays
    <3>4. CASE req[d].id = req[c].id
      BY <2>1, <2>3, <3>4 DEF StartFailed
    <3> QED
      BY <3>1, <3>2, <3>3, <3>4 DEF PendingRegistered
  <2> QED
    BY <2>2, <2>4 DEF Registry, PendingRegistered
<1>3. ASSUME UNCHANGED active, \A d \in Calls : Pending(d)' => Pending(d) /\ req'[d] = req[d],
             RegisteredIsLive'
      PROVE  Registry'
  <2>1. ASSUME NEW d \in Calls, Pending(d)'
        PROVE  (active[req[d].id] = d \/ StartFailed(req[d].id))'
    BY <1>3, <2>1, FailedStays DEF PendingRegistered
  <2> QED
    BY <1>3, <2>1 DEF Registry, PendingRegistered
<1>4. ASSUME NEW c \in Calls, NEW r \in Requests, RefuseFault(c, r) PROVE Registry'
  <2>1. RegisteredIsLive'
    BY <1>4 DEF RefuseFault, RegisteredIsLive
  <2>2. \A d \in Calls : Pending(d)' => Pending(d) /\ req'[d] = req[d]
    BY <1>4 DEF RefuseFault, Pending
  <2> QED
    BY <1>3, <1>4, <2>1, <2>2 DEF RefuseFault
<1>5. ASSUME NEW c \in Calls,
             SpawnWorker(c) \/ AddQdisc(c) \/ ChangeSystem(c) \/ FailToStart(c) \/ ReturnStarted(c)
      PROVE  Registry'
  <2> USE DEF SpawnWorker, AddQdisc, ChangeSystem, FailToStart, ReturnStarted
  <2>1. UNCHANGED <<active, req>>
    BY <1>5
  <2>2. RegisteredIsLive'
    BY <1>5 DEF RegisteredIsLive
  <2>3. \A d \in Calls : Pending(d)' => Pending(d) /\ req'[d] = req[d]
    BY <1>5 DEF Pending
  <2> QED
    BY <1>3, <2>1, <2>2, <2>3
<1>6. ASSUME NEW c \in Calls, TimerStops(c) PROVE Registry'
  BY <1>6, RequestID, StopKeepsRegistry DEF TimerStops
<1>7. ASSUME NEW i \in FaultIDs, HandleFaultStop(i) PROVE Registry'
  BY <1>7, StopKeepsRegistry DEF HandleFaultStop
<1>8. CASE UNCHANGED <<active, req, pc, cancelled>>
  BY <1>3, <1>8 DEF Pending, RegisteredIsLive
<1>9. ASSUME NEW c \in Calls,
             TimerExpires(c) \/ TimerQuits(c) \/ WorkerStep(c) \/ TraineeRepairs(c)
      PROVE  Registry'
  BY <1>8, <1>9
  DEF TimerExpires, TimerQuits, WorkerStep, WorkerQuits, DeleteQdisc, CreateFillFile,
      StopFilling, TraineeRepairs
<1>10. CASE UNCHANGED vars
  BY <1>8, <1>10 DEF vars
<1> QED
  BY <1>1, <1>2, <1>4, <1>5, <1>6, <1>7, <1>9, <1>10 DEF Next, StartStep, TimerStep

-----------------------------------------------------------------------------
(***************************************************************************)
(* What faults leave in the VM.                                            *)
(***************************************************************************)

\* The netem qdisc and its clean-up goroutine come and go together, the repairs
\* of the trainee aside.
LEMMA NetemStep == AgentInv /\ [Next]_vars => NetemHasCleaner'
<1> SUFFICES ASSUME AgentInv, [Next]_vars PROVE NetemHasCleaner'
  OBVIOUS
<1> USE DEF AgentInv, TypeOK, Progress, NetemHasCleaner, Cleaner
<1>1. ASSUME NEW c \in Calls, NEW r \in Requests, RegisterFault(c, r) \/ RefuseFault(c, r)
      PROVE  NetemHasCleaner'
  BY <1>1 DEF RegisterFault, RefuseFault
<1>2. ASSUME NEW c \in Calls, SpawnWorker(c) PROVE NetemHasCleaner'
  BY <1>2 DEF SpawnWorker
<1>3. ASSUME NEW c \in Calls, AddQdisc(c) PROVE NetemHasCleaner'
  BY <1>3, AgentAssumption DEF AddQdisc
<1>4. ASSUME NEW c \in Calls, DeleteQdisc(c) PROVE NetemHasCleaner'
  BY <1>4, AgentAssumption DEF DeleteQdisc
<1>5. ASSUME NEW c \in Calls, WorkerQuits(c) \/ CreateFillFile(c) \/ StopFilling(c)
      PROVE  NetemHasCleaner'
  BY <1>5 DEF WorkerQuits, CreateFillFile, StopFilling
<1>6. ASSUME NEW c \in Calls, TraineeRepairs(c) PROVE NetemHasCleaner'
  BY <1>6, AgentAssumption DEF TraineeRepairs
<1>7. CASE UNCHANGED <<req, worker, qdisc, lifted>>
  BY <1>7
<1>8. ASSUME NEW c \in Calls,
             ChangeSystem(c) \/ FailToStart(c) \/ Unregister(c) \/ ReturnStarted(c) \/ TimerStep(c)
      PROVE  NetemHasCleaner'
  BY <1>7, <1>8
  DEF ChangeSystem, FailToStart, Unregister, ReturnStarted, TimerStep, TimerExpires, TimerStops,
      TimerQuits
<1>9. ASSUME NEW i \in FaultIDs, HandleFaultStop(i) PROVE NetemHasCleaner'
  BY <1>7, <1>9 DEF HandleFaultStop
<1>10. CASE UNCHANGED vars
  BY <1>7, <1>10 DEF vars
<1> QED
  BY <1>1, <1>2, <1>3, <1>4, <1>5, <1>6, <1>8, <1>9, <1>10 DEF Next, StartStep, WorkerStep

\* A goroutine of runDiskFault ends only together with the fill file.
LEMMA FillFileStep == AgentInv /\ [Next]_vars => FillFileHasOwner'
<1> SUFFICES ASSUME AgentInv, [Next]_vars, fillFile' PROVE FillFileHasOwner'
  BY DEF FillFileHasOwner
<1> DEFINE Owns(c) == worker[c] = "running" /\ req[c].type = "disk"
<1> USE DEF AgentInv, TypeOK, Progress
<1>1. ASSUME NEW c \in Calls, CreateFillFile(c), worker'[c] = "running" PROVE FillFileHasOwner'
  BY <1>1 DEF CreateFillFile, FillFileHasOwner
<1>2. ASSUME fillFile, \A c \in Calls : Owns(c) => Owns(c)' PROVE FillFileHasOwner'
  BY <1>2 DEF FillFileHasOwner
<1>3. ASSUME NEW c \in Calls, CreateFillFile(c), worker'[c] # "running" PROVE FillFileHasOwner'
  BY <1>2, <1>3 DEF CreateFillFile
<1>4. ASSUME NEW c \in Calls, StartStep(c) PROVE FillFileHasOwner'
  <2>1. fillFile
    BY <1>4
    DEF StartStep, RegisterFault, RefuseFault, SpawnWorker, AddQdisc, ChangeSystem, FailToStart,
        Unregister, ReturnStarted
  <2>2. \A d \in Calls : Owns(d) => Owns(d)'
    BY <1>4
    DEF StartStep, RegisterFault, RefuseFault, SpawnWorker, AddQdisc, ChangeSystem, FailToStart,
        Unregister, ReturnStarted
  <2> QED
    BY <1>2, <2>1, <2>2
<1>5. ASSUME NEW c \in Calls, TimerStep(c) PROVE FillFileHasOwner'
  BY <1>2, <1>5 DEF TimerStep, TimerExpires, TimerStops, TimerQuits
<1>6. ASSUME NEW c \in Calls, WorkerQuits(c) \/ DeleteQdisc(c) \/ StopFilling(c)
      PROVE  FillFileHasOwner'
  BY <1>2, <1>6 DEF WorkerQuits, DeleteQdisc, StopFilling
<1>7. ASSUME NEW c \in Calls, TraineeRepairs(c) PROVE FillFileHasOwner'
  BY <1>2, <1>7 DEF TraineeRepairs
<1>8. ASSUME NEW i \in FaultIDs, HandleFaultStop(i) PROVE FillFileHasOwner'
  BY <1>2, <1>8 DEF HandleFaultStop
<1>9. CASE UNCHANGED vars
  BY <1>2, <1>9 DEF vars
<1> QED
  BY <1>1, <1>3, <1>4, <1>5, <1>6, <1>7, <1>8, <1>9 DEF Next, WorkerStep

-----------------------------------------------------------------------------
(***************************************************************************)
(* The theorems.                                                           *)
(***************************************************************************)

\* The inductive invariant holds in every reachable state.
THEOREM AgentInvHolds == Spec => []AgentInv
<1>1. Init => AgentInv
  <2> SUFFICES ASSUME Init PROVE AgentInv
    OBVIOUS
  <2> USE DEF Init
  <2>1. TypeOK
    BY DEF TypeOK, PCs
  <2>2. Progress /\ RegisteredIsLive /\ PendingRegistered
    BY AgentAssumption DEF Progress, RegisteredIsLive, PendingRegistered, Pending
  <2>3. NetemHasCleaner /\ FillFileHasOwner
    BY AgentAssumption DEF NetemHasCleaner, Cleaner, FillFileHasOwner
  <2> QED
    BY <2>1, <2>2, <2>3 DEF AgentInv
<1>2. AgentInv /\ [Next]_vars => AgentInv'
  <2> SUFFICES ASSUME AgentInv, [Next]_vars PROVE AgentInv'
    OBVIOUS
  <2>1. TypeOK' /\ Progress'
    BY TypeStep, ProgressStep DEF AgentInv
  <2>2. Registry' /\ NetemHasCleaner' /\ FillFileHasOwner'
    BY RegistryStep, NetemStep, FillFileStep
  <2> QED
    BY <2>1, <2>2 DEF AgentInv, Registry
<1> QED
  BY <1>1, <1>2, PTL DEF Spec

\* The registry, the goroutines and the timers keep their types.
THEOREM AgentTypeCorrect == Spec => []TypeOK
<1>1. AgentInv => TypeOK
  BY DEF AgentInv
<1> QED
  BY <1>1, AgentInvHolds, PTL

\* What activeFaults holds can still be stopped: its context is not done, or the
\* call that registered it is about to delete it.
THEOREM RegisteredStaysLive == Spec => []RegisteredIsLive
<1>1. AgentInv => RegisteredIsLive
  BY DEF AgentInv
<1> QED
  BY <1>1, AgentInvHolds, PTL

\* stopFault and the timer reach every fault that is being carried, unless a
\* startFault with its ID has failed.
THEOREM OrphansComeFromFailures == Spec => []OrphanOnlyAfterFailedStart
<1>1. AgentInv => OrphanOnlyAfterFailedStart
  BY DEF AgentInv, TypeOK, Progress, PendingRegistered, Pending, OrphanOnlyAfterFailedStart,
         Carrying
<1> QED
  BY <1>1, AgentInvHolds, PTL

\* No qdisc is left without its clean-up goroutine, and one that outlives its
\* qdisc, and so may delete that of another fault, takes a repair by the trainee.
THEOREM NetemIsCleanedUp == Spec => []NetemHasCleaner
<1>1. AgentInv => NetemHasCleaner
  BY DEF AgentInv
<1> QED
  BY <1>1, AgentInvHolds, PTL

\* A fill file always has a goroutine of runDiskFault that removes it.
THEOREM FillFileIsOwned == Spec => []FillFileHasOwner
<1>1. AgentInv => FillFileHasOwner
  BY DEF AgentInv
<1> QED
  BY <1>1, AgentInvHolds, PTL

\* A timer ends another fault than its own only if its own was stopped before or
\* a startFault with its ID has failed.
THEOREM TimersEndTheirOwn == Spec => TimerEndsOwnFault
<1> DEFINE Own == \A c, d \in Calls :
      (timer[c] = "expired" /\ timer'[c] = "done" /\ c # d /\ cancelled'[d] # cancelled[d])
        => (cancelled[c] \/ StartFailed(req[c].id))
<1>1. AgentInv /\ [Next]_vars => [Own]_vars
  <2> SUFFICES ASSUME AgentInv, Next, NEW c \in Calls, NEW d \in Calls,
                      timer[c] = "expired", timer'[c] = "done", c # d,
                      cancelled'[d] # cancelled[d], ~cancelled[c]
               PROVE  StartFailed(req[c].id)
    BY DEF vars
  <2> USE DEF AgentInv, TypeOK
  <2>1. TimerStops(c)
    BY DEF Next, StartStep, RegisterFault, RefuseFault, SpawnWorker, AddQdisc, ChangeSystem,
           FailToStart, Unregister, ReturnStarted, TimerStep, TimerExpires, TimerStops, TimerQuits,
           WorkerStep, WorkerQuits, DeleteQdisc, CreateFillFile, StopFilling, TraineeRepairs,
           HandleFaultStop
  <2>2. active[req[c].id] = d
    BY <2>1 DEF TimerStops, StopFault
  <2>3. Pending(c)
    BY DEF Progress, Pending
  <2> QED
    BY <2>2, <2>3 DEF PendingRegistered
<1> QED
  BY <1>1, AgentInvHolds, PTL DEF Spec, TimerEndsOwnFault
=============================================================================
