------------------------------- MODULE Agent --------------------------------
(***************************************************************************)
(* The fault registry of onfire-agent, which runs inside each VM           *)
(* (agent/faults.go, and the /fault/start and /fault/stop handlers of      *)
(* agent/main.go): concurrent calls of startFault and stopFault, the       *)
(* goroutines that carry a fault, and the timers that end it.              *)
(*                                                                         *)
(* A step is one critical section of activeMu, one external command        *)
(* (tc, systemctl, a file operation) or one wake-up of a goroutine.  One   *)
(* network interface, and one path for disk faults, are modelled: that is  *)
(* where two faults meet.  Loads, rates and latencies are left out.        *)
(***************************************************************************)
EXTENDS Naturals

CONSTANTS
  Calls,      \* the calls of startFault, one per POST /fault/start
  FaultIDs,   \* the fault IDs requests name
  Types,      \* the fault types requests name
  NoCall      \* stands for "no entry", a nil fault

ASSUME AgentAssumption ==
  /\ NoCall \notin Calls
  /\ Types \subseteq {"cpu", "memory", "disk", "network", "process", "dns", "unknown"}

VARIABLES
  req,         \* req[c]: the FaultRequest of call c
  pc,          \* pc[c]: how far startFault of c has come
  active,      \* activeFaults: the call whose cancel function an ID is registered with
  cancelled,   \* cancelled[c]: the context of call c is done
  worker,      \* worker[c]: the goroutine startFault of c started
  timer,       \* timer[c]: the auto-stop goroutine of c
  fillFile,    \* the fill file exists
  qdisc,       \* the call whose netem qdisc is on the interface
  lifted,      \* history: the trainee has deleted a netem qdisc
  damage       \* the calls whose stopped service or hosts line is still there

vars == <<req, pc, active, cancelled, worker, timer, fillFile, qdisc, lifted, damage>>

\* timed: params has a duration that time.ParseDuration accepts.
Requests == [id : FaultIDs, type : Types, timed : BOOLEAN]
NoRequest == [id |-> NoCall, type |-> NoCall, timed |-> FALSE]

(***************************************************************************)
(* idle        not called yet                                              *)
(* registered  the ID is in activeFaults, the fault is not dispatched yet  *)
(* refused     the ID was in activeFaults already                          *)
(* dispatched  the fault was started, the timer is not                     *)
(* failing     starting the fault failed, the ID is not deleted yet        *)
(* failed, started   startFault has returned                               *)
(***************************************************************************)
PCs == {"idle", "registered", "refused", "dispatched", "failing", "failed", "started"}

\* Types; an ID is registered with the context of a call made for it.
TypeOK ==
  /\ req \in [Calls -> Requests \cup {NoRequest}]
  /\ pc \in [Calls -> PCs]
  /\ active \in [FaultIDs -> Calls \cup {NoCall}]
  /\ cancelled \in [Calls -> BOOLEAN]
  /\ worker \in [Calls -> {"none", "spawned", "running", "ended"}]
  /\ timer \in [Calls -> {"none", "armed", "expired", "done"}]
  /\ fillFile \in BOOLEAN
  /\ qdisc \in Calls \cup {NoCall}
  /\ lifted \in BOOLEAN
  /\ damage \subseteq Calls

Init ==
  /\ req = [c \in Calls |-> NoRequest]
  /\ pc = [c \in Calls |-> "idle"]
  /\ active = [i \in FaultIDs |-> NoCall]
  /\ cancelled = [c \in Calls |-> FALSE]
  /\ worker = [c \in Calls |-> "none"]
  /\ timer = [c \in Calls |-> "none"]
  /\ fillFile = FALSE
  /\ qdisc = NoCall
  /\ lifted = FALSE
  /\ damage = {}

-----------------------------------------------------------------------------
(***************************************************************************)
(* startFault.                                                             *)
(***************************************************************************)

\* Plausible slip: an ID that is registered already is registered again.
RegisterFaultAgain(c, r) ==
  /\ pc[c] = "idle"
  /\ req' = [req EXCEPT ![c] = r]
  /\ pc' = [pc EXCEPT ![c] = "registered"]
  /\ active' = [active EXCEPT ![r.id] = c]
  /\ UNCHANGED <<cancelled, worker, timer, fillFile, qdisc, damage, lifted>>

\* First critical section of startFault, for an ID that is not registered.
RegisterFault(c, r) ==
  /\ pc[c] = "idle"
  /\ active[r.id] = NoCall
  /\ req' = [req EXCEPT ![c] = r]
  /\ pc' = [pc EXCEPT ![c] = "registered"]
  /\ active' = [active EXCEPT ![r.id] = c]
  /\ UNCHANGED <<cancelled, worker, timer, fillFile, qdisc, damage, lifted>>

\* The same critical section for an ID that is: "fault already running".
RefuseFault(c, r) ==
  /\ pc[c] = "idle"
  /\ active[r.id] # NoCall
  /\ req' = [req EXCEPT ![c] = r]
  /\ pc' = [pc EXCEPT ![c] = "refused"]
  /\ cancelled' = [cancelled EXCEPT ![c] = TRUE]
  /\ UNCHANGED <<active, worker, timer, fillFile, qdisc, damage, lifted>>

\* cpu, memory and disk faults run in a goroutine of their own and cannot fail
\* to start.
SpawnWorker(c) ==
  /\ pc[c] = "registered"
  /\ req[c].type \in {"cpu", "memory", "disk"}
  /\ worker' = [worker EXCEPT ![c] = IF req[c].type = "disk" THEN "spawned" ELSE "running"]
  /\ pc' = [pc EXCEPT ![c] = "dispatched"]
  /\ UNCHANGED <<req, active, cancelled, timer, fillFile, qdisc, damage, lifted>>

\* Plausible slip: the goroutine that deletes the qdisc is not started.
AddQdiscOnly(c) ==
  /\ pc[c] = "registered"
  /\ req[c].type = "network"
  /\ qdisc = NoCall
  /\ qdisc' = c
  /\ pc' = [pc EXCEPT ![c] = "dispatched"]
  /\ UNCHANGED <<req, active, cancelled, worker, timer, fillFile, damage, lifted>>

\* runNetworkFault: "tc qdisc add" succeeds, which it does only when no other
\* netem is at the root of the interface; then the clean-up goroutine starts.
AddQdisc(c) ==
  /\ pc[c] = "registered"
  /\ req[c].type = "network"
  /\ qdisc = NoCall
  /\ qdisc' = c
  /\ worker' = [worker EXCEPT ![c] = "running"]
  /\ pc' = [pc EXCEPT ![c] = "dispatched"]
  /\ UNCHANGED <<req, active, cancelled, timer, fillFile, damage, lifted>>

\* runProcessFault stops a service, or runDNSFault appends to the hosts file;
\* a process fault of action "restart" leaves nothing behind.
ChangeSystem(c) ==
  /\ pc[c] = "registered"
  /\ req[c].type \in {"process", "dns"}
  /\ \/ damage' = damage \cup {c}
     \/ req[c].type = "process" /\ UNCHANGED damage
  /\ pc' = [pc EXCEPT ![c] = "dispatched"]
  /\ UNCHANGED <<req, active, cancelled, worker, timer, fillFile, qdisc, lifted>>

\* The command fails, a parameter is missing or the type is unknown: the call
\* cancels its context and is about to delete its ID.
FailToStart(c) ==
  /\ pc[c] = "registered"
  /\ req[c].type \in {"network", "process", "dns", "unknown"}
  /\ cancelled' = [cancelled EXCEPT ![c] = TRUE]
  /\ pc' = [pc EXCEPT ![c] = "failing"]
  /\ UNCHANGED <<req, active, worker, timer, fillFile, qdisc, damage, lifted>>

\* Second critical section of a failing startFault: deletes the ID, whichever
\* call it is registered with by now.
Unregister(c) ==
  /\ pc[c] = "failing"
  /\ active' = [active EXCEPT ![req[c].id] = NoCall]
  /\ pc' = [pc EXCEPT ![c] = "failed"]
  /\ UNCHANGED <<req, cancelled, worker, timer, fillFile, qdisc, damage, lifted>>

\* Plausible slip: the duration is read but no timer is started.
ReturnStartedUntimed(c) ==
  /\ pc[c] = "dispatched"
  /\ pc' = [pc EXCEPT ![c] = "started"]
  /\ UNCHANGED <<req, active, cancelled, worker, timer, fillFile, qdisc, damage, lifted>>

\* The end of a successful startFault: the timer, if a duration is given.
ReturnStarted(c) ==
  /\ pc[c] = "dispatched"
  /\ timer' = [timer EXCEPT ![c] = IF req[c].timed THEN "armed" ELSE @]
  /\ pc' = [pc EXCEPT ![c] = "started"]
  /\ UNCHANGED <<req, active, cancelled, worker, fillFile, qdisc, damage, lifted>>

-----------------------------------------------------------------------------
(***************************************************************************)
(* stopFault and the timers.                                               *)
(***************************************************************************)

\* Plausible slip: the fault is cancelled and stays registered.
StopFaultKeep(i) ==
  /\ cancelled' = [c \in Calls |-> cancelled[c] \/ active[i] = c]
  /\ UNCHANGED active

\* stopFault cancels what the ID is registered with and deletes the ID.
StopFault(i) ==
  /\ cancelled' = [c \in Calls |-> cancelled[c] \/ active[i] = c]
  /\ active' = [active EXCEPT ![i] = NoCall]

\* POST /fault/stop.
HandleFaultStop(i) ==
  /\ StopFault(i)
  /\ UNCHANGED <<req, pc, worker, timer, fillFile, qdisc, damage, lifted>>

\* The select of the timer goroutine takes the time.After case.  When the
\* context is done as well it may still do so.
TimerExpires(c) ==
  /\ timer[c] = "armed"
  /\ timer' = [timer EXCEPT ![c] = "expired"]
  /\ UNCHANGED <<req, pc, active, cancelled, worker, fillFile, qdisc, damage, lifted>>

\* The timer goroutine calls stopFault with the ID of its request.
TimerStops(c) ==
  /\ timer[c] = "expired"
  /\ StopFault(req[c].id)
  /\ timer' = [timer EXCEPT ![c] = "done"]
  /\ UNCHANGED <<req, pc, worker, fillFile, qdisc, damage, lifted>>

\* The select takes the ctx.Done case.
TimerQuits(c) ==
  /\ timer[c] = "armed"
  /\ cancelled[c]
  /\ timer' = [timer EXCEPT ![c] = "done"]
  /\ UNCHANGED <<req, pc, active, cancelled, worker, fillFile, qdisc, damage, lifted>>

-----------------------------------------------------------------------------
(***************************************************************************)
(* The goroutines that carry a fault.                                      *)
(***************************************************************************)

\* runCPUFault and runMemoryFault return when the context is done.
WorkerQuits(c) ==
  /\ worker[c] = "running"
  /\ req[c].type \in {"cpu", "memory"}
  /\ cancelled[c]
  /\ worker' = [worker EXCEPT ![c] = "ended"]
  /\ UNCHANGED <<req, pc, active, cancelled, timer, fillFile, qdisc, damage, lifted>>

\* The clean-up goroutine of runNetworkFault: "tc qdisc del" takes whatever is
\* at the root of the interface.
DeleteQdisc(c) ==
  /\ worker[c] = "running"
  /\ req[c].type = "network"
  /\ cancelled[c]
  /\ worker' = [worker EXCEPT ![c] = "ended"]
  /\ qdisc' = NoCall
  /\ UNCHANGED <<req, pc, active, cancelled, timer, fillFile, damage, lifted>>

\* runDiskFault opens the fill file, before it first looks at the context.
CreateFillFile(c) ==
  /\ worker[c] = "spawned"
  /\ \/ /\ worker' = [worker EXCEPT ![c] = "running"]
        /\ fillFile' = TRUE
     \/ /\ worker' = [worker EXCEPT ![c] = "ended"]
        /\ UNCHANGED fillFile
  /\ UNCHANGED <<req, pc, active, cancelled, timer, qdisc, damage, lifted>>

\* Plausible slip: the deferred function closes the file and leaves it there.
StopFillingKeepFile(c) ==
  /\ worker[c] = "running"
  /\ req[c].type = "disk"
  /\ cancelled[c] \/ ~fillFile
  /\ worker' = [worker EXCEPT ![c] = "ended"]
  /\ UNCHANGED <<req, pc, active, cancelled, timer, fillFile, qdisc, damage, lifted>>

\* runDiskFault returns when the context is done or the file is gone; the
\* deferred function removes whatever file has the path.
StopFilling(c) ==
  /\ worker[c] = "running"
  /\ req[c].type = "disk"
  /\ cancelled[c] \/ ~fillFile
  /\ worker' = [worker EXCEPT ![c] = "ended"]
  /\ fillFile' = FALSE
  /\ UNCHANGED <<req, pc, active, cancelled, timer, qdisc, damage, lifted>>

(***************************************************************************)
(* The trainee repairs the VM: removes the fill file, deletes the qdisc,   *)
(* kills stress-ng, restarts the service or edits the hosts file.          *)
(***************************************************************************)
TraineeRepairs(c) ==
  \/ /\ fillFile /\ fillFile' = FALSE
     /\ UNCHANGED <<worker, damage, req, pc, active, cancelled, timer, qdisc, lifted>>
  \/ /\ qdisc = c /\ qdisc' = NoCall /\ lifted' = TRUE
     /\ UNCHANGED <<fillFile, worker, damage, req, pc, active, cancelled, timer>>
  \/ /\ worker[c] = "running" /\ req[c].type = "cpu"
     /\ worker' = [worker EXCEPT ![c] = "ended"]
     /\ UNCHANGED <<fillFile, damage, req, pc, active, cancelled, timer, qdisc, lifted>>
  \/ /\ c \in damage /\ damage' = damage \ {c}
     /\ UNCHANGED <<fillFile, worker, req, pc, active, cancelled, timer, qdisc, lifted>>

-----------------------------------------------------------------------------
StartStep(c) ==
  \/ SpawnWorker(c) \/ AddQdisc(c) \/ ChangeSystem(c)
  \/ FailToStart(c) \/ Unregister(c) \/ ReturnStarted(c)
  \/ \E r \in Requests : RegisterFault(c, r) \/ RefuseFault(c, r)

TimerStep(c) == TimerExpires(c) \/ TimerStops(c) \/ TimerQuits(c)

WorkerStep(c) == WorkerQuits(c) \/ DeleteQdisc(c) \/ CreateFillFile(c) \/ StopFilling(c)

Next ==
  \/ \E c \in Calls : StartStep(c) \/ TimerStep(c) \/ WorkerStep(c) \/ TraineeRepairs(c)
  \/ \E i \in FaultIDs : HandleFaultStop(i)

Spec == Init /\ [][Next]_vars

\* Goroutines run on, and time passes.  No request or repair has to happen.
Fairness ==
  \A c \in Calls : /\ WF_vars(TimerStep(c))
                   /\ WF_vars(WorkerStep(c))
                   /\ WF_vars(pc[c] # "idle" /\ StartStep(c))

FairSpec == Spec /\ Fairness

-----------------------------------------------------------------------------
(***************************************************************************)
(* Properties that hold.                                                   *)
(***************************************************************************)

\* Some startFault for ID i has failed or is failing.
StartFailed(i) == \E c \in Calls : req[c].id = i /\ pc[c] \in {"failing", "failed"}

\* A goroutine that carries a fault and was not told to end.
Carrying(c) == worker[c] \in {"spawned", "running"} /\ ~cancelled[c]

\* An ID in activeFaults belongs to a call whose context is not done, so that
\* the entry can still be stopped; a call that is failing is about to go.
RegisteredIsLive ==
  \A i \in FaultIDs : active[i] # NoCall =>
    /\ req[active[i]].id = i
    /\ cancelled[active[i]] => pc[active[i]] = "failing"

\* Every fault that is being carried is registered under its ID, so that
\* stopFault and the timer reach it, unless a startFault with this ID failed.
OrphanOnlyAfterFailedStart ==
  \A c \in Calls : Carrying(c) => \/ active[req[c].id] = c
                                  \/ StartFailed(req[c].id)

\* The clean-up goroutine of runNetworkFault for c is waiting.
Cleaner(c) == worker[c] = "running" /\ req[c].type = "network"

\* A netem qdisc on the interface has the clean-up goroutine of the call that
\* added it.  As long as the trainee has not deleted a qdisc, no other clean-up
\* goroutine is waiting, so that none deletes the qdisc of another fault; after
\* such a repair one may (faults.go:291-293 deletes whatever is there).
NetemHasCleaner ==
  \A c \in Calls : /\ qdisc = c => Cleaner(c)
                   /\ Cleaner(c) => qdisc = c \/ lifted

\* A fill file has a goroutine that will remove it.
FillFileHasOwner ==
  fillFile => \E c \in Calls : worker[c] = "running" /\ req[c].type = "disk"

\* A fault with a duration recovers by itself: its goroutine ends, unless a
\* startFault with the same ID fails.
TimedFaultRecovers ==
  \A c \in Calls :
    (req[c].timed /\ pc[c] = "started")
      ~> (worker[c] \in {"none", "ended"} \/ StartFailed(req[c].id))

\* A timer ends its own fault.  It ends a newer fault with its ID only if its
\* own fault was stopped before, while the timer was expiring, or a startFault
\* with this ID failed.
TimerEndsOwnFault ==
  [][\A c, d \in Calls :
        (timer[c] = "expired" /\ timer'[c] = "done" /\ c # d /\ cancelled'[d] # cancelled[d])
          => (cancelled[c] \/ StartFailed(req[c].id))]_vars

(***************************************************************************)
(* Statements of the documentation that the code violates.                 *)
(***************************************************************************)

\* duration: "auto-recover after this long" (scenario/types.go), of every type:
\* what a timed fault changed is undone.
AutoRecovers ==
  \A c \in Calls : (req[c].timed /\ pc[c] = "started") ~> (c \notin damage)

\* "stopFault cancels and cleans up a running fault" (agent/faults.go): after it
\* no fault with that ID is carried on.
StopEndsFault ==
  [][\A i \in FaultIDs : active[i] # NoCall /\ active'[i] = NoCall /\ pc' = pc
        => \A c \in Calls : req[c].id = i => ~Carrying(c)']_vars
=============================================================================
