------------------------------ MODULE VMLaunch ------------------------------
(***************************************************************************)
(* One goroutine per VM: the life of a microVM from EnsureTAP to the       *)
(* deferred clean-up, and the resources of the host it works on, which are *)
(* named after the VM ID alone: the device tapN, the files                 *)
(* vm-N-rootfs.ext4 and cloud-init-N.iso and the API socket                *)
(* /tmp/firecracker-N.sock (vm/*.go).  Three pieces of code launch VMs:    *)
(*                                                                         *)
(*   api       launchFleet of api/fleet.go                                 *)
(*   scenario  the VM goroutines of Runner.Run, scenario/runner.go         *)
(*   cli       launchFleet of cmd/fleet.go                                 *)
(*                                                                         *)
(* They order the steps differently and defer different clean-up.  A step  *)
(* is one external command sequence of package vm; it may fail.  The IDs   *)
(* come from the API server's table or, in package cmd, are 0..n-1: nothing*)
(* is assumed about who else is given one.                                 *)
(*                                                                         *)
(* cloud-init-N.iso is the name ForVM derives from a base path that ends   *)
(* in .iso; from another one it derives nothing, and all VMs have the base *)
(* itself.  Runner.Run cuts off four characters whatever they are.         *)
(***************************************************************************)
CONSTANTS
  Launches,   \* the VM goroutines
  VMIDs,      \* the VM IDs they are given
  Configs,    \* what they are given: an ID, the code that launches, the base ISO
  NoVM        \* "no file", "no device"

Kinds == {"api", "scenario", "cli"}

\* The base ISO that is configured: none, one with a path that ends in .iso, or
\* one with another path.
Bases == {"none", "iso", "other"}

ASSUME VMLaunchAssumption ==
  /\ NoVM \notin Launches
  /\ Configs \subseteq [id : VMIDs, kind : Kinds, base : Bases]

VARIABLES
  launch,      \* launch[v]: the ID, the code and the options of v
  pc,          \* pc[v]: the step v executes next
  failedAt,    \* failedAt[v]: the step whose error ended v
  cancelled,   \* cancelled[v]: the context of v is done
  deferred,    \* deferred[v]: the clean-up v has deferred and not run yet
  tap,         \* tap[i]: the launch that created the TAP device of ID i
  rootfs,      \* rootfs[i]: the launch that wrote the rootfs copy of ID i
  iso,         \* iso[i]: the launch whose hostname is in the ISO of ID i
  baseISO,     \* the launch that made the file at the other base path, or "given"
  socket,      \* socket[i]: the launch whose VMM listens on the socket of ID i
  bootISO,     \* bootISO[v]: the ISO v booted from, by the launch that made it
  contended    \* the launches that met another live launch of their ID

host == <<tap, rootfs, iso, baseISO, socket>>
vars == <<launch, pc, failedAt, cancelled, deferred, tap, rootfs, iso, baseISO, socket, bootISO,
          contended>>

NoConfig == [id |-> NoVM, kind |-> NoVM, base |-> "none"]

\* The order of the steps in each of the three pieces of code.
First == [api |-> "tap", scenario |-> "fresh", cli |-> "rootfs"]
Follow ==
  [api      |-> [tap |-> "iso", iso |-> "rootfs", rootfs |-> "create", create |-> "start"],
   scenario |-> [fresh |-> "tap", tap |-> "rootfs", rootfs |-> "create", create |-> "start"],
   cli      |-> [rootfs |-> "tap", tap |-> "iso", iso |-> "create", create |-> "start"]]

Steps == {"tap", "fresh", "iso", "rootfs", "create", "start"}
PCs == Steps \cup {"idle", "makeISO", "up", "unwind", "ended"}

Maybe(S) == S \cup {NoVM}

\* Types; a launch that has ended has run all the clean-up it deferred.
TypeOK ==
  /\ launch \in [Launches -> Configs \cup {NoConfig}]
  /\ pc \in [Launches -> PCs]
  /\ failedAt \in [Launches -> Steps \cup {"none", "makeISO"}]
  /\ cancelled \in [Launches -> BOOLEAN]
  /\ deferred \in [Launches -> SUBSET {"stop", "rootfs", "tap"}]
  /\ \A v \in Launches : pc[v] \in {"idle", "ended"} => deferred[v] = {}
  /\ tap \in [VMIDs -> Maybe(Launches)]
  /\ rootfs \in [VMIDs -> Maybe(Launches)]
  /\ iso \in [VMIDs -> Maybe(Launches)]
  /\ socket \in [VMIDs -> Maybe(Launches)]
  /\ baseISO \in Maybe(Launches) \cup {"given"}
  /\ bootISO \in [Launches -> Maybe(Launches) \cup {"given"}]
  /\ contended \subseteq Launches

Init ==
  /\ launch = [v \in Launches |-> NoConfig]
  /\ pc = [v \in Launches |-> "idle"]
  /\ failedAt = [v \in Launches |-> "none"]
  /\ cancelled = [v \in Launches |-> FALSE]
  /\ deferred = [v \in Launches |-> {}]
  /\ tap = [i \in VMIDs |-> NoVM]
  /\ rootfs = [i \in VMIDs |-> NoVM]
  /\ iso = [i \in VMIDs |-> NoVM]
  /\ baseISO \in {NoVM, "given"}
  /\ socket = [i \in VMIDs |-> NoVM]
  /\ bootISO = [v \in Launches |-> NoVM]
  /\ contended = {}

Live(v) == pc[v] \notin {"idle", "ended"}
LiveOn(i) == {v \in Launches : Live(v) /\ launch[v].id = i}

-----------------------------------------------------------------------------
\* A goroutine is started for an ID.
Begin(v, cfg) ==
  LET others == LiveOn(cfg.id) IN
  /\ pc[v] = "idle"
  /\ launch' = [launch EXCEPT ![v] = cfg]
  /\ pc' = [pc EXCEPT ![v] = First[cfg.kind]]
  /\ contended' = contended \cup (IF others = {} THEN {} ELSE others \cup {v})
  /\ UNCHANGED <<failedAt, cancelled, deferred, bootISO, host>>

\* The context is cancelled, maybe before the goroutine is scheduled: DELETE,
\* the end of the scenario, or Ctrl-C.
Cancel(v) ==
  /\ pc[v] # "ended" /\ ~cancelled[v]
  /\ cancelled' = [cancelled EXCEPT ![v] = TRUE]
  /\ UNCHANGED <<launch, pc, failedAt, deferred, bootISO, contended, host>>

Proceed(v) ==
  /\ pc' = [pc EXCEPT ![v] = Follow[launch[v].kind][@]]
  /\ UNCHANGED failedAt

\* An error return: the deferred calls run.
Fail(v) ==
  /\ failedAt' = [failedAt EXCEPT ![v] = pc[v]]
  /\ pc' = [pc EXCEPT ![v] = "unwind"]

-----------------------------------------------------------------------------
(***************************************************************************)
(* The steps of a launch.                                                  *)
(***************************************************************************)

\* Plausible slip: an ISO that exists is taken to be the right one.
GenerateISOUnlessThere(v) ==
  /\ pc[v] = "fresh"
  /\ \/ launch[v].base = "none" /\ Proceed(v) /\ UNCHANGED iso
     \/ /\ launch[v].base # "none" /\ Proceed(v)
        /\ iso' = [iso EXCEPT ![launch[v].id] = IF @ = NoVM THEN v ELSE @]
     \/ launch[v].base # "none" /\ Fail(v) /\ UNCHANGED iso
  /\ UNCHANGED <<launch, cancelled, deferred, bootISO, contended, tap, rootfs, baseISO, socket>>

\* Runner.Run makes the ISO of every VM anew, if a base ISO is configured, at
\* the path without its last four characters; on an error it returns before any
\* VM goroutine is started.
GenerateISO(v) ==
  /\ pc[v] = "fresh"
  /\ \/ launch[v].base = "none" /\ Proceed(v) /\ UNCHANGED iso
     \/ launch[v].base # "none" /\ Proceed(v) /\ iso' = [iso EXCEPT ![launch[v].id] = v]
     \/ launch[v].base # "none" /\ Fail(v) /\ UNCHANGED iso
  /\ UNCHANGED <<launch, cancelled, deferred, bootISO, contended, tap, rootfs, baseISO, socket>>

\* Plausible slip: a device left behind is used as it is.
SetupTAPReuse(v) ==
  LET i == launch[v].id IN
  /\ pc[v] = "tap"
  /\ Proceed(v)
  /\ tap' = [tap EXCEPT ![i] = IF @ = NoVM THEN v ELSE @]
  /\ deferred' = [deferred EXCEPT ![v] = IF launch[v].kind = "api" THEN @ \cup {"tap"} ELSE @]
  /\ UNCHANGED <<launch, cancelled, bootISO, contended, rootfs, iso, baseISO, socket>>

\* Plausible slip: launchFleet does not defer RemoveTAP.
SetupTAPNoDefer(v) ==
  /\ pc[v] = "tap"
  /\ Proceed(v)
  /\ tap' = [tap EXCEPT ![launch[v].id] = v]
  /\ UNCHANGED <<launch, cancelled, deferred, bootISO, contended, rootfs, iso, baseISO, socket>>

\* EnsureTAP removes the device and makes it anew.  When it fails the device
\* may be there all the same.  Only launchFleet of package api defers
\* RemoveTAP, and only after EnsureTAP has succeeded.
SetupTAP(v) ==
  LET i == launch[v].id IN
  /\ pc[v] = "tap"
  /\ \/ /\ Proceed(v)
        /\ tap' = [tap EXCEPT ![i] = v]
        /\ deferred' = [deferred EXCEPT ![v] = IF launch[v].kind = "api" THEN @ \cup {"tap"} ELSE @]
     \/ /\ Fail(v)
        /\ \E t \in {v, NoVM} : tap' = [tap EXCEPT ![i] = t]
        /\ UNCHANGED deferred
  /\ UNCHANGED <<launch, cancelled, bootISO, contended, rootfs, iso, baseISO, socket>>

\* The file at the path ForVM gives the VM.
ISOFile(v) == IF launch[v].base = "iso" THEN iso[launch[v].id] ELSE baseISO

\* EnsureCloudInitISO, called if a base ISO is configured, keeps an ISO that
\* exists.
StatISO(v) ==
  /\ pc[v] = "iso"
  /\ \/ launch[v].base = "none" /\ Proceed(v)
     \/ launch[v].base # "none" /\ ISOFile(v) # NoVM /\ Proceed(v)
     \/ /\ launch[v].base # "none" /\ ISOFile(v) = NoVM
        /\ pc' = [pc EXCEPT ![v] = "makeISO"]
        /\ UNCHANGED failedAt
  /\ UNCHANGED <<launch, cancelled, deferred, bootISO, contended, host>>

\* make-cloud-init-iso.sh, run by EnsureCloudInitISO, writes the ISO.
MakeISO(v) ==
  /\ pc[v] = "makeISO"
  /\ \/ /\ pc' = [pc EXCEPT ![v] = Follow[launch[v].kind].iso]
        /\ \/ /\ launch[v].base = "iso"
              /\ iso' = [iso EXCEPT ![launch[v].id] = v] /\ UNCHANGED baseISO
           \/ launch[v].base = "other" /\ baseISO' = v /\ UNCHANGED iso
        /\ UNCHANGED failedAt
     \/ Fail(v) /\ UNCHANGED <<iso, baseISO>>
  /\ UNCHANGED <<launch, cancelled, deferred, bootISO, contended, tap, rootfs, socket>>

\* PrepareRootFS copies the base image over the file and patches it.  A copy
\* that fails may leave a partial file; every later failure removes the file.
PrepareRootFS(v) ==
  LET i == launch[v].id IN
  /\ pc[v] = "rootfs"
  /\ \/ /\ Proceed(v)
        /\ rootfs' = [rootfs EXCEPT ![i] = v]
        /\ deferred' = [deferred EXCEPT ![v] = @ \cup {"rootfs"}]
     \/ /\ Fail(v)
        /\ \E f \in {rootfs[i], v, NoVM} : rootfs' = [rootfs EXCEPT ![i] = f]
        /\ UNCHANGED deferred
  /\ UNCHANGED <<launch, cancelled, bootISO, contended, tap, iso, baseISO, socket>>

\* vm.New checks the configuration, removes the socket and creates the machine.
CreateMachine(v) ==
  LET i == launch[v].id IN
  /\ pc[v] = "create"
  /\ \/ /\ Proceed(v)
        /\ socket' = [socket EXCEPT ![i] = NoVM]
        /\ deferred' = [deferred EXCEPT ![v] = @ \cup {"stop"}]
     \/ /\ Fail(v)
        /\ \E s \in {socket[i], NoVM} : socket' = [socket EXCEPT ![i] = s]
        /\ UNCHANGED deferred
  /\ UNCHANGED <<launch, cancelled, bootISO, contended, tap, rootfs, iso, baseISO>>

\* Machine.Start: the VMM listens on the socket and opens the device and the
\* files, which must be there.
StartMachine(v) ==
  LET i == launch[v].id IN
  /\ pc[v] = "start"
  /\ \/ /\ tap[i] # NoVM /\ rootfs[i] # NoVM
        /\ launch[v].base # "none" => ISOFile(v) # NoVM
        /\ pc' = [pc EXCEPT ![v] = "up"]
        /\ socket' = [socket EXCEPT ![i] = v]
        /\ bootISO' = [bootISO EXCEPT ![v] = IF launch[v].base = "none" THEN NoVM ELSE ISOFile(v)]
        /\ UNCHANGED failedAt
     \/ /\ Fail(v)
        /\ \E s \in {socket[i], v} : socket' = [socket EXCEPT ![i] = s]
        /\ UNCHANGED bootISO
  /\ UNCHANGED <<launch, cancelled, deferred, contended, tap, rootfs, iso, baseISO>>

\* Plausible slip: Wait does not return when the context is done.
WaitReturnsOnExit(v) ==
  /\ pc[v] = "up"
  /\ ~cancelled[v]
  /\ pc' = [pc EXCEPT ![v] = "unwind"]
  /\ UNCHANGED <<launch, failedAt, cancelled, deferred, bootISO, contended, host>>

\* Machine.Wait returns: the context is done or the VMM has exited.
WaitReturns(v) ==
  /\ pc[v] = "up"
  /\ pc' = [pc EXCEPT ![v] = "unwind"]
  /\ UNCHANGED <<launch, failedAt, cancelled, deferred, bootISO, contended, host>>

-----------------------------------------------------------------------------
(***************************************************************************)
(* The deferred calls, in the reverse order of their registration.         *)
(***************************************************************************)

\* Machine.Stop stops the VMM and removes the socket.
StopMachine(v) ==
  /\ pc[v] = "unwind" /\ "stop" \in deferred[v]
  /\ socket' = [socket EXCEPT ![launch[v].id] = NoVM]
  /\ deferred' = [deferred EXCEPT ![v] = @ \ {"stop"}]
  /\ UNCHANGED <<launch, pc, failedAt, cancelled, bootISO, contended, tap, rootfs, iso, baseISO>>

\* os.Remove of the rootfs copy.
RemoveRootFS(v) ==
  /\ pc[v] = "unwind" /\ "rootfs" \in deferred[v] /\ "stop" \notin deferred[v]
  /\ rootfs' = [rootfs EXCEPT ![launch[v].id] = NoVM]
  /\ deferred' = [deferred EXCEPT ![v] = @ \ {"rootfs"}]
  /\ UNCHANGED <<launch, pc, failedAt, cancelled, bootISO, contended, tap, iso, baseISO, socket>>

\* RemoveTAP.
RemoveTAP(v) ==
  /\ pc[v] = "unwind" /\ deferred[v] = {"tap"}
  /\ tap' = [tap EXCEPT ![launch[v].id] = NoVM]
  /\ deferred' = [deferred EXCEPT ![v] = {}]
  /\ UNCHANGED <<launch, pc, failedAt, cancelled, bootISO, contended, rootfs, iso, baseISO, socket>>

\* wg.Done.
Finish(v) ==
  /\ pc[v] = "unwind" /\ deferred[v] = {}
  /\ pc' = [pc EXCEPT ![v] = "ended"]
  /\ UNCHANGED <<launch, failedAt, cancelled, deferred, bootISO, contended, host>>

-----------------------------------------------------------------------------
SetupStep(v) ==
  \/ GenerateISO(v) \/ SetupTAP(v) \/ StatISO(v) \/ MakeISO(v)
  \/ PrepareRootFS(v) \/ CreateMachine(v) \/ StartMachine(v)

CleanupStep(v) == StopMachine(v) \/ RemoveRootFS(v) \/ RemoveTAP(v) \/ Finish(v)

Next ==
  \E v \in Launches :
    \/ Cancel(v) \/ WaitReturns(v) \/ SetupStep(v) \/ CleanupStep(v)
    \/ \E cfg \in Configs : Begin(v, cfg)

Spec == Init /\ [][Next]_vars

\* The commands terminate, and a cancelled context ends Machine.Wait.  Nothing
\* else makes a VM exit.
Fairness ==
  \A v \in Launches : /\ WF_vars(SetupStep(v))
                      /\ WF_vars(CleanupStep(v))
                      /\ WF_vars(cancelled[v] /\ WaitReturns(v))

FairSpec == Spec /\ Fairness

-----------------------------------------------------------------------------
(***************************************************************************)
(* Properties that hold.                                                   *)
(***************************************************************************)

\* A VM that has met no other launch of its ID runs on the device, the rootfs
\* and the socket it made itself, whatever launches of this ID came before it
\* and wherever they failed.
OwnResources ==
  \A v \in Launches : pc[v] = "up" /\ v \notin contended =>
    LET i == launch[v].id IN tap[i] = v /\ rootfs[i] = v /\ socket[i] = v

\* What is left on the host when no launch of an ID is live: never a socket, a
\* rootfs only if copying it failed, and a TAP device only if setting it up
\* failed or the scenario runner or the command line made it.
LeftBehind ==
  \A i \in VMIDs : LiveOn(i) = {} =>
    /\ socket[i] = NoVM
    /\ rootfs[i] # NoVM => failedAt[rootfs[i]] = "rootfs"
    /\ tap[i] # NoVM => \/ failedAt[tap[i]] = "tap"
                        \/ launch[tap[i]].kind \in {"scenario", "cli"}

\* A VM of a scenario that has met no other launch of its ID boots from the ISO
\* Runner.Run made for it, whatever ISO was there before, if the path of the base
\* ISO ends in .iso: for another one nobody boots from the ISO Run makes.
ScenarioBootsOwnISO ==
  \A v \in Launches :
    pc[v] = "up" /\ launch[v].kind = "scenario" /\ launch[v].base = "iso" /\ v \notin contended
      => bootISO[v] = v

Call == INSTANCE LongCall WITH
  Calls <- Launches,
  at <- [v \in Launches |-> IF Live(v) THEN "running"
                            ELSE IF pc[v] = "ended" THEN "returned" ELSE "idle"],
  blamed <- [v \in Launches |-> FALSE]

\* A launch is the call launchFleet and Runner.Run take it for: cancelled
\* wherever it is, it ends, so that those two, which wait for all of theirs,
\* return.
ImplementsCall == Call!CallSpec /\ Call!CancelledReturns
=============================================================================
