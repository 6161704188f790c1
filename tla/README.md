# A TLA+ model of onfire

onfire starts fleets of Firecracker microVMs, breaks them on a schedule and
watches whether a trainee repairs them. This directory models the parts of it
that hold state and run concurrently, checks them with TLC on small instances,
and proves the most important results with TLAPS for instances of any size.
Line numbers in this text and in `PROJECT.json` refer to the repository's
sources.

## 1. The system

| Component | State | Operations | Talks to |
|---|---|---|---|
| API server (`api/server.go`, `api/fleet.go`, `api/scenario.go`) | `usedVMIDs`, the maps of fleets and scenarios with their status, VM IDs and cancel function, all under one mutex | create, list, get, DELETE of fleets and scenarios, hints; one background goroutine per fleet and per scenario | starts VM launches and scenario runs, cancels their context |
| VM launch (`api/fleet.go`, `cmd/fleet.go`, `scenario/runner.go`, `vm/*.go`) | host resources named after the VM ID: `tapN`, `vm-N-rootfs.ext4`, `cloud-init-N.iso`, `/tmp/firecracker-N.sock` | EnsureTAP, EnsureCloudInitISO, PrepareRootFS, New, Start, Wait, and the deferred Stop, Remove, RemoveTAP | Firecracker, `ip`, `debugfs`, the ISO script |
| Scenario runner (`scenario/runner.go`) | the run's context and the child context of its VMs, two WaitGroups, the channels `fleetErrs` and `done`, score and hints | Run with a goroutine per VM, per provisioning, per fault and one that polls objectives | VM launch; SSH into the VMs; the agent over HTTP |
| Fault agent (`agent/`, inside each VM) | `activeFaults`, the contexts of the faults, what faults change in the VM | startFault, stopFault, timers, six fault implementations | `tc`, `systemctl`, the file system |
| Score and hints (`scenario/types.go`, `scenario/runner.go`, `api/scenario.go`) | kept twice: in the Runner under its mutex, in the entry under the server's | RequestHintText, CurrentScore, the hint and status handlers, the end of the run | runner and server |
| Scenario files (`scenario/parser.go`, `scenario/types.go`) | the plan, with maps from names and tiers to positions | Load and validate, overrides, BuildVMPlan, ResolveTargets | createScenario, the command line, the runner |
| Objectives and agent metrics (`scenario/runner.go`, `agent/metrics.go`) | none but the poll under way | checkAllObjectives, checkObjective, evalCondition; collectMetrics, listServices | pages and agents of the VMs over HTTP |
| Web terminal (`web/index.html`, `cmd/serve.go`, `cmd/server.go`) | the page's `vmTerminals`, WebSockets and timers; one SSH session per WebSocket | syncVMs every five seconds, connect with retries, wsHandler | the API's lists; the VMs over SSH |
| Command line, `onfirec`, image scripts | none of their own | | |

What is hard to get right, and hard to test, is in `"hazards"` of
`PROJECT.json`, line by line. In short: the server frees VM IDs on several paths
that race; everything on the host is named by ID alone, so that a mistake with
IDs makes VMs share devices and files; a run has four kinds of goroutines that
end for different reasons; the agent looks faults up by ID after it has given up
the lock; score and hints go from one lock to another in three steps; and the
page acts on answers and timers that are older than what it acts on.

The properties that make each component correct:

* server: no ID leaks, no two live owners of an ID, IDs are filled from below,
  a final status stays final, what is deleted winds down;
* launch: a VM runs on its own device, rootfs, ISO and socket whatever happened
  to that ID before; what a failed launch leaves behind is known; a cancelled
  launch ends;
* run: it returns when aborted or solved, and with all its VMs gone; no sender
  blocks; "solved" means solved; faults wait for provisioning and reach every
  target, and none comes later than the run;
* agent: what is registered can be stopped, what runs is registered, what a
  fault changed in the VM is undone by the fault that changed it;
* score: every hint is given once and charged once, also when the run ends in
  between; the score of a run only falls;
* plan: the VMs run under the IDs that were allocated, overrides are honoured
  within their limits, a target leads to VMs it means;
* objectives: the run is solved if its VMs are repaired, and not before each of
  them was seen as asked;
* web terminal: the terminals follow the list of VMs, each keeps one connection
  or the prospect of one, sessions come about and handlers end.

## 2. The modules

| Module | Models | Proofs |
|---|---|---|
| `Server` | the ID table, fleets and scenarios of package api | `ServerProofs` |
| `VMLaunch` | the three pieces of code that launch a VM, over the host's resources | `VMLaunchProofs` |
| `ScenarioRun` | `Runner.Run` and all its goroutines | `ScenarioRunProofs` |
| `Agent` | `startFault`, `stopFault`, timers and fault goroutines | `AgentProofs` |
| `Scoring` | score and hints, between the Runner and the API's entry | `ScoringProofs` |
| `VMPlan` | from a scenario file and overrides to the VMs of a run | `VMPlanProofs`, `ObjectivesProofs` |
| `Objectives` | extends `VMPlan` by the polling of the objectives and what agents report | `ObjectivesProofs` |
| `WebTerminal` | the page and the WebSocket handler | `WebTerminalProofs` |
| `IDLease` | abstract: what the ID table promises its users | refinement in `ServerProofs` |
| `LongCall` | abstract: a call that blocks until it ends or is cancelled | refinements in `ScenarioRunProofs`, `VMLaunchProofs` |

The MC modules give constants their values for TLC; `WebTerminal` needs none.

Two abstract specifications stand between the modules:

* **IDLease** is what `Server` promises the launches of the API (`ImplementsLease`,
  proved): an ID belongs to one live holder until a fleet that had it is deleted,
  after which nothing is promised (the ID is *tainted*). So launches of the API
  overlap on an ID only after such a DELETE. `VMLaunch` takes nothing from it: it
  lets any launches share an ID, as `cmd/fleet.go` and `scenario run` take the IDs
  0..n-1 without asking the table, and says in `contended` which of them did.
* **LongCall** stands between the API server and `launchFleet` and `Run`, and again
  between these two and the launch of one VM: a call that may return for any
  reason, blames a cancellation only if there was one, and returns once it is
  cancelled. `ScenarioRun` and `VMLaunch` implement it (`ImplementsCall`; all but its
  liveness is proved). `Server` takes
  it for granted: `CancelledReturns` is the fairness it asks of `LaunchFleetReturns` and
  `RunReturns`, and the guard of `RunReturns` the rule about blame.

`Objectives` is composed with `VMPlan` by extending it: the plan that is polled is
the one BuildVMPlan made. `StartMonitoring`, `Tick` and `CheckTarget` of `Objectives`
are `StartMonitoring`, `PollTick` and `CheckObjective` of `ScenarioRun`, where the
outcome of a check is open. `SendFault` of `ScenarioRun` is `RegisterFault` or
`RefuseFault` of `Agent`. `Finish` and `Delete` of `Scoring` are `FinishScenario` and
`DeleteScenario` of `Server`.

The unit of atomicity is the code's: a critical section of a mutex, one external
command or system call sequence, one wake-up of a goroutine. The map in
`PROJECT.json` gives the lines of every definition.

### Server

`usedIDs`, `ids[o]`, `status[o]`, `cancelled[o]` are the fields of the same name;
an owner `o` is a fleet or a scenario and stands for its UUID. `pc[o]` says how
far the handler and the background goroutine have come, `result[s]` why
`Runner.Run` returned. `createFleet` is one critical section and one action;
`createScenario` takes the lock twice, so it is `AllocateScenario` and
`RegisterScenario`. The goroutine of a fleet is `MarkFleetRunning`,
`LaunchFleetReturns`, `FinishFleet`. `AllocateVMIDs` is defined by what the scan
of `allocateVMIDs` returns: the `count` lowest free numbers. `RejectScenario` is the error
path after the allocation (`api/scenario.go:150`), which gives the IDs back. List and
get handlers only read; hints and scores are in `Scoring`.

### VMLaunch

`First` and `Follow` hold the order of the steps in the three launchers, which
differ: `cmd/fleet.go` copies the rootfs before it makes the TAP device and never
removes the device, Run makes all ISOs first and does not remove the device
either, `api/fleet.go` does both. Each step may fail; `Fail` starts the deferred
calls, which run in reverse order as actions of their own, so that another
goroutine can get in between. Host resources hold the launch that made them,
which is what the properties compare. `contended` is a history variable: the
launches that overlapped with another one of their ID. A launch may be cancelled
before it begins.

The ISO a VM boots from depends on the path of the base ISO: `ForVM` derives
`-N.iso` only from a path that ends in `.iso` (`vm/config.go:105`), and leaves another
one as it is, so that all VMs boot the base (`baseISO`); `Run` cuts off four
characters whatever they are (`scenario/runner.go:82`) and makes an ISO nobody boots
from. `base` is `"none"`, `"iso"` or `"other"`. (A path shorter than four characters is a
slice out of range there, a panic that is not modelled.)

External behaviour assumed: `EnsureTAP` that fails may leave the device, a copy
that fails may leave a partial file, the VMM needs its device and files to
start, the ISO script writes its output or fails.

### ScenarioRun

`phase` is the place of the main goroutine; `vm`, `prov`, `fault`, `poll` are the
other goroutines. `errs` is the length of `fleetErrs`, from which nobody receives.
Time is not measured: a sleep, ticker or timer may end at any moment, and where
a `select` has two ready cases either is taken. `MaxDials` stands for the 15
connection attempts. `Targets` is what ResolveTargets returns. Score and hints are
in `Scoring`, the outcome of checks in `Objectives`; the web terminal goroutine
touches nothing of the run. `stopFault` of the Runner is stored in a map nobody
reads, and is not modelled.

### Agent

`active` is `activeFaults`; `active[i] = c` says that ID `i` is registered with the
cancel function of call `c`. `fillFile`, `qdisc` and `damage` are what faults leave
in the VM: the fill file at the one modelled path, the netem qdisc of the one
modelled interface, stopped services and hosts lines. `filesystem` is the same
code as `disk`. The trainee, who is not in the repository, may remove the fill
file, delete the qdisc, kill stress-ng, restart a service or edit the hosts file at
any moment; `lifted` is the history of the second. Rates are abstracted and taken to be
positive: a memory fault with rate 0 divides by zero and ends the agent
(`agent/faults.go:167`), which is not modelled.
External behaviour assumed: `tc qdisc add` fails if a netem qdisc is at the root
already, and `tc qdisc del` takes whichever is there.

### Scoring

`hintsUsed` and `score` are the Runner's fields, `entry` the three fields of the
ScenarioEntry. A hint request finds its entry (`Arrive`), draws a hint
(`RequestHintText`), computes the score in CurrentScore and stores it (`StoreHint`);
anything may happen between two of them. `Runner.mu` keeps two calls of CurrentScore
apart, but not `Run`, which starts the clock and prints the result without the lock.
So CurrentScore is three steps: it reads the clock (`ReadClock`), stores the elapsed
time (`StoreElapsed`) and computes the score (`ComputeScore`); and the start of the clock
is three: `startAt` is being stored (`StartClock`), is stored (`StoreStart`), `Elapsed` is
reset (`ClockStarted`). While `startAt` is being stored a reader may see words of two
times, which `Since` models by the outcomes this can have; before that it is the zero
time, `time.Since` of which is the longest duration. `score.sound` is a history field:
the elapsed time was measured from the `startAt` that is set. The penalty is a fraction,
its product cut off towards zero as `int()` does. `printResult` holds no lock and reads
the record in two steps (`PrintElapsed`, `PrintScore`). The status handlers encode the
entry after the unlock (`AnswerStatus`), the list handler without a refresh. A request
that finds no hints left is charged all the same, so the number of hints in the file
makes no difference and is left out.

### VMPlan and Objectives

A scenario file is a record with tiers, faults and objectives; a VM name is the
pair of tier and number, a part of an override the pair of a name and a number.
`Load` and `ResolveTargets` are operators. The two override parsers take a step for
every part, `BuildVMPlan` one for every round of its two loops, whose counters are `at`;
nothing can come between these steps, and they make what holds of the loops a
matter of behaviours, about which one can prove. The other actions are the order
in which `createScenario` calls them (a plan without IDs to count the VMs, the
allocation, the plan with IDs) and the shorter one of the command line. The
properties state what the results should be without the maps: `Candidates` looks for
names and tiers in `plan.VMs` itself, `Meant` gives the sets of them that a target may
mean as the comments of `FaultTarget` say it (`scenario/types.go:81`), any N of a tier for
`random(N)`, and `OverridesHonoured` compares the plan with
what the request asks for: the number in the last positive part for a name, or else
in the file. It does so name by name, since two tiers may have one name: a plan has
as many VMs of a name as there are tiers that ask for it.

In `Objectives` a VM has the things its objectives read: the status of its page,
whether the agent answers, metrics below, at or above their threshold or not
readable, services. `Change` lets faults, provisioning and the trainee set any of
them at any time, between two checks of one poll too. `met` is a history variable:
the objectives and VMs that were as asked (`Met`, which gives `file-exists` its documented
meaning) at the moment the poll looked at them, and those the code does not see and
takes for so (`Unseen`). The `window` of an objective is loaded and read nowhere.

### WebTerminal

The page is one thread, so the parts of `syncVMs` between its awaits and the socket
events are the actions. Two calls of it may overlap. `terminal[v]` is `t.ws` of the
VM's entry, `socket[s]` what the browser has of a socket: it is `closing` between
`ws.close()` and its event, and `retries` from the event until the timer fires.
`handler[s]` is the goroutine of wsHandler at the other end. The lists, the
reachability of the server and the SSH servers of the VMs are the world; they
change at most `MaxEvents` times. `ServesAPI` is FALSE for the server of
StartWebTerminal. Not in the model: what is typed and shown. (One thing met there:
a line typed by the user that happens to be a JSON object, or `null`, is taken for
a control message and does not reach the shell, `cmd/serve.go:226`.) `/ws` checks
only that the ID is not negative, though a comment says it is "validated against
live fleet state" (`cmd/server.go:48`); the page asks for IDs of the list only.

## 3. The runs

Passing runs:

* **server** (two fleets, one scenario, zero to two VMs each, 184,000 states).
  `TypeOK`, `NoIDLeak`, `CleanIDsHeld`, `LowestIDsFirst`, `AbortedIsFinal`,
  `StoppedWindsDown`, and the refinement `ImplementsLease`. Three owners are enough for the longest story
  the code allows: one is deleted, one takes its IDs, one takes them again after
  the second release. Counts up to 3 were checked too and give 653,000 states; the
  safety part is proved for all counts.
* **agent** (two calls, two IDs, all types, 180,000 states).
  `RegisteredIsLive`, `OrphanOnlyAfterFailedStart`, `NetemHasCleaner`,
  `FillFileHasOwner`, `TimerEndsOwnFault`, `TimedFaultRecovers`. Two calls meet on one ID, or on two IDs over one interface
  and one file. The safety part is proved for any number of calls.
* **launch** (two launches of one ID, all three launchers, 1.1 million states).
  `OwnResources`, `LeftBehind`, `ScenarioBootsOwnISO`, `ImplementsCall`. One ID is enough:
  every name on the host but that of a base ISO contains the ID, and no step of a
  launch touches another one. Two launches follow each other or overlap, and fail
  anywhere. All kinds of base ISO are there for the API and for scenarios; the
  command line, which treats it as the API does, has one that ends in `.iso`.
* **scenario_run** (two VMs, a fault on both, a fault on one, a fault with a trigger
  and one with a bad time, two objectives, two dials, 152,000 states).
  `ReturnedMeansDrained`, `RoomForErrors`, `FaultsAfterProvisioning`, `ImplementsCall`, `SolvedEndsRun`, `FaultReachesTargets`. Two of
  each kind of goroutine make every pair of them meet.
* **scoring** (three requests of any kind, a clock of two ticks, 3.5 million states).
  `HintsInOrder`, `HintsAccounted`, `ChargesOwnHint`, `ScoreOnlyFalls`,
  `FinalScoreStands`. Base 10, 3 points a hint and 3/2 a tick: the
  product is cut off at the first tick and two hints more reach the floor. Three
  requests are one more than two that race, so that one can read in between.
  Requests are interchangeable, and none of the properties speaks of the future, so
  their symmetry is used.
* **plan** (14 files, 6 scale overrides, both callers, IDs from {1, 3, 4, 6}, 29,000
  states). `PlanUsesAllocatedIDs`, `TargetsResolveToMeant`,
  `OverridesHonoured`, `SolvedMeansMet`, `RepairedIsSolved`. The files take every way
  through validate, every kind of target and check, a target nobody has, a service
  that is not listed, a condition that is none, two tiers of one name, and a tier of
  four VMs of which two or three are asked for at random; an ID is never the
  position its VM has in the code.
* **terminal** (one VM, two socket numbers, two overlapping syncs, two dials, three
  events, 226,000 states). `TerminalIsAttached`, `OneSocketPerTerminal`,
  `ListConverges`, `HandlerEnds`, `TerminalConnects`. VMs of the page share nothing but
  the list, so one is enough; a second socket number is what an old socket and a
  new one need. Three events let a VM go and come back while something else fails.

`TypeOK` of the other modules gives the types of the variables; it is proved and not
repeated in these runs. `CleanIDsExclusive` follows from
`ImplementsLease` and is proved.

`CHECK_DEADLOCK FALSE` in the launch, run, scoring and plan configurations: when every
launch has ended, Run has returned and its faults are sent, all requests are
answered, or the scenario is rejected or solved, nothing is left to do.

Each of these runs stops at the shortest counterexample to a sentence of the
documentation, a comment or a test:

* **server_shared_ids** `GloballyUniqueIDs`: DELETE releases a fleet's IDs; another
  fleet gets them; the first fleet's goroutine ends and releases them again
  (`api/fleet.go:136`); a third owner gets IDs that are in use.
* **agent_no_recovery** `AutoRecovers`: a process or dns fault with a duration is
  never undone; the timer only cancels a context nobody listens to.
* **agent_orphan** `StopEndsFault`: a start fails, is stopped, a new start takes the
  ID, and the failing one deletes it (`agent/faults.go:71`). The new fault is out
  of reach.
* **run_late_fault** `NoFaultAfterReturn`: a fault scheduled for later than the
  solution is posted to an address the server may have given away.
* **terminal_standalone** `RunningVMIsShown`: the page of `scenario run` and `serve`
  asks for VMs at paths its server does not have (`cmd/serve.go:69`), and shows none.

What the models show besides, and the conditions in the properties leave room for:

* DELETE before a fleet's goroutine first takes the lock: the status goes back to
  `running` (`api/fleet.go:127`); `StoppedWindsDown` still holds.
* The clean-up of a deleted fleet removes the TAP device of the VM that was given
  the ID (`api/fleet.go:207`): the launches in `contended` are left out of
  `OwnResources` for this.
* With a base ISO whose path does not end in `.iso` every VM of a scenario boots the
  base, with one hostname; `ScenarioBootsOwnISO` speaks of paths that do.
* A fleet VM may boot from the ISO, with the hostname, of an earlier scenario VM
  (`vm/cloudinit.go:17`): `ScenarioBootsOwnISO` speaks of scenario VMs only.
* A scenario whose ISO could not be made is reported `complete`
  (`api/scenario.go:190`), DELETE turns `complete` into `aborted` (`api/scenario.go:265`),
  faults with triggers never fire (`scenario/runner.go:185`), a fault that ended by
  itself stays "already running" (`agent/faults.go:41`).
* A stopped network fault deletes whatever netem qdisc is at the root. As `tc` refuses a
  second one, it is its own, unless the trainee has deleted one: then the old
  goroutine may take the qdisc of a newer fault (`agent/faults.go:293`).
  `NetemHasCleaner` says that every qdisc has its goroutine in any case, and that no
  other one waits before such a repair.
* A timer calls stopFault with an ID (`agent/faults.go:83`), which may be that of a
  newer fault if its own was stopped; `TimerEndsOwnFault` excepts this.
* An aborted run does not copy `hintsUsed` into its score (`scenario/runner.go:238`), so
  the printed score lacks hints whose request had not reached CurrentScore yet:
  `FinalScoreStands` speaks of solved runs. Scores are 0 until the VMs are
  provisioned, and undefined in the moment `startAt` is set: `ChargesOwnHint` leaves
  out the times ahead this may give. An elapsed time that CurrentScore measured before
  the start and stores after it leaves the score at 0 until the next update;
  `ScoreOnlyFalls` compares sound times only.
* The entry lags behind the Runner: the list shows 0 until the first status or hint
  request, and a hint request that is slow to store its score puts an older, higher
  one over a newer one, which the status handlers may show. `FinalScoreStands` speaks
  of the scores CurrentScore computes, not of what the entry holds.
* `cpu_pct` is reported as 0, and unreadable metrics are (`agent/metrics.go:104`), so
  that "cpu_pct < 80" is met whatever happens, though the README lists it as
  available (`README.md:228`); `SolvedMeansMet` leaves them out (`Unseen`). A service that is not one of
  the twelve candidates is never seen to run; `RepairedIsSolved` leaves it out.
* A `file-exists` objective passes unseen (`scenario/runner.go:406`), against
  `scenario/types.go:141`, and a window, "must pass for this long"
  (`scenario/types.go:152`), is ignored: `SolvedMeansMet` excepts the one and speaks of
  the moment of the check. The objectives need not have been met at one moment.
* `random(N)` with N > 1 takes the whole tier (`scenario/parser.go:147`), against
  `scenario/types.go:85`: `TargetsResolveToMeant` says of it that the VMs are of the tier
  and hold N of it, not that they are no more.
* A terminal that is removed and added again within five seconds gets a second
  socket from the timer of the first (`web/index.html:303`); `OneSocketPerTerminal`
  leaves out `readded`. A session whose shell has ended stays open and `silent`.

Every property of a passing run has a mutant in `PROJECT.json`: a definition next to
the one it mutates, with a comment that names the slip, under which TLC finds
the property violated.

### Fairness

Liveness is checked under `FairSpec` of each module (in `Objectives` and
`WebTerminal` `Spec` itself is fair), which asks for weak fairness
of what Go's scheduler and the passing of time guarantee: a goroutine that is
not blocked runs on, an external command ends, a timer expires. A VM has to end
only when its context is done, for then `Machine.Wait` returns. No request, no
cancellation, no repair by the trainee and no objective has to happen. In
`ScenarioRun` the polling goroutine has no fairness, as it may wait on a service
the trainee has yet to repair, and the claims about the end of a run do not need
it. One assumption is about the network: an SSH command to a VM that has died
ends (keepalive or a reset).

What has no timeout is not assumed to end; where a property needs it, it is a
premise of the property, by name. `http.Post` of a fault has none
(`scenario/runner.go:316`): `FaultReachesTargets` speaks of a fault whose posts end
(`PostsEnd`), whatever becomes of the other faults. `http.Get` of a check has none
(`scenario/runner.go:368`): a page that accepts the connection and says nothing holds up
the poll, and `RepairedIsSolved` has the premise `ChecksEnd`. In wsHandler the `Timeout` of
`ssh.ClientConfig` covers the TCP connect only; the SSH handshake, the set-up of the
session and writes to the shell have none (`cmd/serve.go:155`), so that `HandlerEnds` and
`TerminalConnects` have the premise `SSHCallsEnd`.

In `WebTerminal` the interval timer, fetches, socket events and retry timers are
weakly fair: the browser runs them. wsHandler is not. Neither the loss of a VM between
the dial and the shell nor the end of a shell has to happen. A handler that hangs keeps
its socket number in the model, and a browser never runs out of sockets, hence
`NumbersSuffice` in `ListConverges`. Outages and changes of the lists are events the
properties bound by `<>[]`: they say what comes after the last of them. `Scoring`
states no liveness.

## 4. The proofs

TLAPS checks every leaf. Constants are arbitrary, within the named assumptions of
the modules:

* `ServerAssumption`: fleets and scenarios are disjoint sets, counts natural numbers;
* `AgentAssumption`: `NoCall` is no call, types are those the agent knows or "unknown";
* `ScenarioRunAssumption`: a finite, non-empty set of VMs (`EveryTierIsPlanned` proves
  it of BuildVMPlan), targets among them, at least one connection attempt;
* `ScoringAssumption`: prices and times are natural numbers, the penalty has a
  denominator, the longest duration is longer than the clock runs;
* `VMLaunchAssumption`: `NoVM` is no launch, configurations have their fields;
* `VMPlanAssumption`: scenario files have the types of `scenario/types.go`, parts of
  overrides are a name and a number, IDs are natural numbers;
* `ConstantsOK` of `WebTerminal`: finitely many VMs and sockets, so that a list that is
  not longer than the unused sockets can be given one socket for each VM.

**ServerProofs.** `TypeCorrect`; `IDsNeverLeak`, `CleanIDsStayHeld`,
`CleanIDsUnshared`; `LowestIDsAreTaken`; `AbortIsFinal`. An ID is *clean* if no fleet
that held it was deleted. None of `NoIDLeak`, `CleanIDsHeld`, `CleanIDsExclusive` is
inductive: an end of an owner releases its IDs, which leaves the clean IDs of
others marked only if they are not the same IDs (exclusive), and an allocation
keeps IDs exclusive only if the clean ones of others are marked (held). So they
are proved together with `TypeOK` and `Fresh` (an owner that is not registered has
not been deleted), as `IDInv`. The steps fall into three kinds with a lemma each:
`Allocation`, `Deletion` and a release at the end of an owner. What the theorems
leave open is exactly what **server_shared_ids** shows. `LowestIDsAreTaken` rests
on the finiteness of `usedIDs` and on cardinalities: of two sets of free IDs one
below the other, the scan returns the lower.

`ServerImplementsLease` proves the refinement of `IDLease`. The lease's `tainted` is
what deleted fleets hold, and an ID outside it is a clean one; so `IDInv` says of
every live entry that the untainted IDs it holds are marked, and what
`AllocateVMIDs` hands out is not: the two meet in tainted IDs only (`GrantStep`).
The other steps that map to steps are the end of an entry (`CloseStep`) and DELETE
of a fleet (`TaintStep`); creation without VMs, status changes and returns map to
stuttering or to a grant of nothing (`LeaseStep` goes through all actions).

**AgentProofs.** `AgentTypeCorrect`, `RegisteredStaysLive`,
`OrphansComeFromFailures`, `NetemIsCleanedUp`, `FillFileIsOwned`,
`TimersEndTheirOwn`. That a goroutine is registered is decided before it is
started, so the invariant `AgentInv` speaks of a call from its registration on
(`PendingRegistered`: it is registered under its ID unless it was stopped or a
start with that ID failed), together with what existing goroutines, timers and
registrations say about their call's progress (`Progress`). `FailedStays` is the
monotonicity this needs. `NetemHasCleaner` is inductive with `Progress` because `tc`
refuses a second netem and a cleaner's qdisc goes before it only if it is `lifted`; `FillFileHasOwner` because a disk goroutine removes the
file in the step in which it ends.

**ScenarioRunProofs.** `TypeCorrect`, `ReturnsDrained`, `ErrorsNeverBlock`,
`FaultsWait`, `RunImplementsCall`. `RoomForErrors` says that a goroutine finds room in
a channel from which nobody receives; the reason is a count, so `RunInv` has
`ErrorsCounted`: there are at most as many errors as goroutines that are gone, and
while one is not gone that is less than the capacity (`Room`). `FaultsAfterProvisioning`
needs what each phase has started and waited for (`NotStarted`, `FaultsLater`), the
bound on dials `DialsLeft`. The refinement of `LongCall` adds `AbortedMeansDone`: Run
says "aborted" only after it has seen its context done.

That a cancelled or solved run ends is liveness, but what it rests on is safety, and
proved. `RunNeverStuck`: unless Run has returned or waits for the trainee, one of the
goroutines it depends on is ready (`MainReady`, `VMReady`, `ProvisionReady`, which are the
guards of the steps under weak fairness; TLC confirmed on the run's instance that they
are equivalent to `ENABLED`). It needs `Started`: the goroutines the main one waits for were
started, and while it drains they were told to stop. `RunGoesForward`: no step sets a
goroutine back and each of these steps moves one on, so with n VMs there are at most
6 + n * (6 + MaxDials) of them. From the two and `Fairness` it follows that a run ends
or comes to wait for the trainee, for any number of VMs; this last step, which the
prover cannot take, is by hand.

**ScoringProofs.** `TypeCorrect`, `HintsGivenInOrder`, `CountersAgree`,
`OwnHintCharged`, `ScoreFallsWhileMonitored`, `PrintedScoreStands`. The first three go
by counting: drawing a hint adds one request to those that have one and one to
`hintsUsed`, storing it moves the request from `Pending` to the entry's counter
(`Counted`, `Numbered`). The others compare scores computed at different times. `Current`
falls with the elapsed time and with the hints (`ScoreOrder`, `PenaltyOrder`; the cut-off
of the product changes direction at zero, which is a case of its own). `Clocked` says
what the lock makes true of the three steps of CurrentScore: one request is in them
at a time (`Exclusive`), what it has read is not ahead of the clock (`Measured`) nor behind
the record (`Ordered`), and once the run is over all times are measured from the
start (`Sounded`). Prices are any natural numbers, and any fraction.

**VMLaunchProofs.** `TypeCorrect`, `RunsOnOwnResources`, `BootsOwnISO`,
`NothingElseLeft`, `LaunchImplementsCall`, `LaunchGoesForward`. Two arguments.
`Accounted`: whatever is on the host was made by a launch that has deferred its
removal, or by one whose failure or whose code leaves it; contended launches are
no exception, since removing what another one made only helps. `Exclusive` and `Own`:
a launch that is not contended is the only live one of its ID, so what it has made
by the step it is at (`TapReady`, `RootFSReady`, `FreshISO`) is still its own. `OnCourse`
ties the step to the launcher and to what is deferred. `LaunchGoesForward` counts the
steps a launch has before it (`StepsLeft`, at most eleven once it has begun): each of its
steps brings it nearer to its end, on the error paths too, and no other launch sets it
back, which is the safety half of "a cancelled launch ends".

**VMPlanProofs** and **ObjectivesProofs.** `TypeCorrect`, `AllocatedIDsAreUsed`,
`OverridesAreHonoured`, `EveryTierIsPlanned`, `TargetsAreMeant`, `SolvedIsMet`, for any
files, overrides and free IDs. The first module has the lemmas about the plan, the
second puts them together with the poll into `ObjectivesInv` and has the theorems.

* *Targets.* `NameMap` and `TierMap` hold after every round of `BuildVMPlan`
  (`AddVMKeeps`), and on such a plan `ResolveTargets` returns the candidates, or the first
  of them (`ResolvesToCandidates`): one of the sets of `Meant`, or for `random(N)` one
  that holds such a set, which takes that a finite set has a subset of every smaller
  size (`ResolvesToMeant`, `SubsetOfSize`).
* *IDs.* That the plan has as many VMs as IDs is about two builds: `Agreeing` keeps,
  from the first one, its *way* through the loops (the place and the number of VMs
  before each round), and says that the second one is somewhere on the same way; so it
  neither refuses what the first accepted nor ends elsewhere (`SameRound`).
* *Overrides.* `Reads` says of a map that it has exactly the last positive number of
  each name among the parts read so far; a part more keeps it (`PartRead`), and when all
  are read the map gives what is asked for (`AskedIs`, `GetsAsked`). For the plan one would
  count the VMs of the tiers before the current one, which is a sum and needs
  induction over the tiers. `Tallied` counts per name instead: the VMs of a name are
  as many as the tiers whose round for that name is over (`Rounds`), which a round
  changes by one element on both sides (`TallyGrows`) and going to the next tier not at
  all (`TallyNext`). When the loops have ended, these are the tiers that ask for the
  name. `EveryTierIsPlanned` follows, as a tier asks for at least one VM.
* *Objectives.* `Polled` says of a poll that every objective before the current one,
  and every target of it that is not left, was met when it was looked at (`Seen`). A
  change of a VM leaves that as it is. A check that passes has seen what is asked, or
  is `Unseen` (`PassesMet`).

**WebTerminalProofs.** `TypeCorrect`, `TerminalsAttached`, `NoSecondSocket`.
`OneSocketPerTerminal` is not inductive: a timer opens a socket for the entry it finds,
so `Owned` has to say of every socket in use, the ones that are closed and wait for
their timer included, whether the entry of its VM is its own. Most of the work is
`Apply`, which opens sockets for all new VMs at once (`OpenedSockets`, by cardinality).

Obligations: 521 in `ServerProofs`, 378 in `AgentProofs`, 362 in `ScenarioRunProofs`,
944 in `ScoringProofs`, 689 in `VMLaunchProofs`, 1547 in `VMPlanProofs`, 578 in
`ObjectivesProofs`, 513 in `WebTerminalProofs`.

Only model-checked is liveness, as the prover has neither fairness nor `ENABLED`:
`StoppedWindsDown`, `TimedFaultRecovers`, `SolvedEndsRun`, `FaultReachesTargets`,
`RepairedIsSolved`, `ListConverges`, `HandlerEnds`, `TerminalConnects`, and of
`ImplementsCall` the part that a cancelled call returns. Every invariant and every
action property of the passing runs is proved.

## 5. Not modelled

Left out for good: `onfirec`, a client without state that formats what the API
returns; flag parsing and signal handling of the command line; the image scripts;
YAML and JSON decoding; log and output formats, the MOTD; the bytes of the web
terminal, its tabs and status line; vendored code. `ForVM`'s addresses are not
computed: above ID 254 they are invalid and nothing in the code checks it
(`api/server.go:63`); that IDs are filled from below and do not leak says that this
takes 255 VMs at a time.

Left open is a module composing `Server`, `VMLaunch` and the fault goroutines of
`ScenarioRun` in one state: late faults on reused IDs. What happens to such a fault is
shown by **run_late_fault**.
