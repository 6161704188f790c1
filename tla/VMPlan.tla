------------------------------- MODULE VMPlan -------------------------------
(***************************************************************************)
(* From a scenario file to the VMs of a run: Load and validate, the scale  *)
(* and disk overrides, BuildVMPlan and ResolveTargets (scenario/parser.go) *)
(* in the order in which createScenario, or the command line, calls them.  *)
(*                                                                         *)
(* A VM name, "<tier>-<number>", is the pair of both; the number holds no  *)
(* hyphen, so that the format keeps different pairs apart.  Positions in   *)
(* plan.VMs count from 1.  CPUs, memory and services are passed on as they *)
(* are and left out.  The loops, of BuildVMPlan and over the parts of the  *)
(* overrides, take a step for every round; nothing else can happen in      *)
(* between.                                                                *)
(***************************************************************************)
EXTENDS Integers, Sequences, SequencesExt, FiniteSets

CONSTANTS
  Requests,   \* what is asked for: a scenario file and overrides
  IDs         \* the VM IDs that may be free

Tiers == [name : STRING, count : Int, countMin : Int, countMax : Int, disk : Int]
\* What select says: a word and the number in parentheses after it, 0 if there is none.
Selects == STRING \X Nat

FaultTargets == [vm : {<<>>} \cup (STRING \X Nat), tier : STRING, select : Selects]

\* The window an objective gives is loaded, and nothing in the code reads it.
Checks == [type : STRING, target : FaultTargets, what : STRING, status : Int,
           condition : [op : STRING, threshold : Int], window : Nat]
ScenarioFiles == [titled : BOOLEAN, tiers : Seq(Tiers), objectives : Seq(Checks),
                  faults : SUBSET [id : BOOLEAN, target : FaultTargets]]

\* A part of the overrides: a name and the number after "=", 0 if there is none.
Parts == STRING \X Int

\* Files have the types YAML decodes them into, and IDs are numbers.  What a check
\* reads is its metric or its service, and for http the page.
ASSUME VMPlanAssumption ==
  /\ IDs \subseteq Nat
  /\ \A r \in Requests :
       /\ r.file \in ScenarioFiles /\ r.api \in BOOLEAN
       /\ r.scale \in Seq(Parts) /\ r.disk \in Seq(Parts)
       /\ \A i \in DOMAIN r.file.objectives :
            r.file.objectives[i].type = "http" => r.file.objectives[i].what = "http"

VARIABLES
  request,    \* the file and the overrides
  stage,      \* how far the request has come
  scenario,   \* the Scenario that Load returned
  scaleOverrides, diskOverrides,   \* the maps, and how many parts went into them
  vmIDs,      \* the VM IDs allocated for it
  plan,       \* the plan that is built, or was built last: at the end Runner.Plan
  at          \* the loops of BuildVMPlan: the tier and the number of its next VM

overrides == <<scaleOverrides, diskOverrides>>
planVars == <<request, stage, scenario, overrides, vmIDs, plan, at>>

\* A Go map is a function on the keys it has.
EmptyMap == [k \in {} |-> 0]
Get(map, key, default) == IF key \in DOMAIN map THEN map[key] ELSE default
Put(map, key, value) ==
  [k \in DOMAIN map \cup {key} |-> IF k = key THEN value ELSE map[k]]

Stages == {"new", "loaded", "counting", "counted", "allocated", "planning", "planned",
           "monitored", "rejected", "failed"}

NoPlan == [vms |-> <<>>, byName |-> EmptyMap, byTier |-> EmptyMap]

-----------------------------------------------------------------------------
(***************************************************************************)
(* Load.                                                                   *)
(***************************************************************************)

\* The parts validate requires: id and title, tiers, a name for every tier, an
\* id and a target for every fault.
Valid(file) ==
  /\ file.titled
  /\ file.tiers # <<>>
  /\ \A i \in DOMAIN file.tiers : file.tiers[i].name # ""
  /\ \A f \in file.faults : f.id /\ (f.target.vm # <<>> \/ f.target.tier # "")

\* The defaults validate puts in.
WithDefaults(tier) ==
  [tier EXCEPT !.count = IF @ <= 0 THEN 1 ELSE @,
               !.disk = IF @ < 0 THEN 0 ELSE @]

Load(file) ==
  [file EXCEPT !.tiers = [i \in DOMAIN @ |-> WithDefaults(@[i])]]

-----------------------------------------------------------------------------
(***************************************************************************)
(* parseScaleOverrides and parseDiskOverrides.                             *)
(***************************************************************************)

NoOverrides == [map |-> EmptyMap, parts |-> 0]

\* One round: parts that are not positive are skipped and a later part for a name
\* replaces an earlier one.
WithPart(o, parts) ==
  LET part == parts[o.parts + 1]
  IN [map |-> IF part[2] > 0 THEN Put(o.map, part[1], part[2]) ELSE o.map,
      parts |-> o.parts + 1]

ParseScaleOverrides ==
  /\ stage = "loaded" /\ scaleOverrides.parts < Len(request.scale)
  /\ scaleOverrides' = WithPart(scaleOverrides, request.scale)
  /\ UNCHANGED <<request, stage, scenario, diskOverrides, vmIDs, plan, at>>

ScaleParsed == scaleOverrides.parts = Len(request.scale)

ParseDiskOverrides ==
  /\ stage = "loaded" /\ ScaleParsed /\ diskOverrides.parts < Len(request.disk)
  /\ diskOverrides' = WithPart(diskOverrides, request.disk)
  /\ UNCHANGED <<request, stage, scenario, scaleOverrides, vmIDs, plan, at>>

Parsed == ScaleParsed /\ diskOverrides.parts = Len(request.disk)

-----------------------------------------------------------------------------
(***************************************************************************)
(* BuildVMPlan.                                                            *)
(***************************************************************************)

Scale == scaleOverrides.map
Disks == diskOverrides.map

\* Plausible slip: count_max is not looked at.
ScaleRefusedBelow(tier, scale) ==
  /\ tier.name \in DOMAIN scale
  /\ tier.countMin > 0 /\ scale[tier.name] < tier.countMin

\* A scale override outside count_min and count_max, where these are set.
ScaleRefused(tier, scale) ==
  /\ tier.name \in DOMAIN scale
  /\ \/ tier.countMin > 0 /\ scale[tier.name] < tier.countMin
     \/ tier.countMax > 0 /\ scale[tier.name] > tier.countMax

\* Plausible slip: the last allocated ID is not used.
IndexAtBelow(slot, free) == IF slot < Len(free) THEN free[slot] ELSE slot - 1

\* The VM ID for a slot: the allocated one, or else the slot's own number.
IndexAt(slot, free) == IF slot <= Len(free) THEN free[slot] ELSE slot - 1

\* Plausible slip: the name leads to the VM ID instead of the position.
AddVMByID(p, tier, j, disk, free) ==
  LET slot == Len(p.vms) + 1
      name == <<tier.name, j>>
      vm == [index |-> IndexAt(slot, free), name |-> name, tier |-> tier.name,
             disk |-> disk]
  IN [vms |-> Append(p.vms, vm),
      byName |-> Put(p.byName, name, vm.index),
      byTier |-> Put(p.byTier, tier.name, Append(Get(p.byTier, tier.name, <<>>), slot))]

\* The plan with the VM of one round of the inner loop.
AddVM(p, tier, j, disk, free) ==
  LET slot == Len(p.vms) + 1
      name == <<tier.name, j>>
      vm == [index |-> IndexAt(slot, free), name |-> name, tier |-> tier.name,
             disk |-> disk]
  IN [vms |-> Append(p.vms, vm),
      byName |-> Put(p.byName, name, slot),
      byTier |-> Put(p.byTier, tier.name, Append(Get(p.byTier, tier.name, <<>>), slot))]

FirstRound == [tier |-> 1, vm |-> 0]

\* Calling BuildVMPlan.
Build(during) ==
  /\ stage' = during
  /\ plan' = NoPlan
  /\ at' = FirstRound

Building == stage \in {"counting", "planning"}

\* What the loops do at a place.
InLoop(a) == a.tier <= Len(scenario.tiers)
Refuses(a) == ScaleRefused(scenario.tiers[a.tier], Scale)
MoreVMs(a) ==
  LET tier == scenario.tiers[a.tier] IN a.vm < Get(Scale, tier.name, tier.count)

\* A refused override is the error of BuildVMPlan: createScenario answers it, or
\* gives the IDs back if it comes from NewRunner.
RefuseScale ==
  /\ Building /\ InLoop(at) /\ Refuses(at)
  /\ stage' = IF stage = "counting" THEN "rejected" ELSE "failed"
  /\ plan' = NoPlan
  /\ vmIDs' = <<>>
  /\ UNCHANGED <<request, scenario, overrides, at>>

\* One round of the inner loop.
PlanVM ==
  /\ Building /\ InLoop(at) /\ ~Refuses(at) /\ MoreVMs(at)
  /\ LET tier == scenario.tiers[at.tier]
     IN plan' = AddVM(plan, tier, at.vm, Get(Disks, tier.name, tier.disk), vmIDs)
  /\ at' = [at EXCEPT !.vm = @ + 1]
  /\ UNCHANGED <<request, stage, scenario, overrides, vmIDs>>

NextTier ==
  /\ Building /\ InLoop(at) /\ ~Refuses(at) /\ ~MoreVMs(at)
  /\ at' = [tier |-> at.tier + 1, vm |-> 0]
  /\ UNCHANGED <<request, stage, scenario, overrides, vmIDs, plan>>

ReturnPlan ==
  /\ Building /\ ~InLoop(at)
  /\ stage' = IF stage = "counting" THEN "counted" ELSE "planned"
  /\ UNCHANGED <<request, scenario, overrides, vmIDs, plan, at>>

BuildVMPlan == RefuseScale \/ PlanVM \/ NextTier \/ ReturnPlan

-----------------------------------------------------------------------------
(***************************************************************************)
(* ResolveTargets.                                                         *)
(***************************************************************************)

\* random, random(1) and primary pick the first VM of the tier, everything else
\* all of them.
Selected(target, indices) ==
  IF target.select \in {<<"random", 0>>, <<"random", 1>>, <<"primary", 0>>}
  THEN <<indices[1]>> ELSE indices

\* No target, an unknown VM or an unknown tier is an error.
Unresolved(target, p) ==
  \/ target.vm # <<>> /\ target.vm \notin DOMAIN p.byName
  \/ target.vm = <<>> /\ target.tier \notin DOMAIN p.byTier

\* The positions in plan.VMs of the VMs a fault or a check is for.
ResolveTargets(target, p) ==
  IF target.vm # <<>> THEN <<p.byName[target.vm]>>
                      ELSE Selected(target, p.byTier[target.tier])

-----------------------------------------------------------------------------
(***************************************************************************)
(* The request's way.                                                      *)
(***************************************************************************)

\* The lists allocateVMIDs may return: n different free IDs, in ascending order.
Allocations(n) ==
  {ids \in [1..n -> IDs] : \A i, j \in 1..n : i < j => ids[i] < ids[j]}

PlanInit ==
  /\ request \in Requests
  /\ stage = "new"
  /\ scenario = [tiers |-> <<>>]
  /\ scaleOverrides = NoOverrides /\ diskOverrides = NoOverrides
  /\ vmIDs = <<>>
  /\ plan = NoPlan
  /\ at = FirstRound

\* scenario.Load, whose error ends the request.
LoadScenario ==
  /\ stage = "new"
  /\ IF Valid(request.file)
     THEN stage' = "loaded" /\ scenario' = Load(request.file)
     ELSE stage' = "rejected" /\ UNCHANGED scenario
  /\ UNCHANGED <<request, overrides, vmIDs, plan, at>>

\* createScenario builds a first plan, without IDs, to count the VMs.
CountVMs ==
  /\ stage = "loaded" /\ Parsed /\ request.api
  /\ Build("counting")
  /\ UNCHANGED <<request, scenario, overrides, vmIDs>>

AllocateVMIDs ==
  /\ stage = "counted"
  /\ vmIDs' \in Allocations(Len(plan.vms))
  /\ stage' = "allocated"
  /\ UNCHANGED <<request, scenario, overrides, plan, at>>

\* NewRunner, called by createScenario with the allocated IDs and by the command
\* line without any, builds the runner's plan.
NewRunner ==
  /\ \/ stage = "allocated"
     \/ stage = "loaded" /\ Parsed /\ ~request.api
  /\ Build("planning")
  /\ UNCHANGED <<request, scenario, overrides, vmIDs>>

PlanNext ==
  \/ LoadScenario
  \/ ParseScaleOverrides \/ ParseDiskOverrides
  \/ CountVMs \/ AllocateVMIDs
  \/ NewRunner
  \/ BuildVMPlan

-----------------------------------------------------------------------------
(***************************************************************************)
(* Properties.                                                             *)
(***************************************************************************)

Targets == {f.target : f \in scenario.faults}
             \cup {scenario.objectives[i].target : i \in DOMAIN scenario.objectives}

\* The positions of the VMs a target speaks of, said without the maps: the VM of
\* that name (of two tiers with one name, the last VM has it), or the whole tier.
Candidates(target) ==
  LET named == {i \in DOMAIN plan.vms : plan.vms[i].name = target.vm}
  IN IF target.vm # <<>> THEN {i \in named : \A j \in named : j <= i}
     ELSE {i \in DOMAIN plan.vms : plan.vms[i].tier = target.tier}

\* A target that asks for several VMs of a tier at random.
ManyAtRandom(target) ==
  target.vm = <<>> /\ target.select[1] = "random" /\ target.select[2] > 1

\* The sets of VMs a target may mean, as the comments of FaultTarget say it: a VM, a
\* tier, its primary, or any N of its VMs, all of them if it has fewer.
Meant(target) ==
  LET S == Candidates(target)
      few == IF Cardinality(S) < target.select[2] THEN Cardinality(S) ELSE target.select[2]
  IN IF target.vm # <<>> THEN {S}
     ELSE IF target.select = <<"primary", 0>> THEN {{i \in S : \A j \in S : i <= j}}
     ELSE IF target.select \in {<<"random", 0>>, <<"random", 1>>} THEN {{i} : i \in S}
     ELSE IF ManyAtRandom(target) THEN {T \in SUBSET S : Cardinality(T) = few}
     ELSE {S}

\* The runner of a scenario created through the API launches its VMs under the
\* IDs that were allocated for it, each of them once and no other: BuildVMPlan
\* counts with no IDs and then plans with them, and the two builds agree.  An ID
\* left over, or a slot that falls back to its own number, would be a VM of
\* another fleet.
PlanUsesAllocatedIDs ==
  /\ stage = "planned" /\ request.api =>
       /\ Len(plan.vms) = Len(vmIDs)
       /\ {plan.vms[i].index : i \in DOMAIN plan.vms} = Range(vmIDs)
  /\ request.api => stage # "failed"
  /\ stage = "planned" =>
       \A i, j \in DOMAIN plan.vms : plan.vms[i].index = plan.vms[j].index => i = j

\* ResolveTargets leads every target of the file to VMs it may mean, as positions
\* that Plan.VMs has, whatever the allocated IDs are, and fails iff it speaks of no
\* VM: no fault or check goes to a VM the target does not speak of and indices[0]
\* is never out of range.  Of random(N) with N > 1 this says less: the VMs found
\* hold N of the tier, or all if it has fewer, but they are more than N wherever
\* the tier is larger, for the code does not read N and takes the whole tier.
TargetsResolveToMeant ==
  stage = "planned" =>
    \A t \in Targets :
      IF Candidates(t) = {} THEN Unresolved(t, plan)
      ELSE LET found == Range(ResolveTargets(t, plan))
           IN /\ ~Unresolved(t, plan)
              /\ ResolveTargets(t, plan) \in Seq(DOMAIN plan.vms)
              /\ found \subseteq Candidates(t)
              /\ IF ManyAtRandom(t) THEN \E S \in Meant(t) : S \subseteq found
                                    ELSE found \in Meant(t)

\* The parts of the overrides that count for a name, and the number they ask for:
\* that of the last one.
Given(parts, name) == {i \in DOMAIN parts : parts[i][1] = name /\ parts[i][2] > 0}
Asked(parts, name, default) ==
  IF Given(parts, name) = {} THEN default ELSE parts[Max(Given(parts, name))][2]

\* The VMs, and the disk, that the request asks for in tier i: what its overrides
\* say, or else its file, but at least one VM and no negative disk.
AskedVMs(i) ==
  LET tier == request.file.tiers[i]
  IN Asked(request.scale, tier.name, IF tier.count > 0 THEN tier.count ELSE 1)
AskedDisk(i) ==
  LET tier == request.file.tiers[i]
  IN Asked(request.disk, tier.name, IF tier.disk > 0 THEN tier.disk ELSE 0)

\* The tiers that ask for a VM of this name.
Asking(name) ==
  {i \in DOMAIN request.file.tiers :
     request.file.tiers[i].name = name[1] /\ name[2] \in 0..(AskedVMs(i) - 1)}

\* The VMs are those the request asks for, whatever parts its overrides have and in
\* which order: for every VM of every tier there is one, more only where tiers of
\* one name ask for it again, and none besides; each has the disk asked for.  No
\* override outside count_min and count_max is planned.
OverridesHonoured ==
  stage = "planned" =>
    /\ \A i \in DOMAIN request.file.tiers :
         LET tier == request.file.tiers[i]
         IN /\ \A j \in 0..(AskedVMs(i) - 1) :
                 Cardinality({k \in DOMAIN plan.vms : plan.vms[k].name = <<tier.name, j>>})
                   = Cardinality(Asking(<<tier.name, j>>))
            /\ Given(request.scale, tier.name) # {} =>
                 /\ tier.countMin > 0 => AskedVMs(i) >= tier.countMin
                 /\ tier.countMax > 0 => AskedVMs(i) <= tier.countMax
    /\ \A k \in DOMAIN plan.vms :
         /\ plan.vms[k].tier = plan.vms[k].name[1]
         /\ \E i \in Asking(plan.vms[k].name) : plan.vms[k].disk = AskedDisk(i)
=============================================================================
