---------------------------- MODULE VMPlanProofs ----------------------------
(***************************************************************************)
(* Proofs about VMPlan for any scenario files and overrides and any free   *)
(* IDs; ObjectivesProofs puts them together with the poll.                 *)
(*                                                                         *)
(* The maps of a plan are right after every round of BuildVMPlan, so that  *)
(* ResolveTargets needs no more than the plan.  That a plan has as many    *)
(* VMs as IDs were allocated is a fact about two builds, the second of     *)
(* which does at every place what the first did there: the invariant keeps *)
(* the places the first one came through and the VMs it had planned there. *)
(***************************************************************************)
EXTENDS VMPlan, FiniteSetTheorems, TLAPS

-----------------------------------------------------------------------------
(***************************************************************************)
(* The plan.                                                               *)
(***************************************************************************)

DiskSizes == {Get(Disks, scenario.tiers[i].name, scenario.tiers[i].disk)
                : i \in DOMAIN scenario.tiers}
VMEntries == [index : Nat, name : STRING \X Nat, tier : STRING, disk : DiskSizes]

\* ByName leads to the last VM of a name.
NameMap(p) ==
  /\ \A k \in 1..Len(p.vms) : p.vms[k].name \in DOMAIN p.byName
  /\ \A n \in DOMAIN p.byName :
       /\ p.byName[n] \in 1..Len(p.vms) /\ p.vms[p.byName[n]].name = n
       /\ \A k \in 1..Len(p.vms) : p.vms[k].name = n => k <= p.byName[n]

\* A list of positions is that of the VMs of a tier, in ascending order.
Lists(ps, t, vms) ==
  /\ ps \in Seq(1..Len(vms)) /\ ps # <<>>
  /\ \A i \in 1..Len(ps) : vms[ps[i]].tier = t
  /\ \A i, j \in 1..Len(ps) : i < j => ps[i] < ps[j]
  /\ \A k \in 1..Len(vms) : vms[k].tier = t => \E i \in 1..Len(ps) : ps[i] = k

\* ByTier leads to all VMs of a tier.
TierMap(p) ==
  /\ \A k \in 1..Len(p.vms) : p.vms[k].tier \in DOMAIN p.byTier
  /\ \A t \in DOMAIN p.byTier : Lists(p.byTier[t], t, p.vms)

Places == [tier : Nat \ {0}, vm : Nat]

\* The request's state has its types.
PlanTyped ==
  /\ request \in Requests /\ stage \in Stages
  /\ stage \notin {"new", "rejected"} => Valid(request.file) /\ scenario = Load(request.file)
  /\ scenario \in {[tiers |-> <<>>], Load(request.file)}
  /\ plan.vms \in Seq(VMEntries)
  /\ stage \in {"new", "loaded"} => plan = NoPlan
  /\ at \in Places
  /\ vmIDs \in Seq(IDs)
  /\ \A i, j \in 1..Len(vmIDs) : i < j => vmIDs[i] < vmIDs[j]
  /\ request.api \/ vmIDs = <<>>
  /\ stage \in {"new", "loaded", "counting", "counted"} => vmIDs = <<>>

\* The plan is one that BuildVMPlan makes with these IDs.
Mapped ==
  /\ NameMap(plan) /\ TierMap(plan)
  /\ stage \in {"counting", "planning", "planned", "monitored"} =>
       \A k \in 1..Len(plan.vms) : plan.vms[k].index = IndexAt(k, vmIDs)

\* A way of n rounds through the loops: the place and the number of VMs before
\* each of them.
Way(n, T, c) ==
  /\ n \in Nat /\ T \in [0..n -> Places] /\ c \in [0..n -> Nat]
  /\ T[0] = FirstRound /\ c[0] = 0
  /\ \A k \in 0..(n - 1) :
       /\ InLoop(T[k]) /\ ~Refuses(T[k])
       /\ MoreVMs(T[k]) => /\ T[k + 1] = [tier |-> T[k].tier, vm |-> T[k].vm + 1]
                           /\ c[k + 1] = c[k] + 1
       /\ ~MoreVMs(T[k]) => /\ T[k + 1] = [tier |-> T[k].tier + 1, vm |-> 0]
                            /\ c[k + 1] = c[k]

\* The builds of createScenario: the second goes the way of the first.
WayOfCount == \E n, T, c : Way(n, T, c) /\ at = T[n] /\ Len(plan.vms) = c[n]
Counted(count) == \E n, T, c : Way(n, T, c) /\ ~InLoop(T[n]) /\ count = c[n]
WayAgain ==
  \E n, T, c, k : /\ Way(n, T, c) /\ ~InLoop(T[n]) /\ Len(vmIDs) = c[n]
                  /\ k \in 0..n /\ at = T[k] /\ Len(plan.vms) = c[k]
Agreeing ==
  /\ stage = "counting" => WayOfCount
  /\ stage = "counted" => Counted(Len(plan.vms))
  /\ stage = "allocated" => Counted(Len(vmIDs))
  /\ stage \in {"counting", "counted", "allocated"} => request.api
  /\ stage = "planning" /\ request.api => WayAgain
  /\ stage \in {"planned", "monitored"} /\ request.api => Len(plan.vms) = Len(vmIDs)
  /\ stage = "failed" => ~request.api

PlanInv == PlanTyped /\ Mapped /\ Agreeing

-----------------------------------------------------------------------------
(***************************************************************************)
(* One round of BuildVMPlan.                                               *)
(***************************************************************************)

\* What a sequence holds after an element was appended.
LEMMA Appended ==
  ASSUME NEW S, NEW s \in Seq(S), NEW e \in S
  PROVE  /\ Append(s, e) \in Seq(S) /\ Len(Append(s, e)) = Len(s) + 1
         /\ \A i \in 1..Len(s) : Append(s, e)[i] = s[i]
         /\ Append(s, e)[Len(s) + 1] = e
         /\ Len(s) \in Nat
OBVIOUS

\* A longer list of VMs keeps the positions of a tier that did not get the new one.
LEMMA ListsKept ==
  ASSUME NEW S, NEW vms \in Seq(S), NEW e \in S, NEW t, NEW ps, Lists(ps, t, vms), e.tier # t
  PROVE  Lists(ps, t, Append(vms, e))
<1> DEFINE more == Append(vms, e)
<1>1. /\ Len(more) = Len(vms) + 1 /\ Len(vms) \in Nat /\ more[Len(vms) + 1] = e
      /\ \A i \in 1..Len(vms) : more[i] = vms[i]
  BY Appended
<1> HIDE DEF more
<1>2. ps \in Seq(1..Len(more)) /\ \A i \in 1..Len(ps) : ps[i] \in 1..Len(vms)
  BY <1>1 DEF Lists
<1>3. \A k \in 1..Len(more) : more[k].tier = t => k \in 1..Len(vms) /\ vms[k].tier = t
  BY <1>1
<1>4. \A i \in 1..Len(ps) : more[ps[i]].tier = t
  BY <1>1, <1>2 DEF Lists
<1>5. Lists(ps, t, more)
  BY <1>2, <1>3, <1>4 DEF Lists
<1> QED
  BY <1>5 DEF more

\* The tier that got the new VM has its position at the end of its list.
LEMMA ListsGrown ==
  ASSUME NEW S, NEW vms \in Seq(S), NEW e \in S, NEW t, e.tier = t, NEW ps,
         \/ Lists(ps, t, vms)
         \/ ps = <<>> /\ \A k \in 1..Len(vms) : vms[k].tier # t
  PROVE  Lists(Append(ps, Len(vms) + 1), t, Append(vms, e))
<1> DEFINE more == Append(vms, e)
           n == Len(vms) + 1
           qs == Append(ps, n)
<1>1. /\ Len(more) = n /\ Len(vms) \in Nat /\ n \in Nat /\ more[n] = e
      /\ \A i \in 1..Len(vms) : more[i] = vms[i]
  BY Appended
<1>2. ps \in Seq(1..Len(vms)) /\ \A i \in 1..Len(ps) : ps[i] \in 1..Len(vms)
  <2>1. CASE Lists(ps, t, vms)
    BY <2>1 DEF Lists
  <2>2. CASE ps = <<>>
    BY <2>2
  <2> QED
    BY <2>1, <2>2
<1>3. ps \in Seq(1..n) /\ n \in 1..n
  BY <1>1, <1>2
<1>4. /\ qs \in Seq(1..n) /\ Len(qs) = Len(ps) + 1 /\ Len(ps) \in Nat
      /\ \A i \in 1..Len(ps) : qs[i] = ps[i]
      /\ qs[Len(ps) + 1] = n
  BY <1>3, Appended
<1>5. /\ \A i \in 1..Len(ps) : vms[ps[i]].tier = t
      /\ \A i, j \in 1..Len(ps) : i < j => ps[i] < ps[j]
      /\ \A k \in 1..Len(vms) : vms[k].tier = t => \E i \in 1..Len(ps) : ps[i] = k
  <2>1. CASE Lists(ps, t, vms)
    BY <2>1 DEF Lists
  <2>2. CASE ps = <<>> /\ \A k \in 1..Len(vms) : vms[k].tier # t
    BY <2>2
  <2> QED
    BY <2>1, <2>2
<1> HIDE DEF more, qs, n
<1>n. n = Len(vms) + 1
  BY DEF n
<1>6. \A i \in 1..Len(qs) : i \in 1..Len(ps) \/ i = Len(ps) + 1
  BY <1>4
<1>7. \A i \in 1..Len(qs) : more[qs[i]].tier = t
  <2> SUFFICES ASSUME NEW i \in 1..Len(qs) PROVE more[qs[i]].tier = t
    OBVIOUS
  <2>1. CASE i \in 1..Len(ps)
    <3>1. qs[i] = ps[i] /\ ps[i] \in 1..Len(vms)
      BY <1>2, <1>4, <2>1
    <3>2. more[qs[i]] = vms[ps[i]]
      BY <1>1, <3>1
    <3> QED
      BY <1>5, <2>1, <3>2
  <2>2. CASE i = Len(ps) + 1
    BY <1>1, <1>4, <2>2
  <2> QED
    BY <1>6, <2>1, <2>2
<1>8. \A i, j \in 1..Len(qs) : i < j => qs[i] < qs[j]
  <2> SUFFICES ASSUME NEW i \in 1..Len(qs), NEW j \in 1..Len(qs), i < j PROVE qs[i] < qs[j]
    OBVIOUS
  <2>1. i \in 1..Len(ps)
    BY <1>4, <1>6
  <2>2. CASE j \in 1..Len(ps)
    BY <1>4, <1>5, <2>1, <2>2
  <2>3. CASE j = Len(ps) + 1
    <3>1. qs[i] = ps[i] /\ ps[i] \in 1..Len(vms) /\ qs[j] = n
      BY <1>2, <1>4, <2>1, <2>3
    <3> QED
      BY <1>1, <1>n, <3>1
  <2> QED
    BY <1>6, <2>2, <2>3
<1>9. \A k \in 1..Len(more) : more[k].tier = t => \E i \in 1..Len(qs) : qs[i] = k
  <2> SUFFICES ASSUME NEW k \in 1..Len(more), more[k].tier = t
               PROVE  \E i \in 1..Len(qs) : qs[i] = k
    OBVIOUS
  <2>1. CASE k = n
    BY <1>4, <2>1
  <2>2. CASE k # n
    <3>1. k \in 1..Len(vms) /\ vms[k].tier = t
      BY <1>1, <1>n, <2>2
    <3>2. PICK i \in 1..Len(ps) : ps[i] = k
      BY <1>5, <3>1
    <3>3. i \in 1..Len(qs) /\ qs[i] = k
      BY <1>4, <3>2
    <3> QED
      BY <3>3
  <2> QED
    BY <2>1, <2>2
<1>10. qs # <<>>
  BY <1>4
<1>11. Lists(qs, t, more)
  BY <1>1, <1>4, <1>7, <1>8, <1>9, <1>10 DEF Lists
<1> QED
  BY <1>11 DEF more, qs, n

\* The entry of a round.
Entry(p, tier, j, disk, free) ==
  [index |-> IndexAt(Len(p.vms) + 1, free), name |-> <<tier.name, j>>, tier |-> tier.name,
   disk |-> disk]

\* A round appends its entry and keeps both maps right.
LEMMA AddVMKeeps ==
  ASSUME NEW S, NEW p, p.vms \in Seq(S), NEW tier, NEW j, NEW disk, NEW free,
         Entry(p, tier, j, disk, free) \in S, NameMap(p), TierMap(p)
  PROVE  /\ AddVM(p, tier, j, disk, free).vms = Append(p.vms, Entry(p, tier, j, disk, free))
         /\ NameMap(AddVM(p, tier, j, disk, free))
         /\ TierMap(AddVM(p, tier, j, disk, free))
<1> DEFINE e == Entry(p, tier, j, disk, free)
           q == AddVM(p, tier, j, disk, free)
           n == Len(p.vms) + 1
           t == tier.name
           ps == Append(Get(p.byTier, t, <<>>), n)
<1>1. /\ q.vms = Append(p.vms, e)
      /\ q.byName = Put(p.byName, e.name, n)
      /\ q.byTier = Put(p.byTier, t, ps)
      /\ e.tier = t
  BY DEF AddVM, Entry
<1>2. e \in S
  OBVIOUS
<1>n. n = Len(p.vms) + 1
  OBVIOUS
<1> HIDE DEF q, e, n, ps
<1>3. /\ Len(q.vms) = n /\ Len(p.vms) \in Nat /\ q.vms[n] = e /\ n \in Nat
      /\ \A k \in 1..Len(p.vms) : q.vms[k] = p.vms[k]
      /\ \A k \in 1..Len(q.vms) : k \in 1..Len(p.vms) \/ k = n
  BY <1>1, <1>2, <1>n, Appended
<1>4. NameMap(q)
  <2>1. /\ DOMAIN q.byName = DOMAIN p.byName \cup {e.name} /\ q.byName[e.name] = n
        /\ \A x \in DOMAIN p.byName : x # e.name => q.byName[x] = p.byName[x]
    BY <1>1 DEF Put
  <2>2. \A k \in 1..Len(q.vms) : q.vms[k].name \in DOMAIN q.byName
    BY <1>3, <2>1 DEF NameMap
  <2>3. ASSUME NEW x \in DOMAIN q.byName
        PROVE  /\ q.byName[x] \in 1..Len(q.vms) /\ q.vms[q.byName[x]].name = x
               /\ \A k \in 1..Len(q.vms) : q.vms[k].name = x => k <= q.byName[x]
    <3>1. CASE x = e.name
      <4>1. q.byName[x] = n /\ n \in 1..n
        BY <1>3, <1>n, <2>1, <3>1
      <4> QED
        BY <1>3, <3>1, <4>1
    <3>2. CASE x # e.name
      <4>1. x \in DOMAIN p.byName /\ q.byName[x] = p.byName[x]
        BY <2>1, <2>3, <3>2
      <4>2. /\ p.byName[x] \in 1..Len(p.vms) /\ p.vms[p.byName[x]].name = x
            /\ \A k \in 1..Len(p.vms) : p.vms[k].name = x => k <= p.byName[x]
        BY <4>1 DEF NameMap
      <4>3. \A k \in 1..Len(q.vms) : q.vms[k].name = x => k \in 1..Len(p.vms) /\ p.vms[k].name = x
        BY <1>3, <3>2
      <4> QED
        BY <1>3, <1>n, <4>1, <4>2, <4>3
    <3> QED
      BY <3>1, <3>2
  <2> QED
    BY <2>2, <2>3 DEF NameMap
<1>5. TierMap(q)
  <2>1. /\ DOMAIN q.byTier = DOMAIN p.byTier \cup {t} /\ q.byTier[t] = ps
        /\ \A x \in DOMAIN p.byTier : x # t => q.byTier[x] = p.byTier[x]
    BY <1>1 DEF Put
  <2>2. \A k \in 1..Len(q.vms) : q.vms[k].tier \in DOMAIN q.byTier
    BY <1>1, <1>3, <2>1 DEF TierMap
  <2>3. Lists(ps, t, q.vms)
    <3>1. CASE t \in DOMAIN p.byTier
      <4>1. ps = Append(p.byTier[t], n) /\ Lists(p.byTier[t], t, p.vms)
        BY <3>1 DEF ps, Get, TierMap
      <4> QED
        BY <1>1, <1>2, <1>n, <4>1, ListsGrown
    <3>2. CASE t \notin DOMAIN p.byTier
      <4>1. ps = Append(<<>>, n) /\ \A k \in 1..Len(p.vms) : p.vms[k].tier # t
        BY <3>2 DEF ps, Get, TierMap
      <4> QED
        BY <1>1, <1>2, <1>n, <4>1, ListsGrown
    <3> QED
      BY <3>1, <3>2
  <2>4. \A x \in DOMAIN p.byTier : x # t => Lists(q.byTier[x], x, q.vms)
    <3> SUFFICES ASSUME NEW x \in DOMAIN p.byTier, x # t PROVE Lists(q.byTier[x], x, q.vms)
      OBVIOUS
    <3>1. Lists(p.byTier[x], x, p.vms)
      BY DEF TierMap
    <3>2. Lists(p.byTier[x], x, Append(p.vms, e))
      BY <1>1, <1>2, <3>1, ListsKept
    <3> QED
      BY <1>1, <2>1, <3>2
  <2> QED
    BY <2>1, <2>2, <2>3, <2>4 DEF TierMap
<1> QED
  BY <1>1, <1>4, <1>5 DEF q, e

\* The maps of a plan without VMs are right.
LEMMA NoPlanMaps == NoPlan.vms = <<>> /\ NameMap(NoPlan) /\ TierMap(NoPlan)
BY DEF NoPlan, EmptyMap, NameMap, TierMap

-----------------------------------------------------------------------------
(***************************************************************************)
(* The way from the file to the plan.                                      *)
(***************************************************************************)

\* What Load leaves as it is, and its defaults.
LEMMA LoadTyped ==
  ASSUME NEW file \in ScenarioFiles
  PROVE  /\ Load(file) \in ScenarioFiles
         /\ Load(file).objectives = file.objectives
         /\ \A i \in 1..Len(Load(file).tiers) : Load(file).tiers[i].count > 0
<1> DEFINE tiers == [i \in DOMAIN file.tiers |-> WithDefaults(file.tiers[i])]
<1>1. file.tiers \in Seq(Tiers) /\ DOMAIN file.tiers = 1..Len(file.tiers) /\ Len(file.tiers) \in Nat
  BY DEF ScenarioFiles
<1>2. ASSUME NEW t \in Tiers PROVE WithDefaults(t) \in Tiers /\ WithDefaults(t).count > 0
  <2> DEFINE count == IF t.count <= 0 THEN 1 ELSE t.count
             disk == IF t.disk < 0 THEN 0 ELSE t.disk
  <2>1. count \in Int /\ count > 0 /\ disk \in Int
    BY DEF Tiers
  <2>2. WithDefaults(t) = [[t EXCEPT !.count = count] EXCEPT !.disk = disk]
    BY DEF WithDefaults, Tiers
  <2> HIDE DEF count, disk
  <2> QED
    BY <2>1, <2>2 DEF Tiers
<1>3. \A i \in 1..Len(file.tiers) : tiers[i] \in Tiers /\ tiers[i].count > 0
  BY <1>1, <1>2
<1>4. tiers \in Seq(Tiers) /\ Len(tiers) = Len(file.tiers)
  <2>1. tiers \in [1..Len(file.tiers) -> Tiers]
    BY <1>1, <1>3
  <2> QED
    BY <1>1, <2>1
<1> HIDE DEF tiers
<1>5. Load(file) = [file EXCEPT !.tiers = tiers]
  BY DEF Load, tiers
<1> QED
  BY <1>3, <1>4, <1>5 DEF ScenarioFiles

\* What a loaded scenario is.
LEMMA LoadedScenario ==
  ASSUME PlanTyped, stage \notin {"new", "rejected"}
  PROVE  /\ scenario \in ScenarioFiles
         /\ \A i \in 1..Len(scenario.tiers) : scenario.tiers[i].count > 0
         /\ scenario.objectives = request.file.objectives
BY LoadTyped, VMPlanAssumption DEF PlanTyped

\* The entry of the next round is one for the plan.
LEMMA NextEntry ==
  ASSUME PlanTyped, Building, InLoop(at), NEW tier, tier = scenario.tiers[at.tier]
  PROVE  /\ Entry(plan, tier, at.vm, Get(Disks, tier.name, tier.disk), vmIDs) \in VMEntries
         /\ at.tier \in DOMAIN scenario.tiers
<1>1. scenario.tiers \in Seq(Tiers) /\ at.tier \in Nat \ {0} /\ at.vm \in Nat
  BY LoadedScenario DEF PlanTyped, Building, ScenarioFiles, Places
<1>2. at.tier \in 1..Len(scenario.tiers) /\ DOMAIN scenario.tiers = 1..Len(scenario.tiers)
  BY <1>1 DEF InLoop
<1>3. tier \in Tiers
  BY <1>1, <1>2
<1>a. tier.name \in STRING
  BY <1>3 DEF Tiers
<1>4. Get(Disks, tier.name, tier.disk) \in DiskSizes
  BY <1>2 DEF DiskSizes
<1>5. IndexAt(Len(plan.vms) + 1, vmIDs) \in Nat
  <2>1. plan.vms \in Seq(VMEntries) /\ Len(plan.vms) \in Nat /\ vmIDs \in Seq(IDs) /\ Len(vmIDs) \in Nat
    BY DEF PlanTyped
  <2> QED
    <3>a. IDs \subseteq Nat
      BY VMPlanAssumption
    <3>b. \A i \in 1..Len(vmIDs) : vmIDs[i] \in IDs
      BY <2>1
    <3>1. \A i \in 1..Len(vmIDs) : vmIDs[i] \in Nat
      BY <3>a, <3>b
    <3>2. CASE Len(plan.vms) + 1 <= Len(vmIDs)
      BY <2>1, <3>1, <3>2 DEF IndexAt
    <3>3. CASE ~(Len(plan.vms) + 1 <= Len(vmIDs))
      BY <2>1, <3>3 DEF IndexAt
    <3> QED
      BY <3>2, <3>3
<1> QED
  BY <1>1, <1>2, <1>a, <1>4, <1>5 DEF Entry, VMEntries

\* A way stays one.
LEMMA WayKept ==
  ASSUME UNCHANGED <<scenario, overrides>>
  PROVE  /\ \A n, T, c : Way(n, T, c) => Way(n, T, c)'
         /\ \A a : InLoop(a)' <=> InLoop(a)
<1>1. \A a : /\ InLoop(a)' <=> InLoop(a)
             /\ Refuses(a)' <=> Refuses(a)
             /\ MoreVMs(a)' <=> MoreVMs(a)
  BY DEF InLoop, Refuses, MoreVMs, Scale, overrides
<1> QED
  BY <1>1 DEF Way

\* A way has got one round longer.
LEMMA WayGrows ==
  ASSUME NEW n, NEW T, NEW c, Way(n, T, c), InLoop(T[n]), ~Refuses(T[n]),
         NEW a \in Places, NEW d \in Nat,
         MoreVMs(T[n]) => a = [tier |-> T[n].tier, vm |-> T[n].vm + 1] /\ d = c[n] + 1,
         ~MoreVMs(T[n]) => a = [tier |-> T[n].tier + 1, vm |-> 0] /\ d = c[n]
  PROVE  \E m, U, e : Way(m, U, e) /\ U[m] = a /\ e[m] = d
<1> DEFINE m == n + 1
           U == [k \in 0..m |-> IF k = m THEN a ELSE T[k]]
           e == [k \in 0..m |-> IF k = m THEN d ELSE c[k]]
<1>1. n \in Nat /\ T \in [0..n -> Places] /\ c \in [0..n -> Nat]
  BY DEF Way
<1>2. m \in Nat /\ U \in [0..m -> Places] /\ e \in [0..m -> Nat] /\ U[m] = a /\ e[m] = d
  BY <1>1
<1>3. \A k \in 0..n : U[k] = T[k] /\ e[k] = c[k]
  BY <1>1
<1>m. m = n + 1
  OBVIOUS
<1> HIDE DEF m, U, e
<1>4. U[0] = FirstRound /\ e[0] = 0
  BY <1>1, <1>3 DEF Way
<1>5. \A k \in 0..(m - 1) :
        /\ InLoop(U[k]) /\ ~Refuses(U[k])
        /\ MoreVMs(U[k]) => /\ U[k + 1] = [tier |-> U[k].tier, vm |-> U[k].vm + 1]
                            /\ e[k + 1] = e[k] + 1
        /\ ~MoreVMs(U[k]) => /\ U[k + 1] = [tier |-> U[k].tier + 1, vm |-> 0]
                             /\ e[k + 1] = e[k]
  <2> SUFFICES ASSUME NEW k \in 0..(m - 1)
               PROVE  /\ InLoop(U[k]) /\ ~Refuses(U[k])
                      /\ MoreVMs(U[k]) => /\ U[k + 1] = [tier |-> U[k].tier, vm |-> U[k].vm + 1]
                                          /\ e[k + 1] = e[k] + 1
                      /\ ~MoreVMs(U[k]) => /\ U[k + 1] = [tier |-> U[k].tier + 1, vm |-> 0]
                                           /\ e[k + 1] = e[k]
    OBVIOUS
  <2>1. CASE k = n
    <3>1. U[k] = T[n] /\ e[k] = c[n] /\ U[k + 1] = a /\ e[k + 1] = d
      BY <1>1, <1>2, <1>3, <1>m, <2>1
    <3> QED
      BY <3>1
  <2>2. CASE k # n
    <3>1. k \in 0..(n - 1) /\ k \in 0..n /\ k + 1 \in 0..n
      BY <1>1, <1>m, <2>2
    <3>2. U[k] = T[k] /\ e[k] = c[k] /\ U[k + 1] = T[k + 1] /\ e[k + 1] = c[k + 1]
      BY <1>3, <3>1
    <3> QED
      BY <3>1, <3>2 DEF Way
  <2> QED
    BY <2>1, <2>2
<1> QED
  BY <1>2, <1>4, <1>5 DEF Way

\* A way begins.
LEMMA FirstWay == \E n, T, c : Way(n, T, c) /\ T[n] = FirstRound /\ c[n] = 0
<1> DEFINE T == [k \in 0..0 |-> FirstRound]
           c == [k \in 0..0 |-> 0]
<1>1. FirstRound \in Places
  BY DEF FirstRound, Places
<1>2. T \in [0..0 -> Places] /\ c \in [0..0 -> Nat] /\ T[0] = FirstRound /\ c[0] = 0
  BY <1>1
<1> HIDE DEF T, c
<1>3. Way(0, T, c)
  BY <1>2 DEF Way
<1> QED
  BY <1>2, <1>3

\* Nothing changes while a scenario is monitored, and before it only the stage.
LEMMA PlanStays ==
  ASSUME PlanInv, UNCHANGED <<request, scenario, overrides, vmIDs, plan, at>>,
         \/ stage' = stage
         \/ stage = "planned" /\ stage' = "monitored"
  PROVE  PlanInv'
<1>1. VMEntries' = VMEntries
  BY DEF VMEntries, DiskSizes, Disks, overrides
<1>2. PlanTyped'
  BY <1>1 DEF PlanInv, PlanTyped, Stages
<1>3. Mapped'
  BY DEF PlanInv, Mapped
<1>4. Agreeing'
  <2>1. WayOfCount => WayOfCount'
    BY WayKept DEF WayOfCount
  <2>2. Counted(Len(plan.vms)) => Counted(Len(plan.vms))'
    BY WayKept DEF Counted
  <2>3. Counted(Len(vmIDs)) => Counted(Len(vmIDs))'
    BY WayKept DEF Counted
  <2>4. WayAgain => WayAgain'
    BY WayKept DEF WayAgain
  <2> QED
    BY <2>1, <2>2, <2>3, <2>4 DEF PlanInv, Agreeing
<1> QED
  BY <1>2, <1>3, <1>4 DEF PlanInv

\* scenario.Load.
LEMMA LoadStep == ASSUME PlanInv, LoadScenario PROVE PlanInv'
<1>1. plan = NoPlan /\ vmIDs = <<>> /\ UNCHANGED <<request, vmIDs, plan, at>>
  BY DEF PlanInv, PlanTyped, LoadScenario
<1>2. \/ stage' = "loaded" /\ Valid(request.file) /\ scenario' = Load(request.file)
      \/ stage' = "rejected" /\ UNCHANGED scenario
  BY DEF LoadScenario
<1>3. PlanTyped'
  BY <1>1, <1>2, NoPlanMaps DEF PlanInv, PlanTyped, Stages
<1>4. Mapped'
  BY <1>1, <1>2, NoPlanMaps DEF Mapped
<1>5. Agreeing'
  BY <1>2 DEF Agreeing
<1> QED
  BY <1>3, <1>4, <1>5 DEF PlanInv

\* A round of parsing an override.
LEMMA ParseStep == ASSUME PlanInv, ParseScaleOverrides \/ ParseDiskOverrides PROVE PlanInv'
<1>1. stage = "loaded" /\ plan = NoPlan /\ UNCHANGED <<request, stage, scenario, vmIDs, plan, at>>
  BY DEF PlanInv, PlanTyped, ParseScaleOverrides, ParseDiskOverrides
<1>2. PlanTyped'
  BY <1>1, NoPlanMaps DEF PlanInv, PlanTyped
<1>3. Mapped'
  BY <1>1 DEF PlanInv, Mapped
<1>4. Agreeing'
  BY <1>1 DEF Agreeing
<1> QED
  BY <1>2, <1>3, <1>4 DEF PlanInv

\* A build begins.
LEMMA BuildBegins ==
  ASSUME PlanInv, NEW during \in {"counting", "planning"}, Build(during),
         UNCHANGED <<request, scenario, overrides, vmIDs>>,
         stage \in {"loaded", "allocated"},
         during = "counting" => stage = "loaded"
  PROVE  PlanTyped' /\ Mapped' /\ at' = FirstRound /\ Len(plan.vms)' = 0
<1>1. plan' = NoPlan /\ stage' = during /\ at' = FirstRound /\ FirstRound \in Places
  BY DEF Build, FirstRound, Places
<1>2. PlanTyped'
  BY <1>1, NoPlanMaps DEF PlanInv, PlanTyped, Stages
<1>3. Mapped' /\ Len(plan.vms)' = 0
  BY <1>1, NoPlanMaps DEF Mapped
<1> QED
  BY <1>1, <1>2, <1>3

\* createScenario counts.
LEMMA CountStep == ASSUME PlanInv, CountVMs PROVE PlanInv'
<1>1. PlanTyped' /\ Mapped' /\ at' = FirstRound /\ Len(plan.vms)' = 0
  BY BuildBegins DEF CountVMs
<1>2. WayOfCount'
  BY <1>1, FirstWay, WayKept DEF WayOfCount, CountVMs
<1> QED
  BY <1>1, <1>2 DEF PlanInv, Agreeing, CountVMs, Build

\* createScenario allocates as many IDs as it counted VMs.
LEMMA AllocateStep == ASSUME PlanInv, AllocateVMIDs PROVE PlanInv'
<1> DEFINE n == Len(plan.vms)
<1>1. n \in Nat /\ stage = "counted" /\ stage' = "allocated"
      /\ UNCHANGED <<request, scenario, overrides, plan, at>>
  BY DEF PlanInv, PlanTyped, AllocateVMIDs
<1>2. /\ vmIDs' \in [1..n -> IDs]
      /\ \A i, j \in 1..n : i < j => vmIDs'[i] < vmIDs'[j]
  BY DEF AllocateVMIDs, Allocations
<1> HIDE DEF n
<1>3. vmIDs' \in Seq(IDs) /\ Len(vmIDs') = n
  BY <1>1, <1>2
<1>4. VMEntries' = VMEntries
  BY <1>1 DEF VMEntries, DiskSizes, Disks, overrides
<1>5. request.api /\ Counted(n)
  BY <1>1 DEF PlanInv, Agreeing, n
<1>6. PlanTyped'
  BY <1>1, <1>2, <1>3, <1>4, <1>5 DEF PlanInv, PlanTyped, Stages
<1>7. Mapped'
  BY <1>1 DEF PlanInv, Mapped
<1>8. Counted(Len(vmIDs))'
  BY <1>1, <1>3, <1>5, WayKept DEF Counted
<1> QED
  BY <1>1, <1>5, <1>6, <1>7, <1>8 DEF PlanInv, Agreeing

\* NewRunner builds again.
LEMMA RunnerStep == ASSUME PlanInv, NewRunner PROVE PlanInv'
<1>1. PlanTyped' /\ Mapped' /\ at' = FirstRound /\ Len(plan.vms)' = 0
  BY BuildBegins DEF NewRunner
<1>2. stage' = "planning" /\ UNCHANGED <<request, scenario, overrides, vmIDs>>
  BY DEF NewRunner, Build
<1>3. ASSUME request.api PROVE WayAgain'
  <2>1. Counted(Len(vmIDs))
    BY <1>3 DEF NewRunner, PlanInv, Agreeing
  <2>2. PICK n, T, c : Way(n, T, c) /\ ~InLoop(T[n]) /\ Len(vmIDs) = c[n]
    BY <2>1 DEF Counted
  <2>3. 0 \in 0..n /\ T[0] = FirstRound /\ c[0] = 0
    BY <2>2 DEF Way
  <2> QED
    BY <1>1, <1>2, <2>2, <2>3, WayKept DEF WayAgain
<1> QED
  BY <1>1, <1>2, <1>3 DEF PlanInv, Agreeing

\* Where the second build refuses or ends, the first has.
LEMMA SameRound ==
  ASSUME NEW n, NEW T, NEW c, Way(n, T, c), ~InLoop(T[n]), NEW k \in 0..n
  PROVE  /\ InLoop(T[k]) => k \in 0..(n - 1) /\ k + 1 \in 0..n /\ ~Refuses(T[k])
         /\ ~InLoop(T[k]) => k = n
<1>1. n \in Nat /\ \A i \in 0..(n - 1) : InLoop(T[i]) /\ ~Refuses(T[i])
  BY DEF Way
<1>a. n \in Nat
  BY <1>1
<1>2. k = n \/ (k \in 0..(n - 1) /\ k + 1 \in 0..n)
  BY <1>a
<1> QED
  BY <1>1, <1>2

\* A round of the second build, which goes the way of the first one.
LEMMA SecondBuild ==
  ASSUME WayAgain, InLoop(at), ~Refuses(at), UNCHANGED <<request, scenario, overrides, vmIDs>>,
         MoreVMs(at) => /\ at' = [tier |-> at.tier, vm |-> at.vm + 1]
                        /\ Len(plan.vms)' = Len(plan.vms) + 1,
         ~MoreVMs(at) => /\ at' = [tier |-> at.tier + 1, vm |-> 0]
                         /\ Len(plan.vms)' = Len(plan.vms)
  PROVE  WayAgain'
<1>1. PICK n, T, c, k : /\ Way(n, T, c) /\ ~InLoop(T[n]) /\ Len(vmIDs) = c[n]
                        /\ k \in 0..n /\ at = T[k] /\ Len(plan.vms) = c[k]
  BY DEF WayAgain
<1>2. k \in 0..(n - 1) /\ k + 1 \in 0..n
  BY <1>1, SameRound
<1>3. at' = T[k + 1] /\ Len(plan.vms)' = c[k + 1]
  BY <1>1, <1>2 DEF Way
<1>4. Way(n, T, c)' /\ ~InLoop(T[n])' /\ Len(vmIDs)' = c[n]
  BY <1>1, WayKept
<1>5. \E m, U, e, l : /\ Way(m, U, e)' /\ ~InLoop(U[m])' /\ Len(vmIDs)' = e[m]
                       /\ l \in 0..m /\ at' = U[l] /\ Len(plan.vms)' = e[l]
  BY <1>2, <1>3, <1>4, Zenon
<1> QED
  BY <1>5 DEF WayAgain

\* A round of the first build.
LEMMA FirstBuild ==
  ASSUME WayOfCount, InLoop(at), ~Refuses(at), UNCHANGED <<request, scenario, overrides, vmIDs>>,
         at' \in Places, Len(plan.vms)' \in Nat,
         MoreVMs(at) => /\ at' = [tier |-> at.tier, vm |-> at.vm + 1]
                        /\ Len(plan.vms)' = Len(plan.vms) + 1,
         ~MoreVMs(at) => /\ at' = [tier |-> at.tier + 1, vm |-> 0]
                         /\ Len(plan.vms)' = Len(plan.vms)
  PROVE  WayOfCount'
<1>1. PICK n, T, c : Way(n, T, c) /\ at = T[n] /\ Len(plan.vms) = c[n]
  BY DEF WayOfCount
<1>2. PICK m, U, e : Way(m, U, e) /\ U[m] = at' /\ e[m] = Len(plan.vms)'
  BY <1>1, WayGrows
<1> QED
  BY <1>2, WayKept DEF WayOfCount

\* A refused override.  The second build of createScenario never comes to this.
LEMMA RefuseStep == ASSUME PlanInv, RefuseScale PROVE PlanInv'
<1>1. /\ plan' = NoPlan /\ vmIDs' = <<>> /\ UNCHANGED <<request, scenario, overrides, at>>
      /\ stage' \in {"rejected", "failed"} /\ (stage' = "failed" => stage = "planning")
      /\ stage \in {"counting", "planning"}
  BY DEF RefuseScale, Building
<1>2. PlanTyped'
  BY <1>1, NoPlanMaps DEF PlanInv, PlanTyped, Stages
<1>3. Mapped'
  BY <1>1, NoPlanMaps DEF Mapped
<1>4. stage = "planning" => ~request.api
  <2> SUFFICES ASSUME stage = "planning", request.api PROVE FALSE
    OBVIOUS
  <2>1. PICK n, T, c, k : /\ Way(n, T, c) /\ ~InLoop(T[n]) /\ k \in 0..n /\ at = T[k]
    BY DEF PlanInv, Agreeing, WayAgain
  <2> QED
    BY <2>1, SameRound DEF RefuseScale
<1> QED
  BY <1>1, <1>2, <1>3, <1>4 DEF PlanInv, Agreeing

\* A round of the inner loop.
LEMMA PlanVMStep == ASSUME PlanInv, PlanVM PROVE PlanInv'
<1> DEFINE tier == scenario.tiers[at.tier]
           disk == Get(Disks, tier.name, tier.disk)
           e == Entry(plan, tier, at.vm, disk, vmIDs)
<1>1. /\ UNCHANGED <<request, stage, scenario, overrides, vmIDs>> /\ stage \in {"counting", "planning"}
      /\ InLoop(at) /\ ~Refuses(at) /\ MoreVMs(at)
      /\ plan' = AddVM(plan, tier, at.vm, disk, vmIDs)
      /\ at' = [at EXCEPT !.vm = @ + 1]
  BY DEF PlanVM, Building
<1>2. at \in Places /\ plan.vms \in Seq(VMEntries) /\ e \in VMEntries
  BY <1>1, NextEntry DEF PlanInv, PlanTyped, PlanVM
<1>3. plan'.vms = Append(plan.vms, e) /\ NameMap(plan') /\ TierMap(plan')
  <2>1. NameMap(plan) /\ TierMap(plan)
    BY DEF PlanInv, Mapped
  <2> HIDE DEF tier, disk
  <2> QED
    BY <1>1, <1>2, <2>1, AddVMKeeps
<1>4. at' = [tier |-> at.tier, vm |-> at.vm + 1] /\ at' \in Places
  BY <1>1, <1>2 DEF Places
<1>5. e.index = IndexAt(Len(plan.vms) + 1, vmIDs)
  BY DEF Entry
<1> HIDE DEF e, disk, tier
<1>6. /\ plan'.vms \in Seq(VMEntries) /\ Len(plan'.vms) = Len(plan.vms) + 1 /\ Len(plan.vms) \in Nat
      /\ \A i \in 1..Len(plan.vms) : plan'.vms[i] = plan.vms[i]
      /\ plan'.vms[Len(plan.vms) + 1] = e
  BY <1>2, <1>3, Appended
<1>7. VMEntries' = VMEntries
  BY <1>1 DEF VMEntries, DiskSizes, Disks, overrides
<1>8. PlanTyped'
  BY <1>1, <1>4, <1>6, <1>7 DEF PlanInv, PlanTyped, Stages
<1>9. \A k \in 1..Len(plan'.vms) : plan'.vms[k].index = IndexAt(k, vmIDs')
  <2> SUFFICES ASSUME NEW k \in 1..Len(plan'.vms) PROVE plan'.vms[k].index = IndexAt(k, vmIDs)
    BY <1>1
  <2>1. CASE k = Len(plan.vms) + 1
    BY <1>5, <1>6, <2>1
  <2>2. CASE k # Len(plan.vms) + 1
    <3>1. k \in 1..Len(plan.vms)
      BY <1>6, <2>2
    <3> QED
      BY <1>1, <1>6, <3>1 DEF PlanInv, Mapped
  <2> QED
    BY <2>1, <2>2
<1>10. Mapped'
  BY <1>3, <1>9 DEF Mapped
<1>11. stage = "counting" => WayOfCount'
  <2>1. Len(plan.vms)' \in Nat /\ Len(plan.vms)' = Len(plan.vms) + 1
    BY <1>6
  <2>2. stage = "counting" => WayOfCount
    BY DEF PlanInv, Agreeing
  <2> QED
    BY <1>1, <1>4, <2>1, <2>2, FirstBuild
<1>12. stage = "planning" /\ request.api => WayAgain'
  BY <1>1, <1>4, <1>6, SecondBuild DEF PlanInv, Agreeing
<1> QED
  BY <1>1, <1>8, <1>10, <1>11, <1>12 DEF PlanInv, Agreeing

\* The next round of the outer loop.
LEMMA NextTierStep == ASSUME PlanInv, NextTier PROVE PlanInv'
<1>1. /\ UNCHANGED <<request, stage, scenario, overrides, vmIDs, plan>> /\ stage \in {"counting", "planning"}
      /\ InLoop(at) /\ ~Refuses(at) /\ ~MoreVMs(at)
      /\ at' = [tier |-> at.tier + 1, vm |-> 0]
  BY DEF NextTier, Building
<1>2. at' \in Places /\ Len(plan.vms) \in Nat /\ VMEntries' = VMEntries
  BY <1>1 DEF PlanInv, PlanTyped, Places, VMEntries, DiskSizes, Disks, overrides
<1>3. PlanTyped'
  BY <1>1, <1>2 DEF PlanInv, PlanTyped, Stages
<1>4. Mapped'
  BY <1>1 DEF PlanInv, Mapped
<1>5. stage = "counting" => WayOfCount'
  BY <1>1, <1>2, FirstBuild DEF PlanInv, Agreeing
<1>6. stage = "planning" /\ request.api => WayAgain'
  BY <1>1, <1>2, SecondBuild DEF PlanInv, Agreeing
<1> QED
  BY <1>1, <1>3, <1>4, <1>5, <1>6 DEF PlanInv, Agreeing

\* BuildVMPlan returns.
LEMMA ReturnStep == ASSUME PlanInv, ReturnPlan PROVE PlanInv'
<1>1. /\ UNCHANGED <<request, scenario, overrides, vmIDs, plan, at>> /\ ~InLoop(at)
      /\ \/ stage = "counting" /\ stage' = "counted"
         \/ stage = "planning" /\ stage' = "planned"
  BY DEF ReturnPlan, Building
<1>2. VMEntries' = VMEntries
  BY <1>1 DEF VMEntries, DiskSizes, Disks, overrides
<1>3. PlanTyped'
  BY <1>1, <1>2 DEF PlanInv, PlanTyped, Stages
<1>4. Mapped'
  BY <1>1 DEF PlanInv, Mapped
<1>5. stage = "counting" => Counted(Len(plan.vms))'
  <2> SUFFICES ASSUME stage = "counting" PROVE Counted(Len(plan.vms))'
    OBVIOUS
  <2>1. PICK n, T, c : Way(n, T, c) /\ at = T[n] /\ Len(plan.vms) = c[n]
    BY DEF PlanInv, Agreeing, WayOfCount
  <2>2. Way(n, T, c)' /\ ~InLoop(T[n])' /\ Len(plan.vms)' = c[n]
    BY <1>1, <2>1, WayKept
  <2> QED
    BY <2>2 DEF Counted
<1>6. stage = "planning" /\ request.api => Len(plan.vms) = Len(vmIDs)
  <2> SUFFICES ASSUME stage = "planning", request.api PROVE Len(plan.vms) = Len(vmIDs)
    OBVIOUS
  <2>1. PICK n, T, c, k : /\ Way(n, T, c) /\ ~InLoop(T[n]) /\ Len(vmIDs) = c[n]
                          /\ k \in 0..n /\ at = T[k] /\ Len(plan.vms) = c[k]
    BY DEF PlanInv, Agreeing, WayAgain
  <2> QED
    BY <1>1, <2>1, SameRound
<1> QED
  BY <1>1, <1>3, <1>4, <1>5, <1>6 DEF PlanInv, Agreeing

\* Every step on the way to the plan keeps the invariant.
LEMMA PlanStep == ASSUME PlanInv, PlanNext PROVE PlanInv'
BY LoadStep, ParseStep, CountStep, AllocateStep, RunnerStep, RefuseStep, PlanVMStep,
   NextTierStep, ReturnStep DEF PlanNext, BuildVMPlan

-----------------------------------------------------------------------------
(***************************************************************************)
(* What the plan promises.                                                 *)
(***************************************************************************)

\* A list of one position.
LEMMA Single ==
  ASSUME NEW S, NEW x \in S
  PROVE  Range(<<x>>) = {x} /\ <<x>> \in Seq(S) /\ <<x>> # <<>>
<1>1. DOMAIN <<x>> = {1} /\ <<x>>[1] = x
  OBVIOUS
<1>2. Range(<<x>>) = {x}
  BY <1>1 DEF Range
<1> QED
  BY <1>2

\* The targets for which ResolveTargets takes the first VM of a tier.
TakesFirst(t) ==
  t.vm = <<>> /\ t.select \in {<<"random", 0>>, <<"random", 1>>, <<"primary", 0>>}

\* ResolveTargets of any target, on a plan with the right maps: all the VMs it
\* speaks of, or the first of them.
LEMMA ResolvesToCandidates ==
  ASSUME PlanInv, NEW t
  PROVE  IF Candidates(t) = {} THEN Unresolved(t, plan)
         ELSE /\ ~Unresolved(t, plan)
              /\ ResolveTargets(t, plan) \in Seq(DOMAIN plan.vms)
              /\ ResolveTargets(t, plan) # <<>>
              /\ IF TakesFirst(t)
                 THEN \E i \in Candidates(t) :
                        /\ Range(ResolveTargets(t, plan)) = {i}
                        /\ \A k \in Candidates(t) : i <= k /\ i \in Nat /\ k \in Nat
                 ELSE Range(ResolveTargets(t, plan)) = Candidates(t)
<1> DEFINE r == ResolveTargets(t, plan)
           D == DOMAIN plan.vms
           one == {<<"random", 0>>, <<"random", 1>>, <<"primary", 0>>}
<1>1. D = 1..Len(plan.vms) /\ Len(plan.vms) \in Nat /\ NameMap(plan) /\ TierMap(plan)
  BY DEF PlanInv, PlanTyped, Mapped
<1>2. CASE t.vm # <<>>
  <2> DEFINE named == {i \in D : plan.vms[i].name = t.vm}
  <2>1. Candidates(t) = {i \in named : \A j \in named : j <= i} /\ ~TakesFirst(t)
    BY <1>2 DEF Candidates, TakesFirst
  <2>2. CASE t.vm \notin DOMAIN plan.byName
    <3>1. named = {}
      BY <1>1, <2>2 DEF NameMap
    <3> QED
      BY <1>2, <2>1, <2>2, <3>1 DEF Unresolved
  <2>3. CASE t.vm \in DOMAIN plan.byName
    <3> DEFINE b == plan.byName[t.vm]
    <3>1. b \in named /\ \A k \in named : k <= b
      BY <1>1, <2>3 DEF NameMap
    <3>2. \A k \in named : k \in Nat
      BY <1>1
    <3>3. Candidates(t) = {b}
      BY <2>1, <3>1, <3>2
    <3>4. r = <<b>> /\ ~Unresolved(t, plan)
      BY <1>2, <2>3 DEF ResolveTargets, Unresolved
    <3> HIDE DEF r, b
    <3>5. Range(r) = {b} /\ r \in Seq(D) /\ r # <<>>
      BY <3>1, <3>4, Single
    <3> QED
      BY <2>1, <3>3, <3>4, <3>5 DEF r
  <2> QED
    BY <2>2, <2>3
<1>3. CASE t.vm = <<>>
  <2> DEFINE tier == {i \in D : plan.vms[i].tier = t.tier}
             ps == plan.byTier[t.tier]
  <2>1. Candidates(t) = tier /\ (TakesFirst(t) <=> t.select \in one)
    BY <1>3 DEF Candidates, TakesFirst
  <2>2. CASE t.tier \notin DOMAIN plan.byTier
    <3>1. tier = {}
      BY <1>1, <2>2 DEF TierMap
    <3> QED
      BY <1>3, <2>1, <2>2, <3>1 DEF Unresolved
  <2>3. CASE t.tier \in DOMAIN plan.byTier
    <3>1. Lists(ps, t.tier, plan.vms) /\ ~Unresolved(t, plan)
      BY <1>1, <1>3, <2>3 DEF TierMap, Unresolved
    <3>2. r = IF t.select \in one THEN <<ps[1]>> ELSE ps
      BY <1>3 DEF ResolveTargets, Selected
    <3> HIDE DEF ps, r
    <3>3. /\ ps \in Seq(D) /\ Len(ps) \in Nat /\ Len(ps) >= 1 /\ DOMAIN ps = 1..Len(ps)
          /\ \A i \in 1..Len(ps) : ps[i] \in tier
          /\ \A k \in tier : \E i \in 1..Len(ps) : ps[i] = k
          /\ \A i, j \in 1..Len(ps) : i < j => ps[i] < ps[j]
      <4>1. ps \in Seq(D) /\ ps # <<>>
        BY <1>1, <3>1 DEF Lists
      <4>2. Len(ps) \in Nat /\ Len(ps) >= 1 /\ DOMAIN ps = 1..Len(ps)
            /\ \A i \in 1..Len(ps) : ps[i] \in D
        BY <4>1
      <4> QED
        BY <1>1, <3>1, <4>1, <4>2 DEF Lists
    <3>4. CASE t.select \in one
      <4>1. ps[1] \in tier /\ \A k \in tier : ps[1] <= k /\ k \in Nat
        <5>1. ps[1] \in tier /\ \A k \in tier : k \in Nat
          BY <1>1, <3>3
        <5>2. ASSUME NEW k \in tier PROVE ps[1] <= k
          <6>1. PICK i \in 1..Len(ps) : ps[i] = k
            BY <3>3
          <6>2. i = 1 \/ ps[1] < ps[i]
            BY <3>3
          <6> QED
            BY <5>1, <6>1, <6>2
        <5> QED
          BY <5>1, <5>2
      <4>2. ps[1] \in Candidates(t) /\ \A k \in Candidates(t) : ps[1] <= k /\ ps[1] \in Nat /\ k \in Nat
        BY <2>1, <4>1
      <4>3. r = <<ps[1]>> /\ ps[1] \in D
        BY <3>2, <3>4, <4>1
      <4>4. Range(r) = {ps[1]} /\ r \in Seq(D) /\ r # <<>>
        BY <4>3, Single
      <4> QED
        BY <2>1, <3>1, <3>4, <4>2, <4>4 DEF r
    <3>5. CASE t.select \notin one
      <4>1. r = ps /\ Candidates(t) = tier /\ ~TakesFirst(t)
        BY <2>1, <3>2, <3>5
      <4>2. Range(ps) = tier /\ ps # <<>> /\ tier # {}
        BY <3>3 DEF Range
      <4> QED
        BY <3>1, <3>3, <4>1, <4>2 DEF r
    <3> QED
      BY <3>4, <3>5
  <2> QED
    BY <2>2, <2>3
<1> QED
  BY <1>2, <1>3

\* A finite set has subsets of every size up to its own.
LEMMA SubsetOfSize ==
  ASSUME NEW S, IsFiniteSet(S), NEW n \in Nat, n <= Cardinality(S)
  PROVE  \E T \in SUBSET S : Cardinality(T) = n
<1> DEFINE c == Cardinality(S)
<1>1. c \in Nat /\ ExistsBijection(1..c, S)
  BY FS_CardinalityType
<1>2. PICK f \in Bijection(1..c, S) : TRUE
  BY <1>1 DEF ExistsBijection
<1> DEFINE T == {f[i] : i \in 1..n}
           g == [i \in 1..n |-> f[i]]
<1>3. /\ 1..n \subseteq 1..c
      /\ \A i \in 1..c : f[i] \in S
      /\ \A i, j \in 1..c : f[i] = f[j] => i = j
  BY <1>1, <1>2 DEF Bijection, Injection, Surjection, IsInjective
<1>4. g \in Bijection(1..n, T)
  <2>1. g \in [1..n -> T] /\ \A i, j \in 1..n : g[i] = g[j] => i = j
    BY <1>3
  <2>2. \A y \in T : \E i \in 1..n : g[i] = y
    OBVIOUS
  <2> QED
    BY <2>1, <2>2 DEF Bijection, Injection, Surjection, IsInjective
<1>5. Cardinality(T) = n
  BY <1>4, FS_CountingElements DEF ExistsBijection
<1>6. T \in SUBSET S
  BY <1>3
<1> QED
  BY <1>5, <1>6

\* The VMs of a target are among those it may mean, or hold as many as it asks for.
LEMMA ResolvesToMeant ==
  ASSUME PlanInv, NEW t \in FaultTargets, Candidates(t) # {}
  PROVE  LET found == Range(ResolveTargets(t, plan))
         IN /\ found \subseteq Candidates(t) /\ found # {}
            /\ IF ManyAtRandom(t) THEN \E S \in Meant(t) : S # {} /\ S \subseteq found
                                  ELSE found \in Meant(t)
<1> DEFINE found == Range(ResolveTargets(t, plan))
           n == t.select[2]
<1>1. t.select \in STRING \X Nat /\ t.select = <<t.select[1], n>> /\ n \in Nat
  BY DEF FaultTargets, Selects
<1>2. IF TakesFirst(t)
      THEN \E i \in Candidates(t) : found = {i} /\ \A k \in Candidates(t) : i <= k /\ i \in Nat /\ k \in Nat
      ELSE found = Candidates(t)
  BY ResolvesToCandidates
<1> HIDE DEF found
<1>3. found \subseteq Candidates(t) /\ found # {}
  BY <1>2
<1>4. CASE TakesFirst(t)
  <2>1. PICK i \in Candidates(t) : found = {i} /\ \A k \in Candidates(t) : i <= k /\ i \in Nat /\ k \in Nat
    BY <1>2, <1>4
  <2>2. t.vm = <<>> /\ ~ManyAtRandom(t)
    BY <1>4 DEF TakesFirst, ManyAtRandom
  <2>3. CASE t.select = <<"primary", 0>>
    <3>1. Meant(t) = {{j \in Candidates(t) : \A k \in Candidates(t) : j <= k}}
      BY <2>2, <2>3 DEF Meant
    <3>2. {j \in Candidates(t) : \A k \in Candidates(t) : j <= k} = {i}
      BY <2>1
    <3> QED
      BY <1>3, <2>1, <2>2, <3>1, <3>2 DEF found
  <2>4. CASE t.select # <<"primary", 0>>
    <3>1. t.select \in {<<"random", 0>>, <<"random", 1>>}
      BY <1>4, <2>4 DEF TakesFirst
    <3>2. Meant(t) = {{j} : j \in Candidates(t)}
      BY <2>2, <2>4, <3>1 DEF Meant
    <3> QED
      BY <1>3, <2>1, <2>2, <3>2 DEF found
  <2> QED
    BY <2>3, <2>4
<1>5. CASE ~TakesFirst(t) /\ ~ManyAtRandom(t)
  <2>1. Meant(t) = {Candidates(t)}
    BY <1>5 DEF Meant, TakesFirst
  <2> QED
    BY <1>2, <1>3, <1>5, <2>1 DEF found
<1>6. CASE ~TakesFirst(t) /\ ManyAtRandom(t)
  <2> DEFINE S == Candidates(t)
             few == IF Cardinality(S) < n THEN Cardinality(S) ELSE n
  <2>1. Meant(t) = {T \in SUBSET S : Cardinality(T) = few}
    BY <1>1, <1>6 DEF Meant, ManyAtRandom, TakesFirst
  <2>2. IsFiniteSet(S) /\ Cardinality(S) \in Nat /\ Cardinality(S) # 0
    <3>1. S \subseteq 1..Len(plan.vms) /\ Len(plan.vms) \in Nat
      BY DEF Candidates, PlanInv, PlanTyped
    <3>2. IsFiniteSet(1..Len(plan.vms))
      BY <3>1, FS_Interval
    <3>3. IsFiniteSet(S)
      BY <3>1, <3>2, FS_Subset
    <3> QED
      BY <3>3, FS_CardinalityType, FS_EmptySet
  <2>3. few \in Nat /\ few <= Cardinality(S) /\ few # 0
    BY <1>1, <1>6, <2>2 DEF ManyAtRandom
  <2>4. PICK T \in SUBSET S : Cardinality(T) = few
    BY <2>2, <2>3, SubsetOfSize
  <2>5. T # {} /\ T \in Meant(t) /\ T \subseteq found
    BY <1>2, <1>6, <2>1, <2>3, <2>4, FS_EmptySet
  <2> QED
    BY <1>3, <1>6, <2>5 DEF found
<1> QED
  BY <1>4, <1>5, <1>6

\* The IDs of the plan.
LEMMA PlannedIDs == PlanInv => PlanUsesAllocatedIDs
<1> SUFFICES ASSUME PlanInv PROVE PlanUsesAllocatedIDs
  OBVIOUS
<1>1. /\ DOMAIN plan.vms = 1..Len(plan.vms) /\ Len(plan.vms) \in Nat
      /\ DOMAIN vmIDs = 1..Len(vmIDs) /\ Len(vmIDs) \in Nat
      /\ \A i, j \in 1..Len(vmIDs) : i < j => vmIDs[i] < vmIDs[j]
      /\ \A i \in 1..Len(vmIDs) : vmIDs[i] \in IDs
  BY DEF PlanInv, PlanTyped
<1>2. IDs \subseteq Nat
  BY VMPlanAssumption
<1>3. request.api => stage # "failed"
  BY DEF PlanInv, Agreeing
<1>4. ASSUME stage = "planned"
      PROVE  \A k \in 1..Len(plan.vms) : plan.vms[k].index = IndexAt(k, vmIDs)
  BY <1>4 DEF PlanInv, Mapped
<1>5. ASSUME stage = "planned", request.api
      PROVE  /\ Len(plan.vms) = Len(vmIDs)
             /\ \A k \in 1..Len(vmIDs) : plan.vms[k].index = vmIDs[k]
  <2>1. Len(plan.vms) = Len(vmIDs)
    BY <1>5 DEF PlanInv, Agreeing
  <2> QED
    BY <1>1, <1>4, <1>5, <2>1 DEF IndexAt
<1>6. ASSUME stage = "planned", request.api
      PROVE  {plan.vms[i].index : i \in DOMAIN plan.vms} = Range(vmIDs)
  BY <1>1, <1>5, <1>6 DEF Range
<1>7. ASSUME stage = "planned", NEW i \in DOMAIN plan.vms, NEW j \in DOMAIN plan.vms,
             plan.vms[i].index = plan.vms[j].index
      PROVE  i = j
  <2>1. CASE request.api
    <3>1. vmIDs[i] = vmIDs[j] /\ i \in 1..Len(vmIDs) /\ j \in 1..Len(vmIDs)
      BY <1>1, <1>5, <1>7, <2>1
    <3>a. vmIDs[i] \in Nat
      BY <1>1, <1>2, <3>1
    <3>2. ~(i < j) /\ ~(j < i)
      BY <1>1, <3>1, <3>a
    <3> QED
      BY <1>1, <3>1, <3>2
  <2>2. CASE ~request.api
    <3>1. vmIDs = <<>>
      BY <2>2 DEF PlanInv, PlanTyped
    <3>2. plan.vms[i].index = i - 1 /\ plan.vms[j].index = j - 1
      BY <1>1, <1>4, <1>7, <3>1 DEF IndexAt
    <3>3. i - 1 = j - 1
      BY <1>7, <3>2
    <3>4. i \in Int /\ j \in Int
      BY <1>1
    <3> QED
      BY <3>3, <3>4
  <2> QED
    BY <2>1, <2>2
<1> QED
  BY <1>3, <1>5, <1>6, <1>7 DEF PlanUsesAllocatedIDs

\* The targets of the file.
LEMMA PlannedTargets == PlanInv => TargetsResolveToMeant
<1> SUFFICES ASSUME PlanInv, stage = "planned", NEW t \in Targets
             PROVE  IF Candidates(t) = {} THEN Unresolved(t, plan)
                    ELSE LET found == Range(ResolveTargets(t, plan))
                         IN /\ ~Unresolved(t, plan)
                            /\ ResolveTargets(t, plan) \in Seq(DOMAIN plan.vms)
                            /\ found \subseteq Candidates(t)
                            /\ IF ManyAtRandom(t) THEN \E S \in Meant(t) : S \subseteq found
                                                  ELSE found \in Meant(t)
  BY DEF TargetsResolveToMeant
<1>1. scenario \in ScenarioFiles
  BY LoadedScenario DEF PlanInv
<1>2. t \in FaultTargets
  <2>1. CASE t \in {f.target : f \in scenario.faults}
    BY <1>1, <2>1 DEF ScenarioFiles
  <2>2. CASE t \in {scenario.objectives[i].target : i \in DOMAIN scenario.objectives}
    <3>1. scenario.objectives \in Seq(Checks)
      BY <1>1 DEF ScenarioFiles
    <3>2. \A i \in DOMAIN scenario.objectives : scenario.objectives[i] \in Checks
      BY <3>1
    <3> QED
      BY <2>2, <3>2 DEF Checks
  <2> QED
    BY <2>1, <2>2 DEF Targets
<1> QED
  BY <1>2, ResolvesToCandidates, ResolvesToMeant

-----------------------------------------------------------------------------
(***************************************************************************)
(* What the overrides ask for.                                             *)
(***************************************************************************)

\* After the first o.parts parts, the map has the names of the positive ones, each
\* with the number of the last one.
Reads(o, parts) ==
  /\ o.parts \in 0..Len(parts)
  /\ \A i \in 1..o.parts : parts[i][2] > 0 => parts[i][1] \in DOMAIN o.map
  /\ \A name \in DOMAIN o.map :
       \E i \in 1..o.parts :
         /\ i \in Given(parts, name) /\ o.map[name] = parts[i][2]
         /\ \A j \in 1..o.parts : j \in Given(parts, name) => j <= i

\* A list of parts.
LEMMA PartsTyped ==
  ASSUME NEW parts \in Seq(Parts)
  PROVE  /\ Len(parts) \in Nat /\ DOMAIN parts = 1..Len(parts)
         /\ \A i \in 1..Len(parts) : parts[i][2] \in Int
<1>1. \A i \in 1..Len(parts) : parts[i] \in Parts
  OBVIOUS
<1> QED
  BY <1>1 DEF Parts

\* No part was read.
LEMMA NothingRead ==
  ASSUME NEW parts \in Seq(Parts)
  PROVE  Reads(NoOverrides, parts)
BY PartsTyped DEF Reads, NoOverrides, EmptyMap

\* One part more was read.
LEMMA PartRead ==
  ASSUME NEW parts \in Seq(Parts), NEW o, Reads(o, parts), o.parts < Len(parts)
  PROVE  Reads(WithPart(o, parts), parts)
<1> DEFINE n == o.parts + 1
           q == WithPart(o, parts)
           x == parts[n][1]
<1>1. o.parts \in Nat /\ n \in 1..Len(parts) /\ n \in 0..Len(parts) /\ DOMAIN parts = 1..Len(parts)
  BY PartsTyped DEF Reads
<1>2. \A i \in 1..n : i \in 1..o.parts \/ i = n
  BY <1>1
<1>3. /\ q.parts = n
      /\ parts[n][2] > 0 => q.map = Put(o.map, x, parts[n][2])
      /\ ~(parts[n][2] > 0) => q.map = o.map
  BY DEF WithPart
<1>n. n \in 1..n /\ \A j \in 1..n : j <= n /\ j \in Int
  BY <1>1
<1>4. CASE parts[n][2] > 0
  <2>1. /\ DOMAIN q.map = DOMAIN o.map \cup {x} /\ q.map[x] = parts[n][2]
        /\ \A name \in DOMAIN o.map : name # x => q.map[name] = o.map[name]
    BY <1>3, <1>4 DEF Put
  <2> HIDE DEF q, n
  <2>2. \A i \in 1..n : parts[i][2] > 0 => parts[i][1] \in DOMAIN q.map
    BY <1>2, <2>1 DEF Reads
  <2>3. ASSUME NEW name \in DOMAIN q.map
        PROVE  \E i \in 1..n : /\ i \in Given(parts, name) /\ q.map[name] = parts[i][2]
                               /\ \A j \in 1..n : j \in Given(parts, name) => j <= i
    <3>1. CASE name = x
      <4>1. n \in Given(parts, name) /\ q.map[name] = parts[n][2]
        BY <1>1, <1>4, <2>1, <3>1 DEF Given
      <4> QED
        BY <1>n, <4>1
    <3>2. CASE name # x
      <4>1. name \in DOMAIN o.map /\ q.map[name] = o.map[name]
        BY <2>1, <3>2
      <4>2. PICK i \in 1..o.parts : /\ i \in Given(parts, name) /\ o.map[name] = parts[i][2]
                                   /\ \A j \in 1..o.parts : j \in Given(parts, name) => j <= i
        BY <4>1 DEF Reads
      <4>3. n \notin Given(parts, name)
        BY <3>2 DEF Given
      <4>4. i \in 1..n
        BY <1>1 DEF n
      <4> QED
        BY <1>2, <4>1, <4>2, <4>3, <4>4
    <3> QED
      BY <3>1, <3>2
  <2> QED
    BY <1>1, <1>3, <2>2, <2>3 DEF Reads, q
<1>5. CASE ~(parts[n][2] > 0)
  <2>1. q.map = o.map
    BY <1>3, <1>5
  <2>2. \A name : n \notin Given(parts, name)
    BY <1>5 DEF Given
  <2>3. \A i \in 1..o.parts : i \in 1..n
    BY <1>1
  <2> HIDE DEF q, n
  <2>4. \A i \in 1..n : parts[i][2] > 0 => parts[i][1] \in DOMAIN q.map
    BY <1>2, <1>5, <2>1 DEF Reads
  <2>5. ASSUME NEW name \in DOMAIN q.map
        PROVE  \E i \in 1..n : /\ i \in Given(parts, name) /\ q.map[name] = parts[i][2]
                               /\ \A j \in 1..n : j \in Given(parts, name) => j <= i
    <3>1. PICK i \in 1..o.parts : /\ i \in Given(parts, name) /\ o.map[name] = parts[i][2]
                                 /\ \A j \in 1..o.parts : j \in Given(parts, name) => j <= i
      BY <2>1 DEF Reads
    <3> QED
      BY <1>2, <2>1, <2>2, <2>3, <3>1
  <2> QED
    BY <1>1, <1>3, <2>4, <2>5 DEF Reads, q
<1> QED
  BY <1>4, <1>5

\* The greatest of a set of numbers.
LEMMA MaxIs ==
  ASSUME NEW S, S \subseteq Int, NEW x \in S, \A y \in S : y <= x
  PROVE  Max(S) = x
<1>1. \A z \in S : (\A y \in S : z >= y) => z = x
  OBVIOUS
<1>2. \A y \in S : x >= y
  OBVIOUS
<1>3. Max(S) \in S /\ \A y \in S : Max(S) >= y
  BY <1>2, Zenon DEF Max
<1> QED
  BY <1>1, <1>3

\* After all parts, the map has what the request asks for.
LEMMA AskedIs ==
  ASSUME NEW parts \in Seq(Parts), NEW o, Reads(o, parts), o.parts = Len(parts),
         NEW name, NEW default
  PROVE  /\ name \in DOMAIN o.map <=> Given(parts, name) # {}
         /\ Get(o.map, name, default) = Asked(parts, name, default)
         /\ name \in DOMAIN o.map => o.map[name] \in Int /\ o.map[name] > 0
<1>1. /\ DOMAIN parts = 1..o.parts /\ Len(parts) \in Nat
      /\ \A i \in 1..o.parts : parts[i][2] \in Int
  BY PartsTyped
<1>2. CASE name \in DOMAIN o.map
  <2>1. PICK i \in 1..o.parts : /\ i \in Given(parts, name) /\ o.map[name] = parts[i][2]
                               /\ \A j \in 1..o.parts : j \in Given(parts, name) => j <= i
    BY <1>2 DEF Reads
  <2>2. Given(parts, name) \subseteq 1..o.parts /\ parts[i][2] > 0
    BY <1>1, <2>1 DEF Given
  <2>3. Given(parts, name) \subseteq Int
    BY <1>1, <2>2
  <2>4. Max(Given(parts, name)) = i
    <3>1. \A j \in Given(parts, name) : j <= i
      BY <2>1, <2>2
    <3> QED
      BY <2>1, <2>3, <3>1, MaxIs
  <2>5. Given(parts, name) # {}
    BY <2>1
  <2> QED
    BY <1>1, <1>2, <2>1, <2>2, <2>4, <2>5 DEF Get, Asked
<1>3. CASE name \notin DOMAIN o.map
  <2>1. Given(parts, name) = {}
    BY <1>1, <1>3 DEF Given, Reads
  <2> QED
    BY <1>3, <2>1 DEF Get, Asked
<1> QED
  BY <1>2, <1>3

-----------------------------------------------------------------------------
(***************************************************************************)
(* The tally of the VMs.                                                   *)
(***************************************************************************)

\* The VMs BuildVMPlan makes of a tier, and their disk.
VMsOf(i) == Get(Scale, scenario.tiers[i].name, scenario.tiers[i].count)
DiskOf(i) == Get(Disks, scenario.tiers[i].name, scenario.tiers[i].disk)

\* The round for VM j of tier i comes before a place; the tiers for which such a
\* round made a VM of this name; the VMs of this name.
Before(a, i, j) == i < a.tier \/ (i = a.tier /\ j < a.vm)
Rounds(a, t, j) ==
  {i \in 1..Len(scenario.tiers) :
     scenario.tiers[i].name = t /\ j < VMsOf(i) /\ Before(a, i, j)}
Named(vms, t, j) == {k \in 1..Len(vms) : vms[k].name = <<t, j>>}

\* A VM is one of tier i.
MadeFor(vm, i) ==
  /\ vm.tier = scenario.tiers[i].name /\ vm.name[1] = scenario.tiers[i].name
  /\ vm.name[2] \in 0..(VMsOf(i) - 1)
  /\ vm.disk = DiskOf(i)

\* When the loops are at a place, every round before it has made its VM, and the
\* tiers that are done were not refused.
Tallied(a, vms) ==
  /\ InLoop(a) => a.vm <= VMsOf(a.tier)
  /\ \A i \in 1..Len(scenario.tiers) : \A j \in 0..(VMsOf(i) - 1) :
       Cardinality(Named(vms, scenario.tiers[i].name, j))
         = Cardinality(Rounds(a, scenario.tiers[i].name, j))
  /\ \A k \in 1..Len(vms) : \E i \in 1..Len(scenario.tiers) : MadeFor(vms[k], i)
  /\ \A i \in 1..Len(scenario.tiers) :
       i < a.tier => ~ScaleRefused(scenario.tiers[i], Scale)

\* The overrides are read as far as they are, and before a build to the end.
OverridesRead ==
  /\ Reads(scaleOverrides, request.scale) /\ Reads(diskOverrides, request.disk)
  /\ stage \notin {"new", "loaded", "rejected"} => Parsed

OverridesInv ==
  /\ OverridesRead
  /\ stage \in {"counting", "planning", "planned"} => Tallied(at, plan.vms)
  /\ stage = "planned" => ~InLoop(at)

\* What Load makes of a tier.
LEMMA LoadedTiers ==
  ASSUME PlanTyped, stage \notin {"new", "rejected"}
  PROVE  /\ Len(scenario.tiers) \in Nat
         /\ DOMAIN request.file.tiers = 1..Len(scenario.tiers)
         /\ \A i \in 1..Len(scenario.tiers) :
              LET old == request.file.tiers[i]
                  new == scenario.tiers[i]
              IN /\ old \in Tiers /\ new \in Tiers
                 /\ new.name = old.name
                 /\ new.countMin = old.countMin /\ new.countMax = old.countMax
                 /\ new.count = (IF old.count > 0 THEN old.count ELSE 1)
                 /\ new.disk = (IF old.disk > 0 THEN old.disk ELSE 0)
<1> DEFINE file == request.file
           tiers == [i \in DOMAIN file.tiers |-> WithDefaults(file.tiers[i])]
<1>1. file \in ScenarioFiles /\ scenario = Load(file)
  BY VMPlanAssumption DEF PlanTyped
<1>2. /\ file.tiers \in Seq(Tiers) /\ DOMAIN file.tiers = 1..Len(file.tiers)
      /\ Len(file.tiers) \in Nat
      /\ \A i \in 1..Len(file.tiers) : file.tiers[i] \in Tiers
  BY <1>1 DEF ScenarioFiles
<1>3. scenario.tiers \in Seq(Tiers)
  BY LoadedScenario DEF ScenarioFiles
<1>4. scenario.tiers = tiers
  BY <1>1 DEF Load, ScenarioFiles
<1>5. Len(scenario.tiers) = Len(file.tiers)
  BY <1>2, <1>3, <1>4
<1>6. ASSUME NEW t \in Tiers
      PROVE  /\ WithDefaults(t).name = t.name
             /\ WithDefaults(t).countMin = t.countMin /\ WithDefaults(t).countMax = t.countMax
             /\ WithDefaults(t).count = (IF t.count > 0 THEN t.count ELSE 1)
             /\ WithDefaults(t).disk = (IF t.disk > 0 THEN t.disk ELSE 0)
  BY DEF WithDefaults, Tiers
<1>7. \A i \in 1..Len(file.tiers) : scenario.tiers[i] = WithDefaults(file.tiers[i])
  BY <1>2, <1>4
<1>8. \A i \in 1..Len(file.tiers) : scenario.tiers[i] \in Tiers
  BY <1>3, <1>5
<1> QED
  BY <1>2, <1>5, <1>6, <1>7, <1>8

\* What a tier gets is what the request asks for.
LEMMA GetsAsked ==
  ASSUME PlanTyped, OverridesRead, Parsed, stage \notin {"new", "rejected"},
         NEW i \in 1..Len(scenario.tiers)
  PROVE  /\ VMsOf(i) = AskedVMs(i) /\ DiskOf(i) = AskedDisk(i)
         /\ VMsOf(i) \in Nat /\ VMsOf(i) > 0
         /\ scenario.tiers[i].name \in DOMAIN Scale
              <=> Given(request.scale, scenario.tiers[i].name) # {}
<1> DEFINE old == request.file.tiers[i]
           new == scenario.tiers[i]
<1>1. request.scale \in Seq(Parts) /\ request.disk \in Seq(Parts)
  BY VMPlanAssumption DEF PlanTyped
<1>2. /\ scaleOverrides.parts = Len(request.scale) /\ Reads(scaleOverrides, request.scale)
      /\ diskOverrides.parts = Len(request.disk) /\ Reads(diskOverrides, request.disk)
  BY DEF OverridesRead, Parsed, ScaleParsed
<1>3. /\ new.name = old.name /\ new \in Tiers
      /\ new.count = (IF old.count > 0 THEN old.count ELSE 1)
      /\ new.disk = (IF old.disk > 0 THEN old.disk ELSE 0)
  BY LoadedTiers
<1>4. new.count \in Int /\ new.count > 0
  BY LoadedScenario, <1>3 DEF Tiers
<1> HIDE DEF old, new
<1>5. /\ new.name \in DOMAIN Scale <=> Given(request.scale, new.name) # {}
      /\ Get(Scale, new.name, new.count) = Asked(request.scale, new.name, new.count)
      /\ new.name \in DOMAIN Scale => Scale[new.name] \in Int /\ Scale[new.name] > 0
  <2>1. Get(Scale, new.name, new.count) = Asked(request.scale, new.name, new.count)
    BY <1>1, <1>2, AskedIs DEF Scale
  <2>2. new.name \in DOMAIN Scale <=> Given(request.scale, new.name) # {}
    BY <1>1, <1>2, AskedIs DEF Scale
  <2>3. new.name \in DOMAIN Scale => Scale[new.name] \in Int /\ Scale[new.name] > 0
    BY <1>1, <1>2, AskedIs DEF Scale
  <2> QED
    BY <2>1, <2>2, <2>3
<1>6. Get(Disks, new.name, new.disk) = Asked(request.disk, new.name, new.disk)
  BY <1>1, <1>2, AskedIs DEF Disks
<1>7. Get(Scale, new.name, new.count) \in Int /\ Get(Scale, new.name, new.count) > 0
  BY <1>4, <1>5 DEF Get
<1>8. VMsOf(i) = Get(Scale, new.name, new.count) /\ DiskOf(i) = Get(Disks, new.name, new.disk)
  BY DEF VMsOf, DiskOf, new
<1>9. /\ AskedVMs(i) = Asked(request.scale, old.name, IF old.count > 0 THEN old.count ELSE 1)
      /\ AskedDisk(i) = Asked(request.disk, old.name, IF old.disk > 0 THEN old.disk ELSE 0)
  BY DEF AskedVMs, AskedDisk, old
<1>10. VMsOf(i) = AskedVMs(i) /\ DiskOf(i) = AskedDisk(i)
  BY <1>3, <1>5, <1>6, <1>8, <1>9
<1>11. VMsOf(i) \in Nat /\ VMsOf(i) > 0
  BY <1>7, <1>8
<1> QED
  BY <1>5, <1>10, <1>11 DEF new

\* A tally stays one.
LEMMA TallyKept ==
  ASSUME UNCHANGED <<scenario, overrides>>
  PROVE  \A a, vms : Tallied(a, vms)' <=> Tallied(a, vms)
<1>1. Scale' = Scale /\ Disks' = Disks /\ scenario' = scenario
  BY DEF Scale, Disks, overrides
<1>2. \A i : VMsOf(i)' = VMsOf(i) /\ DiskOf(i)' = DiskOf(i)
  BY <1>1 DEF VMsOf, DiskOf
<1>3. \A a, t, j : Rounds(a, t, j)' = Rounds(a, t, j)
  BY <1>1, <1>2 DEF Rounds
<1>4. \A vm, i : MadeFor(vm, i)' <=> MadeFor(vm, i)
  BY <1>1, <1>2 DEF MadeFor
<1> QED
  BY <1>1, <1>2, <1>3, <1>4 DEF Tallied, InLoop

\* A build begins with nothing.
LEMMA TallyBegins ==
  ASSUME PlanTyped, OverridesRead, Parsed, stage \notin {"new", "rejected"}
  PROVE  Tallied(FirstRound, <<>>)
<1>1. FirstRound.tier = 1 /\ FirstRound.vm = 0 /\ Len(scenario.tiers) \in Nat
  BY LoadedTiers DEF FirstRound
<1>2. InLoop(FirstRound) => 0 <= VMsOf(1)
  <2>1. InLoop(FirstRound) => 1 \in 1..Len(scenario.tiers)
    BY <1>1 DEF InLoop
  <2> QED
    BY <2>1, GetsAsked
<1>3. ASSUME NEW i \in 1..Len(scenario.tiers), NEW j \in 0..(VMsOf(i) - 1)
      PROVE  Cardinality(Named(<<>>, scenario.tiers[i].name, j))
               = Cardinality(Rounds(FirstRound, scenario.tiers[i].name, j))
  <2>1. Named(<<>>, scenario.tiers[i].name, j) = {}
    BY DEF Named
  <2>2. j \in Nat
    BY GetsAsked
  <2>3. Rounds(FirstRound, scenario.tiers[i].name, j) = {}
    BY <1>1, <2>2 DEF Rounds, Before
  <2> QED
    BY <2>1, <2>3
<1> QED
  BY <1>1, <1>2, <1>3 DEF Tallied

\* A round adds its VM to the ones of its name, and its tier to the ones that have
\* made one.
LEMMA TallyGrows ==
  ASSUME PlanTyped, OverridesRead, Building, InLoop(at), MoreVMs(at), Tallied(at, plan.vms),
         NEW S, plan.vms \in Seq(S), NEW e \in S, NEW a,
         a = [tier |-> at.tier, vm |-> at.vm + 1],
         e.tier = scenario.tiers[at.tier].name,
         e.name = <<scenario.tiers[at.tier].name, at.vm>>,
         e.disk = DiskOf(at.tier)
  PROVE  Tallied(a, Append(plan.vms, e))
<1> DEFINE vms == plan.vms
           more == Append(vms, e)
           n == Len(vms) + 1
           own == scenario.tiers[at.tier].name
<1>1. /\ Len(more) = n /\ Len(vms) \in Nat /\ more[n] = e
      /\ \A k \in 1..Len(vms) : more[k] = vms[k]
  BY Appended
<1>2. /\ at.tier \in 1..Len(scenario.tiers) /\ at.vm \in Nat /\ Len(scenario.tiers) \in Nat
      /\ stage \notin {"new", "rejected"} /\ Parsed
  BY LoadedTiers DEF PlanTyped, OverridesRead, Places, InLoop, Building
<1>3. at.vm < VMsOf(at.tier) /\ VMsOf(at.tier) \in Nat
  BY <1>2, GetsAsked DEF MoreVMs, VMsOf
<1>n. n = Len(vms) + 1
  OBVIOUS
<1>o. own = scenario.tiers[at.tier].name /\ vms = plan.vms
  OBVIOUS
<1> HIDE DEF more, n, own, vms
<1>4. InLoop(a) => a.vm <= VMsOf(a.tier)
  BY <1>2, <1>3
<1>5. \A i \in 1..Len(scenario.tiers) :
        i < a.tier => ~ScaleRefused(scenario.tiers[i], Scale)
  BY DEF Tallied
<1>6. \A k \in 1..Len(more) : \E i \in 1..Len(scenario.tiers) : MadeFor(more[k], i)
  <2> SUFFICES ASSUME NEW k \in 1..Len(more)
               PROVE  \E i \in 1..Len(scenario.tiers) : MadeFor(more[k], i)
    OBVIOUS
  <2>1. CASE k = n
    <3>1. at.vm \in 0..(VMsOf(at.tier) - 1)
      BY <1>2, <1>3
    <3>2. MadeFor(e, at.tier)
      BY <3>1 DEF MadeFor
    <3> QED
      BY <1>1, <1>2, <2>1, <3>2
  <2>2. CASE k # n
    <3>1. k \in 1..Len(vms) /\ more[k] = vms[k]
      BY <1>1, <1>n, <2>2
    <3> QED
      BY <3>1, <1>o DEF Tallied
  <2> QED
    BY <2>1, <2>2
<1>7. ASSUME NEW i \in 1..Len(scenario.tiers), NEW j \in 0..(VMsOf(i) - 1)
      PROVE  Cardinality(Named(more, scenario.tiers[i].name, j))
               = Cardinality(Rounds(a, scenario.tiers[i].name, j))
  <2> DEFINE t == scenario.tiers[i].name
             named == Named(vms, t, j)
             rounds == Rounds(at, t, j)
  <2>1. Cardinality(named) = Cardinality(rounds) /\ j \in Nat
    BY <1>2, <1>o, GetsAsked DEF Tallied
  <2>2. /\ IsFiniteSet(named) /\ n \notin named
        /\ IsFiniteSet(rounds) /\ (j = at.vm => at.tier \notin rounds)
    <3>1. IsFiniteSet(1..Len(vms)) /\ IsFiniteSet(1..Len(scenario.tiers))
      <4>1. 1 \in Int /\ Len(vms) \in Int /\ Len(scenario.tiers) \in Int
        BY <1>1, <1>2
      <4> QED
        BY <4>1, FS_Interval
    <3>2. IsFiniteSet(named)
      <4>1. named \subseteq 1..Len(vms)
        BY DEF Named
      <4> QED
        BY <3>1, <4>1, FS_Subset
    <3>3. IsFiniteSet(rounds)
      <4>1. rounds \subseteq 1..Len(scenario.tiers)
        BY DEF Rounds
      <4> QED
        BY <3>1, <4>1, FS_Subset
    <3>4. n \notin named
      <4>1. n \notin 1..Len(vms)
        BY <1>1, <1>n
      <4> QED
        BY <4>1 DEF Named
    <3>5. j = at.vm => at.tier \notin rounds
      <4>1. j = at.vm => ~Before(at, at.tier, j)
        BY <1>2 DEF Before
      <4> QED
        BY <4>1 DEF Rounds
    <3> QED
      BY <3>2, <3>3, <3>4, <3>5
  <2>3. CASE t = own /\ j = at.vm
    <3>1. Named(more, t, j) = named \cup {n}
      <4>1. n \in Named(more, t, j)
        BY <1>1, <1>n, <1>o, <2>3 DEF Named
      <4>2. \A k \in 1..Len(vms) : k \in Named(more, t, j) <=> k \in named
        BY <1>1, <1>n DEF Named
      <4>3. \A k \in Named(more, t, j) : k = n \/ k \in 1..Len(vms)
        BY <1>1, <1>n DEF Named
      <4>4. named \subseteq 1..Len(vms)
        BY DEF Named
      <4> HIDE DEF named, t
      <4> QED
        BY <4>1, <4>2, <4>3, <4>4
    <3>2. Rounds(a, t, j) = rounds \cup {at.tier}
      <4>1. at.tier \in Rounds(a, t, j)
        BY <1>2, <1>3, <1>o, <2>3 DEF Rounds, Before
      <4>2. \A k \in 1..Len(scenario.tiers) : k # at.tier =>
              (k \in Rounds(a, t, j) <=> k \in rounds)
        BY <1>2 DEF Rounds, Before
      <4>3. rounds \subseteq 1..Len(scenario.tiers) /\ Rounds(a, t, j) \subseteq 1..Len(scenario.tiers)
        BY DEF Rounds
      <4> HIDE DEF rounds, t
      <4> QED
        BY <4>1, <4>2, <4>3
    <3> HIDE DEF named, rounds, t
    <3>3. /\ Cardinality(named \cup {n}) = Cardinality(named) + 1
          /\ Cardinality(rounds \cup {at.tier}) = Cardinality(rounds) + 1
      BY <2>2, <2>3, FS_AddElement
    <3> QED
      BY <2>1, <3>1, <3>2, <3>3 DEF t
  <2>4. CASE ~(t = own /\ j = at.vm)
    <3>1. Named(more, t, j) = named
      <4>1. n \notin Named(more, t, j)
        BY <1>1, <1>o, <2>4 DEF Named
      <4>2. \A k \in 1..Len(vms) : k \in Named(more, t, j) <=> k \in named
        BY <1>1, <1>n DEF Named
      <4>3. \A k \in Named(more, t, j) : k = n \/ k \in 1..Len(vms)
        BY <1>1, <1>n DEF Named
      <4>4. named \subseteq 1..Len(vms)
        BY DEF Named
      <4> HIDE DEF named, t
      <4> QED
        BY <4>1, <4>2, <4>3, <4>4
    <3>2. Rounds(a, t, j) = rounds
      <4>1. \A k \in 1..Len(scenario.tiers) : k \in Rounds(a, t, j) <=> k \in rounds
        <5> SUFFICES ASSUME NEW k \in 1..Len(scenario.tiers), scenario.tiers[k].name = t
                     PROVE  Before(a, k, j) <=> Before(at, k, j)
          BY DEF Rounds
        <5>1. CASE k = at.tier
          <6>1. j # at.vm
            BY <1>o, <2>4, <5>1
          <6> QED
            BY <1>2, <2>1, <5>1, <6>1 DEF Before
        <5>2. CASE k # at.tier
          BY <5>2 DEF Before
        <5> QED
          BY <5>1, <5>2
      <4>3. rounds \subseteq 1..Len(scenario.tiers) /\ Rounds(a, t, j) \subseteq 1..Len(scenario.tiers)
        BY DEF Rounds
      <4> HIDE DEF rounds, t
      <4> QED
        BY <4>1, <4>3
    <3> QED
      BY <2>1, <3>1, <3>2
  <2> QED
    BY <2>3, <2>4
<1>8. Tallied(a, more)
  BY <1>4, <1>5, <1>6, <1>7 DEF Tallied
<1> QED
  BY <1>8 DEF more, vms

\* The next tier: the rounds of the one before are all over.
LEMMA TallyNext ==
  ASSUME PlanTyped, OverridesRead, Building, InLoop(at), ~Refuses(at), ~MoreVMs(at),
         Tallied(at, plan.vms), NEW a, a = [tier |-> at.tier + 1, vm |-> 0]
  PROVE  Tallied(a, plan.vms)
<1>1. /\ at.tier \in 1..Len(scenario.tiers) /\ at.vm \in Nat /\ Len(scenario.tiers) \in Nat
      /\ stage \notin {"new", "rejected"} /\ Parsed
  BY LoadedTiers DEF PlanTyped, OverridesRead, Places, InLoop, Building
<1>2. at.vm = VMsOf(at.tier)
  <2>1. at.vm <= VMsOf(at.tier)
    BY DEF Tallied
  <2>2. ~(at.vm < VMsOf(at.tier)) /\ VMsOf(at.tier) \in Nat
    BY <1>1, GetsAsked DEF MoreVMs, VMsOf
  <2> QED
    BY <1>1, <2>1, <2>2
<1>3. InLoop(a) => a.vm <= VMsOf(a.tier)
  <2>1. InLoop(a) => a.tier \in 1..Len(scenario.tiers)
    BY <1>1 DEF InLoop
  <2>2. InLoop(a) => VMsOf(a.tier) \in Nat
    BY <1>1, <2>1, GetsAsked
  <2> QED
    BY <2>2
<1>4. \A i \in 1..Len(scenario.tiers) :
        i < a.tier => ~ScaleRefused(scenario.tiers[i], Scale)
  <2> SUFFICES ASSUME NEW i \in 1..Len(scenario.tiers), i < a.tier
               PROVE  ~ScaleRefused(scenario.tiers[i], Scale)
    OBVIOUS
  <2>1. i = at.tier \/ i < at.tier
    BY <1>1
  <2> QED
    BY <2>1 DEF Refuses, Tallied
<1>5. ASSUME NEW i \in 1..Len(scenario.tiers), NEW j \in 0..(VMsOf(i) - 1)
      PROVE  Rounds(a, scenario.tiers[i].name, j) = Rounds(at, scenario.tiers[i].name, j)
  <2>1. j \in Nat
    BY <1>1, GetsAsked
  <2>2. \A k \in 1..Len(scenario.tiers) :
          j < VMsOf(k) => (Before(a, k, j) <=> Before(at, k, j))
    <3> SUFFICES ASSUME NEW k \in 1..Len(scenario.tiers), j < VMsOf(k)
                 PROVE  Before(a, k, j) <=> Before(at, k, j)
      OBVIOUS
    <3>1. CASE k = at.tier
      BY <1>1, <1>2, <2>1, <3>1 DEF Before
    <3>2. CASE k # at.tier
      BY <1>1, <2>1, <3>2 DEF Before
    <3> QED
      BY <3>1, <3>2
  <2> QED
    BY <2>2 DEF Rounds
<1> QED
  BY <1>3, <1>4, <1>5 DEF Tallied

\* Every step on the way to the plan keeps the tally.
LEMMA OverridesStep == ASSUME PlanInv, OverridesInv, PlanNext PROVE OverridesInv'
<1>1. /\ request \in Requests /\ request.scale \in Seq(Parts) /\ request.disk \in Seq(Parts)
      /\ UNCHANGED request /\ PlanTyped /\ PlanTyped' /\ OverridesRead
  BY PlanStep, VMPlanAssumption
     DEF PlanInv, PlanTyped, OverridesInv, PlanNext, LoadScenario, ParseScaleOverrides,
         ParseDiskOverrides, CountVMs, AllocateVMIDs, NewRunner, BuildVMPlan, RefuseScale,
         PlanVM, NextTier, ReturnPlan
<1>2. CASE ParseScaleOverrides \/ ParseDiskOverrides
  <2>1. Reads(scaleOverrides', request.scale) /\ Reads(diskOverrides', request.disk)
    BY <1>1, <1>2, PartRead DEF OverridesRead, ParseScaleOverrides, ParseDiskOverrides
  <2>2. stage' = "loaded"
    BY <1>2 DEF ParseScaleOverrides, ParseDiskOverrides
  <2> QED
    BY <1>1, <2>1, <2>2 DEF OverridesInv, OverridesRead
<1>3. CASE ~(ParseScaleOverrides \/ ParseDiskOverrides)
  <2>1. /\ UNCHANGED overrides
        /\ stage' \notin {"new", "loaded", "rejected"} =>
             /\ UNCHANGED scenario
             /\ \/ stage \notin {"new", "loaded", "rejected"}
                \/ stage = "loaded" /\ Parsed
    BY <1>3 DEF PlanNext, LoadScenario, CountVMs, AllocateVMIDs, NewRunner, BuildVMPlan,
                RefuseScale, PlanVM, NextTier, ReturnPlan, Build, Building
  <2>2. OverridesRead'
    BY <1>1, <2>1 DEF OverridesRead, Parsed, ScaleParsed, overrides
  <2>3. CASE stage' \notin {"counting", "planning", "planned"}
    BY <2>2, <2>3 DEF OverridesInv
  <2>4. CASE stage' \in {"counting", "planning", "planned"}
    <3>1. /\ UNCHANGED <<scenario, overrides>>
          /\ \/ CountVMs \/ NewRunner
             \/ PlanVM \/ NextTier \/ ReturnPlan
      BY <1>3, <2>1, <2>4 DEF PlanNext, LoadScenario, AllocateVMIDs, BuildVMPlan, RefuseScale
    <3>2. Tallied(at, plan.vms)' <=> Tallied(at', plan'.vms)
      BY <3>1, TallyKept
    <3>3. CASE CountVMs \/ NewRunner
      <4>1. /\ stage \in {"loaded", "allocated"} /\ Parsed
            /\ at' = FirstRound /\ plan' = NoPlan /\ stage' \in {"counting", "planning"}
        BY <1>1, <3>3 DEF CountVMs, NewRunner, Build, OverridesRead
      <4>2. Tallied(FirstRound, <<>>)
        BY <1>1, <4>1, TallyBegins
      <4>3. Tallied(at, plan.vms)'
        BY <3>2, <4>1, <4>2, NoPlanMaps
      <4> QED
        BY <2>2, <4>1, <4>3 DEF OverridesInv
    <3>4. CASE PlanVM
      <4> DEFINE tier == scenario.tiers[at.tier]
                 disk == Get(Disks, tier.name, tier.disk)
                 e == Entry(plan, tier, at.vm, disk, vmIDs)
      <4>1. /\ Building /\ InLoop(at) /\ MoreVMs(at) /\ stage' = stage
            /\ plan' = AddVM(plan, tier, at.vm, disk, vmIDs)
            /\ at' = [at EXCEPT !.vm = @ + 1] /\ at \in Places
        BY <1>1, <3>4 DEF PlanVM, PlanTyped
      <4>2. at' = [tier |-> at.tier, vm |-> at.vm + 1]
        BY <4>1 DEF Places
      <4>3. plan.vms \in Seq(VMEntries) /\ e \in VMEntries /\ Tallied(at, plan.vms)
        BY <1>1, <4>1, NextEntry DEF PlanTyped, OverridesInv, Building
      <4>4. e.tier = tier.name /\ e.name = <<tier.name, at.vm>> /\ e.disk = DiskOf(at.tier)
        BY DEF Entry, DiskOf
      <4>5. plan'.vms = Append(plan.vms, e)
        BY <4>1 DEF AddVM, Entry
      <4> HIDE DEF e
      <4>6. Tallied(at', Append(plan.vms, e))
        BY <1>1, <4>1, <4>2, <4>3, <4>4, TallyGrows
      <4> QED
        BY <2>2, <3>2, <4>1, <4>5, <4>6 DEF OverridesInv, Building
    <3>5. CASE NextTier
      <4>1. /\ Building /\ InLoop(at) /\ ~Refuses(at) /\ ~MoreVMs(at) /\ stage' = stage
            /\ at' = [tier |-> at.tier + 1, vm |-> 0] /\ plan' = plan
        BY <3>5 DEF NextTier
      <4>2. Tallied(at', plan.vms)
        BY <1>1, <4>1, TallyNext DEF OverridesInv, Building
      <4> QED
        BY <2>2, <3>2, <4>1, <4>2 DEF OverridesInv, Building
    <3>6. CASE ReturnPlan
      BY <2>2, <3>1, <3>2, <3>6 DEF ReturnPlan, OverridesInv, Building, InLoop
    <3> QED
      BY <3>1, <3>3, <3>4, <3>5, <3>6
  <2> QED
    BY <2>3, <2>4
<1> QED
  BY <1>2, <1>3

\* While a scenario is monitored nothing of this changes.
LEMMA OverridesStay ==
  ASSUME OverridesInv, UNCHANGED <<request, scenario, overrides, vmIDs, plan, at>>,
         \/ stage' = stage
         \/ stage = "planned" /\ stage' = "monitored"
  PROVE  OverridesInv'
<1>1. OverridesRead'
  BY DEF OverridesInv, OverridesRead, Parsed, ScaleParsed, overrides
<1>2. Tallied(at, plan.vms)' <=> Tallied(at, plan.vms)
  BY TallyKept
<1> QED
  BY <1>1, <1>2 DEF OverridesInv, InLoop

\* A plan whose loops have ended is what the request asks for.
LEMMA PlannedAsAsked == ASSUME PlanInv, OverridesInv PROVE OverridesHonoured
<1> SUFFICES ASSUME stage = "planned" PROVE OverridesHonoured
  BY DEF OverridesHonoured
<1> DEFINE N == Len(scenario.tiers)
           file == request.file.tiers
<1>1. /\ PlanTyped /\ OverridesRead /\ Parsed /\ Tallied(at, plan.vms)
      /\ stage \notin {"new", "rejected"}
  BY DEF PlanInv, OverridesInv, OverridesRead
<1>2. /\ N \in Nat /\ DOMAIN file = 1..N
      /\ \A i \in 1..N : /\ scenario.tiers[i].name = file[i].name
                         /\ scenario.tiers[i].countMin = file[i].countMin
                         /\ scenario.tiers[i].countMax = file[i].countMax
                         /\ file[i] \in Tiers
  BY <1>1, LoadedTiers
<1>3. at.tier \in Nat /\ \A i \in 1..N : i < at.tier
  BY <1>1, <1>2 DEF OverridesInv, InLoop, PlanTyped, Places
<1>4. DOMAIN plan.vms = 1..Len(plan.vms)
  BY <1>1 DEF PlanTyped
<1>5. \A i \in 1..N : /\ VMsOf(i) = AskedVMs(i) /\ DiskOf(i) = AskedDisk(i) /\ VMsOf(i) \in Nat
                      /\ scenario.tiers[i].name \in DOMAIN Scale
                           <=> Given(request.scale, scenario.tiers[i].name) # {}
  BY <1>1, GetsAsked
<1>6. ASSUME NEW i \in DOMAIN file, NEW j \in 0..(AskedVMs(i) - 1)
      PROVE  Cardinality({k \in DOMAIN plan.vms : plan.vms[k].name = <<file[i].name, j>>})
               = Cardinality(Asking(<<file[i].name, j>>))
  <2>1. i \in 1..N /\ j \in 0..(VMsOf(i) - 1) /\ j \in Nat /\ file[i].name = scenario.tiers[i].name
    BY <1>2, <1>5
  <2>2. Named(plan.vms, file[i].name, j)
          = {k \in DOMAIN plan.vms : plan.vms[k].name = <<file[i].name, j>>}
    BY <1>4 DEF Named
  <2>3. \A k \in 1..N : j < VMsOf(k) <=> j \in 0..(AskedVMs(k) - 1)
    BY <1>5, <2>1
  <2>4. Rounds(at, file[i].name, j) = Asking(<<file[i].name, j>>)
    BY <1>2, <1>3, <2>3 DEF Rounds, Asking, Before
  <2> QED
    BY <1>1, <2>1, <2>2, <2>4 DEF Tallied
<1>7. ASSUME NEW i \in DOMAIN file, Given(request.scale, file[i].name) # {}
      PROVE  /\ file[i].countMin > 0 => AskedVMs(i) >= file[i].countMin
             /\ file[i].countMax > 0 => AskedVMs(i) <= file[i].countMax
  <2> DEFINE tier == scenario.tiers[i]
  <2>1. /\ i \in 1..N /\ tier.name = file[i].name /\ tier.name \in DOMAIN Scale
        /\ tier.countMin = file[i].countMin /\ tier.countMax = file[i].countMax
        /\ file[i].countMin \in Int /\ file[i].countMax \in Int
    BY <1>2, <1>5, <1>7 DEF Tiers
  <2>2. ~ScaleRefused(tier, Scale) /\ Scale[tier.name] = AskedVMs(i) /\ AskedVMs(i) \in Nat
    BY <1>1, <1>3, <1>5, <2>1 DEF Tallied, VMsOf, Get
  <2> HIDE DEF tier
  <2> QED
    BY <2>1, <2>2 DEF ScaleRefused
<1>8. ASSUME NEW k \in DOMAIN plan.vms
      PROVE  /\ plan.vms[k].tier = plan.vms[k].name[1]
             /\ \E i \in Asking(plan.vms[k].name) : plan.vms[k].disk = AskedDisk(i)
  <2>1. PICK i \in 1..N : MadeFor(plan.vms[k], i)
    BY <1>1, <1>4 DEF Tallied
  <2>2. /\ plan.vms[k].tier = file[i].name /\ plan.vms[k].name[1] = file[i].name
        /\ plan.vms[k].name[2] \in 0..(AskedVMs(i) - 1) /\ plan.vms[k].disk = AskedDisk(i)
    BY <1>2, <1>5, <2>1 DEF MadeFor
  <2>3. i \in Asking(plan.vms[k].name)
    BY <1>2, <2>2 DEF Asking
  <2> QED
    BY <2>2, <2>3
<1> QED
  BY <1>6, <1>7, <1>8 DEF OverridesHonoured

\* Every tier of the file has a VM in the plan, and a list of them in ByTier; so no
\* plan is empty and no target that gives a tier of the file is left unresolved.
TiersPlanned ==
  stage = "planned" =>
    /\ plan.vms # <<>>
    /\ \A i \in DOMAIN request.file.tiers :
         LET name == request.file.tiers[i].name
         IN /\ \E k \in DOMAIN plan.vms : plan.vms[k].name = <<name, 0>>
            /\ \A t \in FaultTargets :
                 t.vm = <<>> /\ t.tier = name => ~Unresolved(t, plan)

\* A tier asks for at least one VM, and the plan has as many as are asked for.
LEMMA PlannedTiers == ASSUME PlanInv, OverridesInv PROVE TiersPlanned
<1> SUFFICES ASSUME stage = "planned" PROVE TiersPlanned
  BY DEF TiersPlanned
<1> DEFINE N == Len(scenario.tiers)
           file == request.file.tiers
           named(i) == {k \in DOMAIN plan.vms : plan.vms[k].name = <<file[i].name, 0>>}
<1>1. /\ PlanTyped /\ OverridesRead /\ Parsed /\ TierMap(plan)
      /\ stage \notin {"new", "rejected"}
  BY DEF PlanInv, OverridesInv, OverridesRead, Mapped
<1>2. N \in Nat /\ DOMAIN file = 1..N
  BY <1>1, LoadedTiers
<1>3. N > 0
  <2>1. file # <<>> /\ file \in Seq(Tiers)
    BY <1>1, VMPlanAssumption DEF PlanTyped, Valid, ScenarioFiles
  <2> QED
    BY <1>2, <2>1
<1>4. DOMAIN plan.vms = 1..Len(plan.vms)
  BY <1>1 DEF PlanTyped
<1>5. ASSUME NEW i \in DOMAIN file
      PROVE  named(i) # {}
  <2>1. 0 \in 0..(AskedVMs(i) - 1)
    <3>1. AskedVMs(i) \in Nat /\ AskedVMs(i) > 0
      BY <1>1, <1>2, GetsAsked
    <3> QED
      BY <3>1
  <2>2. Cardinality(named(i)) = Cardinality(Asking(<<file[i].name, 0>>))
    BY <2>1, PlannedAsAsked DEF OverridesHonoured
  <2>3. i \in Asking(<<file[i].name, 0>>)
    BY <2>1 DEF Asking
  <2>4. IsFiniteSet(Asking(<<file[i].name, 0>>))
    <3>1. IsFiniteSet(1..N)
      BY <1>2, FS_Interval
    <3>2. Asking(<<file[i].name, 0>>) \subseteq 1..N
      BY <1>2 DEF Asking
    <3> QED
      BY <3>1, <3>2, FS_Subset
  <2>5. Cardinality(Asking(<<file[i].name, 0>>)) # 0
    BY <2>3, <2>4, FS_EmptySet
  <2> QED
    BY <2>2, <2>5, FS_EmptySet
<1>6. ASSUME NEW i \in DOMAIN file, NEW t \in FaultTargets, t.vm = <<>>, t.tier = file[i].name
      PROVE  ~Unresolved(t, plan)
  <2>1. PICK k \in 1..Len(plan.vms) : plan.vms[k].name = <<file[i].name, 0>>
    BY <1>4, <1>5
  <2>2. plan.vms[k].tier = file[i].name
    BY <1>4, <2>1, PlannedAsAsked DEF OverridesHonoured
  <2>3. file[i].name \in DOMAIN plan.byTier
    BY <1>1, <2>2 DEF TierMap
  <2> QED
    BY <1>6, <2>3 DEF Unresolved
<1>7. \A i \in DOMAIN file : \E k \in DOMAIN plan.vms : plan.vms[k].name = <<file[i].name, 0>>
  BY <1>5
<1>8. plan.vms # <<>>
  <2>1. PICK k \in DOMAIN plan.vms : plan.vms[k].name = <<file[1].name, 0>>
    <3>1. 1 \in DOMAIN file
      BY <1>2, <1>3
    <3> QED
      BY <1>7, <3>1
  <2> QED
    BY <1>4, <2>1
<1> HIDE DEF file, named
<1> QED
  BY <1>6, <1>7, <1>8 DEF TiersPlanned, file
=============================================================================
