-------------------------- MODULE ObjectivesProofs --------------------------
(***************************************************************************)
(* Proofs about Objectives, and the plan it polls, for any scenario files  *)
(* and overrides and any free IDs.                                         *)
(*                                                                         *)
(* A poll knows of every target that it either was as asked when the poll  *)
(* looked at it or is still to be checked.                                 *)
(***************************************************************************)
EXTENDS Objectives, VMPlanProofs

-----------------------------------------------------------------------------
(***************************************************************************)
(* The poll.                                                               *)
(***************************************************************************)

TargetOf(i) == scenario.objectives[i].target

\* The positions of objective i.
PositionsOf(i) == Range(ResolveTargets(TargetOf(i), plan))

\* Objective i was met on all of its VMs when the poll looked at them.
AllMetOn(i) ==
  /\ ~Unresolved(TargetOf(i), plan)
  /\ \A p \in PositionsOf(i) : <<i, p>> \in met

\* The things that are kept, and their levels.
Levels ==
  /\ DOMAIN level = IF stage = "monitored" THEN Things ELSE {}
  /\ \A t \in DOMAIN level : level[t] \in LevelsOf(t[2])

\* The poll under way: the objectives before this one were met, and of this one
\* every target that is not left.
Seen ==
  /\ \A i \in 1..(poll.objective - 1) : AllMetOn(i)
  /\ Range(poll.left) \subseteq PositionsOf(poll.objective)
  /\ \A p \in PositionsOf(poll.objective) :
       p \in Range(poll.left) \/ <<poll.objective, p>> \in met

Polled ==
  /\ solved \in BOOLEAN
  /\ poll # Idle \/ solved \/ met # {} => stage = "monitored"
  /\ \A m \in met : m[1] \in 1..Len(scenario.objectives) /\ m[2] \in DOMAIN plan.vms
  /\ solved => poll = Idle
  /\ poll # Idle =>
       /\ poll \in [objective : 1..Len(scenario.objectives), left : Seq(DOMAIN plan.vms)]
       /\ poll.left # <<>> /\ ~Unresolved(TargetOf(poll.objective), plan)
       /\ Seen
  /\ solved =>
       scenario.objectives # <<>> /\ \A i \in 1..Len(scenario.objectives) : AllMetOn(i)

\* The inductive invariant.
ObjectivesInv == PlanInv /\ OverridesInv /\ Levels /\ Polled

\* The objectives of a scenario that is monitored.
LEMMA MonitoredObjectives ==
  ASSUME PlanInv, stage = "monitored"
  PROVE  /\ scenario.objectives \in Seq(Checks)
         /\ Len(scenario.objectives) \in Nat
         /\ DOMAIN scenario.objectives = 1..Len(scenario.objectives)
         /\ \A i \in 1..Len(scenario.objectives) :
              /\ scenario.objectives[i] \in Checks
              /\ scenario.objectives[i].type = "http" => scenario.objectives[i].what = "http"
<1>1. PlanTyped /\ stage \notin {"new", "rejected"} /\ request \in Requests
  BY DEF PlanInv, PlanTyped
<1>2. scenario.objectives = request.file.objectives /\ scenario \in ScenarioFiles
  BY <1>1, LoadedScenario
<1>3. scenario.objectives \in Seq(Checks)
  BY <1>2 DEF ScenarioFiles
<1>4. \A i \in DOMAIN scenario.objectives :
        scenario.objectives[i].type = "http" => scenario.objectives[i].what = "http"
  BY <1>1, <1>2, VMPlanAssumption
<1> QED
  BY <1>3, <1>4

\* The targets stay while the plan does.
LEMMA PositionsKept ==
  ASSUME UNCHANGED <<scenario, plan>>
  PROVE  /\ \A i : TargetOf(i)' = TargetOf(i) /\ PositionsOf(i)' = PositionsOf(i)
         /\ \A i : Unresolved(TargetOf(i), plan)' <=> Unresolved(TargetOf(i), plan)
         /\ met \subseteq met' => \A i : AllMetOn(i) => AllMetOn(i)'
<1>1. \A i : TargetOf(i)' = TargetOf(i)
  BY DEF TargetOf
<1>2. \A i : PositionsOf(i)' = PositionsOf(i)
  BY <1>1 DEF PositionsOf
<1>3. \A i : Unresolved(TargetOf(i), plan)' <=> Unresolved(TargetOf(i), plan)
  BY <1>1
<1> QED
  BY <1>1, <1>2, <1>3 DEF AllMetOn

\* The poll goes on to an objective, or ends.
LEMMA Begins ==
  ASSUME PlanInv, stage = "monitored", NEW i \in 1..Len(scenario.objectives)
  PROVE  \/ Begin(i) = Idle
         \/ /\ Begin(i) \in [objective : 1..Len(scenario.objectives), left : Seq(DOMAIN plan.vms)]
            /\ Begin(i).objective = i /\ Begin(i).left # <<>>
            /\ ~Unresolved(TargetOf(i), plan)
            /\ Begin(i).left = ResolveTargets(TargetOf(i), plan)
<1>1. CASE Unresolved(TargetOf(i), plan)
  BY <1>1 DEF Begin, TargetOf
<1>2. CASE ~Unresolved(TargetOf(i), plan)
  <2>1. /\ ResolveTargets(TargetOf(i), plan) \in Seq(DOMAIN plan.vms)
        /\ ResolveTargets(TargetOf(i), plan) # <<>>
    BY <1>2, ResolvesToCandidates
  <2>2. Begin(i) = [objective |-> i, left |-> ResolveTargets(TargetOf(i), plan)]
    BY <1>2 DEF Begin, TargetOf
  <2> QED
    BY <1>2, <2>1, <2>2
<1> QED
  BY <1>1, <1>2

\* The levels of all things keep their types.
LEMMA LevelStep == ASSUME ObjectivesInv, [Next]_vars PROVE Levels'
<1>1. ASSUME UNCHANGED <<scenario, plan>> PROVE Things' = Things
  BY <1>1 DEF Things
<1>2. \A what : 0 \in LevelsOf(what)
  BY DEF LevelsOf
<1>3. CASE PlanNext
  <2>1. stage # "monitored" /\ stage' # "monitored"
    BY <1>3 DEF PlanNext, BuildVMPlan, LoadScenario, ParseScaleOverrides,
       ParseDiskOverrides, CountVMs, AllocateVMIDs, NewRunner, Build,
       RefuseScale, PlanVM, NextTier, ReturnPlan, Building
  <2>2. UNCHANGED level
    BY <1>3, <2>1 DEF Next, Plan, objectiveVars, StartMonitoring, PlanNext, BuildVMPlan, LoadScenario,
       CountVMs, AllocateVMIDs, NewRunner, Build, RefuseScale, PlanVM, NextTier, ReturnPlan, Building,
       Change, Monitor, Tick, CheckTarget, vars
  <2> QED
    BY <2>1, <2>2 DEF ObjectivesInv, Levels
<1>4. CASE StartMonitoring
  BY <1>1, <1>2, <1>4 DEF StartMonitoring, Levels
<1>5. ASSUME NEW t \in DOMAIN level, NEW value \in LevelsOf(t[2]), Change(t, value)
      PROVE  Levels'
  <2>1. /\ UNCHANGED <<scenario, plan, stage>> /\ level' = [level EXCEPT ![t] = value]
    BY <1>5 DEF Change, planVars
  <2> QED
    BY <1>1, <1>5, <2>1 DEF ObjectivesInv, Levels
<1>6. CASE Monitor \/ UNCHANGED vars
  <2>1. UNCHANGED <<scenario, plan, stage, level>>
    BY <1>6 DEF Monitor, Tick, CheckTarget, vars, planVars, objectiveVars
  <2> QED
    BY <1>1, <2>1 DEF ObjectivesInv, Levels
<1> QED
  BY <1>3, <1>4, <1>5, <1>6 DEF Next, Plan

\* Nothing is polled before the scenario is monitored.
LEMMA NotPolled ==
  ASSUME Polled, stage # "monitored", UNCHANGED <<poll, solved, met>>
  PROVE  Polled'
<1>1. poll' = Idle /\ solved' = FALSE /\ met' = {}
  BY DEF Polled
<1> QED
  BY <1>1 DEF Polled

\* The poll begins.
LEMMA TickStep == ASSUME ObjectivesInv, Tick PROVE Polled'
<1>1. /\ stage = "monitored" /\ ~solved /\ scenario.objectives # <<>>
      /\ poll' = Begin(1) /\ met' = {} /\ UNCHANGED <<planVars, level, solved>>
  BY DEF Tick
<1>2. UNCHANGED <<stage, scenario, plan>>
  BY <1>1 DEF planVars
<1>3. solved' = FALSE /\ stage' = "monitored"
  BY <1>1, <1>2 DEF ObjectivesInv, Polled
<1>4. 1 \in 1..Len(scenario.objectives)
  BY <1>1, MonitoredObjectives DEF ObjectivesInv
<1>5. CASE poll' = Idle
  BY <1>1, <1>3, <1>5 DEF Polled
<1>6. CASE poll' # Idle
  <2>1. /\ poll' \in [objective : 1..Len(scenario.objectives), left : Seq(DOMAIN plan.vms)]
        /\ poll'.objective = 1 /\ poll'.left # <<>> /\ ~Unresolved(TargetOf(1), plan)
        /\ poll'.left = ResolveTargets(TargetOf(1), plan)
    BY <1>1, <1>4, <1>6, Begins DEF ObjectivesInv
  <2>2. /\ TargetOf(1)' = TargetOf(1) /\ PositionsOf(1)' = PositionsOf(1)
        /\ PositionsOf(1) = Range(poll'.left)
    BY <1>2, <2>1, PositionsKept DEF PositionsOf
  <2>3. Seen'
    BY <2>1, <2>2 DEF Seen
  <2> QED
    BY <1>1, <1>2, <1>3, <2>1, <2>2, <2>3 DEF Polled
<1> QED
  BY <1>5, <1>6

\* The first element of a list, and the others.
LEMMA HeadAndTail ==
  ASSUME NEW S, NEW s \in Seq(S), s # <<>>
  PROVE  /\ Len(s) \in Nat /\ Len(s) >= 1 /\ Head(s) \in S
         /\ Len(s) > 1 => /\ Tail(s) \in Seq(S) /\ Tail(s) # <<>>
                          /\ \A x \in Range(s) : x = Head(s) \/ x \in Range(Tail(s))
                          /\ Range(Tail(s)) \subseteq Range(s)
         /\ Head(s) \in Range(s)
         /\ Len(s) <= 1 => \A x \in Range(s) : x = Head(s)
<1>1. Len(s) \in Nat /\ Len(s) >= 1 /\ Head(s) \in S /\ DOMAIN s = 1..Len(s)
  OBVIOUS
<1>2. ASSUME Len(s) > 1, NEW x \in Range(s), x # Head(s) PROVE x \in Range(Tail(s))
  <2>1. PICK i \in 1..Len(s) : s[i] = x
    BY <1>1, <1>2 DEF Range
  <2>2. i # 1 /\ Tail(s) \in Seq(S) /\ Len(Tail(s)) = Len(s) - 1
    BY <1>2, <2>1
  <2>3. i - 1 \in 1..Len(Tail(s)) /\ Tail(s)[i - 1] = s[i]
    BY <1>1, <2>2
  <2>4. i - 1 \in DOMAIN Tail(s)
    BY <2>2, <2>3
  <2> QED
    BY <2>1, <2>3, <2>4 DEF Range
<1>3. ASSUME Len(s) > 1 PROVE Tail(s) \in Seq(S) /\ Tail(s) # <<>>
  <2>1. Tail(s) \in Seq(S) /\ Len(Tail(s)) = Len(s) - 1
    BY <1>3
  <2>2. Len(Tail(s)) # 0
    BY <1>1, <1>3, <2>1
  <2> QED
    BY <2>1, <2>2
<1>4. ASSUME Len(s) <= 1, NEW x \in Range(s) PROVE x = Head(s)
  BY <1>1, <1>4 DEF Range
<1>5. Head(s) \in Range(s)
  BY <1>1 DEF Range
<1>6. ASSUME Len(s) > 1, NEW x \in Range(Tail(s)) PROVE x \in Range(s)
  <2>1. PICK i \in DOMAIN Tail(s) : Tail(s)[i] = x
    BY <1>6 DEF Range
  <2>2. Tail(s) \in Seq(S) /\ Len(Tail(s)) = Len(s) - 1
    BY <1>6
  <2>3. i \in 1..(Len(s) - 1)
    BY <2>1, <2>2
  <2>4. i + 1 \in DOMAIN s /\ s[i + 1] = x
    BY <1>1, <2>1, <2>2, <2>3
  <2> QED
    BY <2>4 DEF Range
<1> QED
  BY <1>1, <1>2, <1>3, <1>4, <1>5, <1>6

\* What a check finds is what the objective asks, but for what it does not see.
LEMMA PassesMet ==
  ASSUME NEW check \in Checks, NEW id, Passes(check, id), ~Unseen(check, id),
         check.type = "http" => check.what = "http" /\ level[<<id, "http">>] \in {0, 200, 500}
  PROVE  Met(check, id)
<1>1. CASE check.type = "http"
  <2>1. check.status \in Int /\ level[<<id, "http">>] # 0 /\ level[<<id, "http">>] = Want(check)
    BY <1>1 DEF Passes, Checks
  <2>2. level[<<id, "http">>] = IF check.status > 0 THEN check.status ELSE 200
    BY <1>1, <2>1 DEF Want
  <2> QED
    BY <1>1, <2>2 DEF Met
<1>2. CASE check.type = "agent-metric"
  BY <1>2 DEF Passes, Met, Reported, Unseen
<1>3. CASE check.type = "process-running"
  BY <1>3 DEF Passes, Met
<1>4. CASE check.type \notin {"http", "agent-metric", "process-running"}
  BY <1>4 DEF Met, Unseen
<1> QED
  BY <1>1, <1>2, <1>3, <1>4

\* The levels a page has on a VM of an objective.
LEMMA PageLevels ==
  ASSUME ObjectivesInv, stage = "monitored",
         NEW i \in 1..Len(scenario.objectives), NEW p \in PositionsOf(i),
         ~Unresolved(TargetOf(i), plan), scenario.objectives[i].type = "http"
  PROVE  /\ scenario.objectives[i].what = "http"
         /\ level[<<plan.vms[p].index, "http">>] \in {0, 200, 500}
<1> DEFINE check == scenario.objectives[i]
           read == {plan.vms[q].index : q \in Range(ResolveTargets(check.target, plan))}
                     \X (IF check.type \in {"agent-metric", "process-running"}
                         THEN {check.what, "agent"} ELSE {check.what})
<1>1. check.what = "http" /\ DOMAIN scenario.objectives = 1..Len(scenario.objectives)
  BY MonitoredObjectives DEF ObjectivesInv
<1>2. <<plan.vms[p].index, "http">> \in read
  BY <1>1 DEF PositionsOf, TargetOf
<1>3. i \in {j \in DOMAIN scenario.objectives : ~Unresolved(scenario.objectives[j].target, plan)}
  BY <1>1 DEF TargetOf
<1>4. <<plan.vms[p].index, "http">> \in Things
  BY <1>2, <1>3 DEF Things
<1>5. level[<<plan.vms[p].index, "http">>] \in LevelsOf("http")
  BY <1>4 DEF ObjectivesInv, Levels
<1> QED
  BY <1>1, <1>5 DEF LevelsOf

\* One target is checked.
LEMMA CheckStep == ASSUME ObjectivesInv, CheckTarget PROVE Polled'
<1> DEFINE o == poll.objective
           h == Head(poll.left)
           check == scenario.objectives[o]
           id == plan.vms[h].index
<1>1. poll # Idle /\ UNCHANGED <<planVars, level>>
  BY DEF CheckTarget
<1>2. UNCHANGED <<stage, scenario, plan>>
  BY <1>1 DEF planVars
<1>3. /\ stage = "monitored" /\ solved = FALSE
      /\ poll \in [objective : 1..Len(scenario.objectives), left : Seq(DOMAIN plan.vms)]
      /\ poll.left # <<>> /\ ~Unresolved(TargetOf(o), plan)
      /\ Seen
      /\ \A m \in met : m[1] \in 1..Len(scenario.objectives) /\ m[2] \in DOMAIN plan.vms
  BY <1>1 DEF ObjectivesInv, Polled
<1>4. Len(scenario.objectives) \in Nat /\ o \in 1..Len(scenario.objectives)
  BY <1>3, MonitoredObjectives DEF ObjectivesInv
<1>5. poll.left \in Seq(DOMAIN plan.vms) /\ h \in DOMAIN plan.vms /\ h \in Range(poll.left)
  BY <1>3, HeadAndTail
<1>6. /\ \A i : TargetOf(i)' = TargetOf(i) /\ PositionsOf(i)' = PositionsOf(i)
      /\ \A i : Unresolved(TargetOf(i), plan)' <=> Unresolved(TargetOf(i), plan)
      /\ met \subseteq met' => \A i : AllMetOn(i) => AllMetOn(i)'
  BY <1>2, PositionsKept
<1>7. CASE ~Passes(check, id)
  <2>1. poll' = Idle /\ solved' = FALSE /\ met' = met
    BY <1>3, <1>7 DEF CheckTarget
  <2> QED
    BY <1>2, <1>3, <2>1 DEF Polled
<1>8. CASE Passes(check, id)
  <2>1. /\ poll' = Advance
        /\ solved' = (o = Len(scenario.objectives) /\ poll' = Idle)
        /\ met' = IF Met(check, id) \/ Unseen(check, id) THEN met \cup {<<o, h>>} ELSE met
    BY <1>8 DEF CheckTarget
  <2>a. Met(check, id) \/ Unseen(check, id)
    <3>1. check \in Checks /\ (check.type = "http" => check.what = "http")
      BY <1>3, <1>4, MonitoredObjectives DEF ObjectivesInv
    <3>2. h \in PositionsOf(o)
      BY <1>3, <1>5 DEF Seen
    <3>3. check.type = "http" => level[<<id, "http">>] \in {0, 200, 500}
      BY <1>3, <1>4, <3>2, PageLevels
    <3> QED
      BY <1>8, <3>1, <3>3, PassesMet
  <2>b. /\ met' = met \cup {<<o, h>>}
        /\ \A m \in met' : m[1] \in 1..Len(scenario.objectives) /\ m[2] \in DOMAIN plan.vms
        /\ \A i : AllMetOn(i) => AllMetOn(i)'
    BY <1>3, <1>4, <1>5, <1>6, <2>1, <2>a
  <2>2. CASE Len(poll.left) > 1
    <3>1. poll' = [poll EXCEPT !.left = Tail(poll.left)]
      BY <2>1, <2>2 DEF Advance
    <3>2. /\ Tail(poll.left) \in Seq(DOMAIN plan.vms) /\ Tail(poll.left) # <<>>
          /\ \A x \in Range(poll.left) : x = h \/ x \in Range(Tail(poll.left))
          /\ Range(Tail(poll.left)) \subseteq Range(poll.left)
      BY <1>3, <1>5, <2>2, HeadAndTail
    <3>3. /\ poll' \in [objective : 1..Len(scenario.objectives), left : Seq(DOMAIN plan.vms)]
          /\ poll'.objective = o /\ poll'.left = Tail(poll.left)
      BY <1>3, <3>1, <3>2
    <3>4. poll' # Idle
      BY <1>4, <3>3 DEF Idle
    <3>5. solved' = FALSE
      BY <2>1, <3>4
    <3>6. Seen'
      <4>1. \A i \in 1..(poll'.objective - 1) : AllMetOn(i)'
        BY <1>3, <2>b, <3>3 DEF Seen
      <4>2. \A p \in PositionsOf(o) : p \in Range(poll'.left) \/ <<o, p>> \in met'
        BY <1>3, <2>b, <3>2, <3>3 DEF Seen
      <4>3. Range(poll'.left) \subseteq PositionsOf(o)
        BY <1>3, <3>2, <3>3 DEF Seen
      <4> QED
        BY <1>6, <3>3, <4>1, <4>2, <4>3 DEF Seen
    <3> QED
      BY <1>2, <1>3, <1>6, <2>b, <3>2, <3>3, <3>5, <3>6 DEF Polled
  <2>3. CASE ~(Len(poll.left) > 1)
    <3>1. ASSUME NEW i \in 1..o PROVE AllMetOn(i)'
      <4>1. \A x \in Range(poll.left) : x = h
        BY <1>3, <1>5, <2>3, HeadAndTail
      <4>2. \A p \in PositionsOf(o) : <<o, p>> \in met'
        BY <1>3, <2>b, <4>1 DEF Seen
      <4>3. CASE i = o
        BY <1>3, <1>6, <4>2, <4>3 DEF AllMetOn
      <4>4. CASE i # o
        <5>1. i \in 1..(o - 1)
          BY <1>4, <4>4
        <5> QED
          BY <1>3, <2>b, <5>1 DEF Seen
      <4> QED
        BY <4>3, <4>4
    <3>2. CASE o = Len(scenario.objectives)
      <4>1. ~(o < Len(scenario.objectives))
        BY <1>4, <3>2
      <4>2. poll' = Idle
        BY <2>1, <2>3, <4>1 DEF Advance
      <4>3. solved' = TRUE
        BY <2>1, <3>2, <4>2
      <4>4. scenario.objectives # <<>>
        BY <1>4
      <4> QED
        BY <1>2, <1>3, <2>b, <3>1, <3>2, <4>2, <4>3, <4>4 DEF Polled
    <3>3. CASE o # Len(scenario.objectives)
      <4>1. poll' = Begin(o + 1) /\ o + 1 \in 1..Len(scenario.objectives) /\ solved' = FALSE
        <5>1. o < Len(scenario.objectives) /\ o + 1 \in 1..Len(scenario.objectives)
          BY <1>4, <3>3
        <5>2. poll' = Begin(o + 1)
          BY <2>1, <2>3, <5>1 DEF Advance
        <5> QED
          BY <2>1, <3>3, <5>1, <5>2
      <4>2. CASE poll' = Idle
        BY <1>2, <1>3, <2>b, <4>1, <4>2 DEF Polled
      <4>3. CASE poll' # Idle
        <5>1. /\ poll' \in [objective : 1..Len(scenario.objectives), left : Seq(DOMAIN plan.vms)]
              /\ poll'.objective = o + 1 /\ poll'.left # <<>>
              /\ ~Unresolved(TargetOf(o + 1), plan)
              /\ poll'.left = ResolveTargets(TargetOf(o + 1), plan)
          BY <1>3, <4>1, <4>3, Begins DEF ObjectivesInv
        <5>2. Seen'
          <6>1. \A i \in 1..(poll'.objective - 1) : AllMetOn(i)'
            BY <1>4, <3>1, <5>1
          <6>2. PositionsOf(o + 1) = Range(poll'.left)
            BY <5>1 DEF PositionsOf
          <6> QED
            BY <1>6, <5>1, <6>1, <6>2 DEF Seen
        <5> QED
          BY <1>2, <1>3, <1>6, <2>b, <4>1, <5>1, <5>2 DEF Polled
      <4> QED
        BY <4>2, <4>3
    <3> QED
      BY <3>2, <3>3
  <2> QED
    BY <2>2, <2>3
<1> QED
  BY <1>7, <1>8

\* What was seen stays seen, also when a VM changes.
LEMMA SeenKept ==
  ASSUME Polled, UNCHANGED <<stage, scenario, plan, poll, solved, met>>
  PROVE  Polled'
<1>1. /\ \A i : TargetOf(i)' = TargetOf(i) /\ PositionsOf(i)' = PositionsOf(i)
      /\ \A i : Unresolved(TargetOf(i), plan)' <=> Unresolved(TargetOf(i), plan)
      /\ \A i : AllMetOn(i) => AllMetOn(i)'
  BY PositionsKept
<1>2. Seen => Seen'
  BY <1>1 DEF Seen
<1> QED
  BY <1>1, <1>2 DEF Polled

\* Every step keeps what the poll knows.
LEMMA PolledStep == ASSUME ObjectivesInv, [Next]_vars PROVE Polled'
<1>1. CASE Plan \/ StartMonitoring
  <2>1. stage # "monitored" /\ UNCHANGED <<poll, solved, met>>
    BY <1>1 DEF Plan, PlanNext, BuildVMPlan, LoadScenario, ParseScaleOverrides,
       ParseDiskOverrides, CountVMs, AllocateVMIDs, NewRunner,
       RefuseScale, PlanVM, NextTier, ReturnPlan, Building, StartMonitoring, objectiveVars
  <2> QED
    BY <2>1, NotPolled DEF ObjectivesInv
<1>2. ASSUME UNCHANGED vars \/ \E t, value : Change(t, value) PROVE Polled'
  <2>1. UNCHANGED <<stage, scenario, plan, poll, solved, met>>
    BY <1>2 DEF vars, planVars, objectiveVars, Change
  <2> QED
    BY <2>1, SeenKept DEF ObjectivesInv
<1> QED
  BY <1>1, <1>2, TickStep, CheckStep DEF Next, Monitor

\* Every step keeps what is known of the plan.
LEMMA PlanKept ==
  ASSUME PlanInv, OverridesInv, [Next]_vars
  PROVE  PlanInv' /\ OverridesInv'
<1>1. CASE PlanNext
  BY <1>1, PlanStep, OverridesStep
<1>2. CASE ~PlanNext
  <2>1. /\ UNCHANGED <<request, scenario, overrides, vmIDs, plan, at>>
        /\ \/ stage' = stage
           \/ stage = "planned" /\ stage' = "monitored"
    BY <1>2 DEF Next, Plan, StartMonitoring, Change, Monitor, Tick, CheckTarget, vars, planVars
  <2> QED
    BY <2>1, PlanStays, OverridesStay
<1> QED
  BY <1>1, <1>2

\* The invariant holds in every state.
THEOREM ObjectivesInvHolds == Spec => []ObjectivesInv
<1>1. Init => ObjectivesInv
  <2> SUFFICES ASSUME Init PROVE ObjectivesInv
    OBVIOUS
  <2>1. /\ request \in Requests /\ stage = "new" /\ scenario = [tiers |-> <<>>] /\ vmIDs = <<>>
        /\ plan = NoPlan /\ at = FirstRound
        /\ scaleOverrides = NoOverrides /\ diskOverrides = NoOverrides
        /\ level = EmptyMap /\ poll = Idle /\ solved = FALSE /\ met = {}
    BY DEF Init, PlanInit
  <2>2. FirstRound \in Places
    BY DEF FirstRound, Places
  <2>3. PlanTyped
    BY <2>1, <2>2, NoPlanMaps DEF PlanTyped, Stages
  <2>4. Mapped /\ Agreeing
    BY <2>1, NoPlanMaps DEF Mapped, Agreeing
  <2>5. Levels /\ Polled
    BY <2>1 DEF Levels, Polled, EmptyMap
  <2>6. OverridesInv
    <3>1. request.scale \in Seq(Parts) /\ request.disk \in Seq(Parts)
      BY <2>1, VMPlanAssumption
    <3> QED
      BY <2>1, <3>1, NothingRead DEF OverridesInv, OverridesRead
  <2> QED
    BY <2>3, <2>4, <2>5, <2>6 DEF ObjectivesInv, PlanInv
<1>2. ObjectivesInv /\ [Next]_vars => ObjectivesInv'
  <2> SUFFICES ASSUME ObjectivesInv, [Next]_vars PROVE ObjectivesInv'
    OBVIOUS
  <2>1. PlanInv' /\ OverridesInv'
    BY PlanKept DEF ObjectivesInv
  <2>2. Levels'
    BY LevelStep
  <2>3. Polled'
    BY PolledStep
  <2> QED
    BY <2>1, <2>2, <2>3 DEF ObjectivesInv
<1> QED
  BY <1>1, <1>2, PTL DEF Spec

\* The runner of a scenario created through the API launches its VMs under the IDs
\* that were allocated for it, each once: the plan of NewRunner agrees with the one
\* createScenario counted, for any file, overrides and free IDs.
THEOREM AllocatedIDsAreUsed == Spec => []PlanUsesAllocatedIDs
<1>1. ObjectivesInv => PlanUsesAllocatedIDs
  BY PlannedIDs DEF ObjectivesInv
<1> QED
  BY <1>1, ObjectivesInvHolds, PTL

\* BuildVMPlan makes the VMs, with the disks, that the overrides and the file ask
\* for, whatever parts the overrides have, in which order, and however often a name
\* comes in them or in the file.
THEOREM OverridesAreHonoured == Spec => []OverridesHonoured
<1>1. ObjectivesInv => OverridesHonoured
  BY PlannedAsAsked DEF ObjectivesInv
<1> QED
  BY <1>1, ObjectivesInvHolds, PTL

\* BuildVMPlan makes a VM for every tier of a file that validate accepts, and so no
\* empty plan: what ScenarioRun assumes of the VMs of a run, and the reason that a
\* fault or a check for a tier of the file always finds a VM.
THEOREM EveryTierIsPlanned == Spec => []TiersPlanned
<1>1. ObjectivesInv => TiersPlanned
  BY PlannedTiers DEF ObjectivesInv
<1> QED
  BY <1>1, ObjectivesInvHolds, PTL

\* ResolveTargets leads every target of every file to VMs it may mean, and one that
\* asks for several VMs at random to a set that holds as many.
THEOREM TargetsAreMeant == Spec => []TargetsResolveToMeant
<1>1. ObjectivesInv => TargetsResolveToMeant
  BY PlannedTargets DEF ObjectivesInv
<1> QED
  BY <1>1, ObjectivesInvHolds, PTL

\* A run is solved only if every objective has VMs it may mean, each of which was as
\* asked when the last poll looked at it.
THEOREM SolvedIsMet == Spec => []SolvedMeansMet
<1>1. ObjectivesInv => SolvedMeansMet
  <2> SUFFICES ASSUME ObjectivesInv, solved PROVE SolvedMeansMet
    BY DEF SolvedMeansMet
  <2>1. /\ stage = "monitored" /\ PlanInv /\ scenario.objectives # <<>>
        /\ \A i \in 1..Len(scenario.objectives) : AllMetOn(i)
    BY DEF ObjectivesInv, Polled
  <2>2. /\ scenario.objectives \in Seq(Checks) /\ Len(scenario.objectives) \in Nat
        /\ DOMAIN scenario.objectives = 1..Len(scenario.objectives)
        /\ \A i \in 1..Len(scenario.objectives) : scenario.objectives[i] \in Checks
    BY <2>1, MonitoredObjectives
  <2>3. Objectives # {}
    <3>1. 1 \in DOMAIN scenario.objectives
      BY <2>1, <2>2
    <3> QED
      BY <3>1 DEF Objectives, Range
  <2>4. ASSUME NEW i \in 1..Len(scenario.objectives)
        PROVE  \E S \in Meant(TargetOf(i)) : S # {} /\ \A p \in S : <<i, p>> \in met
    <3>1. TargetOf(i) \in FaultTargets
      BY <2>2 DEF TargetOf, Checks
    <3>2. ~Unresolved(TargetOf(i), plan) /\ \A p \in PositionsOf(i) : <<i, p>> \in met
      BY <2>1 DEF AllMetOn
    <3> DEFINE t == TargetOf(i)
    <3> HIDE DEF t
    <3>3. PlanInv /\ t \in FaultTargets /\ ~Unresolved(t, plan)
      BY <2>1, <3>1, <3>2 DEF t
    <3>4. Candidates(t) # {}
      BY <3>3, ResolvesToCandidates
    <3>5. \E S \in Meant(t) : S # {} /\ S \subseteq Range(ResolveTargets(t, plan))
      BY <3>3, <3>4, ResolvesToMeant
    <3> QED
      BY <3>2, <3>5 DEF t, PositionsOf
  <2> QED
    BY <2>2, <2>3, <2>4 DEF SolvedMeansMet, TargetOf
<1> QED
  BY <1>1, ObjectivesInvHolds, PTL

\* The plan, its maps, the poll and what it reads keep their types.
THEOREM TypeCorrect == Spec => []TypeOK
<1>1. ObjectivesInv => TypeOK
  <2> SUFFICES ASSUME ObjectivesInv PROVE TypeOK
    OBVIOUS
  <2>1. PlanInv /\ PlanTyped /\ Mapped /\ Levels /\ Polled
    BY DEF ObjectivesInv, PlanInv
  <2>2. \A i \in DOMAIN scenario.tiers : scenario.tiers[i].count > 0
    <3>1. request.file \in ScenarioFiles
      BY <2>1, VMPlanAssumption DEF PlanTyped
    <3>2. Load(request.file).tiers \in Seq(Tiers)
      BY <3>1, LoadTyped DEF ScenarioFiles
    <3>3. CASE scenario = Load(request.file)
      BY <3>1, <3>2, <3>3, LoadTyped
    <3>4. CASE scenario = [tiers |-> <<>>]
      BY <3>4
    <3> QED
      BY <2>1, <3>3, <3>4 DEF PlanTyped
  <2>3. plan.vms \in Seq(VMEntries) /\ vmIDs \in Seq(IDs)
    BY <2>1 DEF PlanTyped
  <2>4. /\ \A i \in DOMAIN vmIDs : vmIDs[i] \in IDs
        /\ \A i \in DOMAIN plan.vms : plan.vms[i] \in VMEntries
        /\ DOMAIN plan.vms = 1..Len(plan.vms)
    BY <2>3
  <2>5. \A i \in DOMAIN plan.vms : plan.vms[i].index \in Nat
    BY <2>4 DEF VMEntries
  <2>6. \A name \in DOMAIN plan.byName : plan.byName[name] \in DOMAIN plan.vms
    BY <2>1, <2>4 DEF Mapped, NameMap
  <2>7. CASE poll = Idle
    <3>1. Range(poll.left) \subseteq DOMAIN plan.vms
      BY <2>7 DEF Idle, Range
    <3> QED
      BY <2>1, <2>2, <2>4, <2>5, <2>6, <2>7, <3>1 DEF TypeOK, PlanTyped, Levels, Polled
  <2>8. CASE poll # Idle
    <3>1. /\ poll \in [objective : 1..Len(scenario.objectives), left : Seq(DOMAIN plan.vms)]
          /\ DOMAIN scenario.objectives = 1..Len(scenario.objectives)
      BY <2>1, <2>8, MonitoredObjectives DEF Polled
    <3>2. poll.left \in Seq(DOMAIN plan.vms) /\ poll.objective \in DOMAIN scenario.objectives
      BY <3>1
    <3>3. Range(poll.left) \subseteq DOMAIN plan.vms
      BY <3>2 DEF Range
    <3> QED
      BY <2>1, <2>2, <2>4, <2>5, <2>6, <3>2, <3>3 DEF TypeOK, PlanTyped, Levels, Polled
  <2> QED
    BY <2>7, <2>8
<1> QED
  BY <1>1, ObjectivesInvHolds, PTL
=============================================================================
