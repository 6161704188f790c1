----------------------------- MODULE Objectives -----------------------------
(***************************************************************************)
(* How a run finds out that its scenario is solved: the poll loop of Run,  *)
(* checkAllObjectives, checkObjective and evalCondition of                 *)
(* scenario/runner.go, on the plan VMPlan made, and what the agent on a VM *)
(* tells it (agent/metrics.go).                                            *)
(*                                                                         *)
(* A check reads one thing of one VM: "http", the status a page has, a     *)
(* metric or a service.  Faults and the trainee change these things at any *)
(* time, between the checks of one poll too.  Only the things an objective *)
(* reads are kept.  A request to a VM is one step, that of its answer or   *)
(* error; http.Get has no timeout, so that the step may never come.        *)
(***************************************************************************)
EXTENDS VMPlan

VARIABLES
  level,      \* the level of every thing that is checked, by VM ID and name
  poll,       \* the objective being checked and the targets left of it
  solved,     \* done is closed
  met         \* the objectives and VMs that were as asked when this poll, or the
              \* last one, checked them (history)

objectiveVars == <<level, poll, solved, met>>
vars == <<planVars, objectiveVars>>

Unreadable == -1     \* a metric whose source the agent cannot read
KnownMetrics == {"cpu_pct", "mem_used_pct", "disk_used_pct", "disk_free_mb", "load_avg_1"}
ListedServices == {"ssh", "sshd", "nginx", "apache2", "mysql", "postgresql", "postgres",
                   "redis", "redis-server", "app-server", "celery", "onfire-agent"}

\* The levels of a thing: a page answers 200, 500 or not at all, a metric is below,
\* at or above the threshold 1, an agent and a service run or do not.
LevelsOf(what) ==
  IF what = "http" THEN {0, 200, 500}
  ELSE IF what \in KnownMetrics THEN {Unreadable, 0, 1, 2}
  ELSE {0, 1}

Idle == [objective |-> 0, left |-> <<>>]

-----------------------------------------------------------------------------
(***************************************************************************)
(* The agent's answers.                                                    *)
(***************************************************************************)

\* collectMetrics: a source that cannot be read leaves the 0 of a new Metrics, and
\* readCPUPercent returns 0 in any case.
Reported(metric, value) ==
  IF metric = "cpu_pct" \/ value = Unreadable THEN 0 ELSE value

-----------------------------------------------------------------------------
(***************************************************************************)
(* The checks.                                                             *)
(***************************************************************************)

EvalCondition(value, condition) ==
  \/ condition.op = "<" /\ value < condition.threshold
  \/ condition.op = ">" /\ value > condition.threshold

\* Plausible slip: a status that is not given stays 0.
WantGiven(check) == check.status

Want(check) == IF check.status = 0 THEN 200 ELSE check.status

\* The body of checkObjective's loop for the VM with this ID.  The agent answers
\* nothing while it is down, and lists the services it knows; a check of any other
\* type, file-exists included, passes.
Passes(check, id) ==
  \/ check.type = "http" /\ level[<<id, "http">>] # 0 /\ level[<<id, "http">>] = Want(check)
  \/ /\ check.type = "agent-metric" /\ level[<<id, "agent">>] = 1
     /\ check.what \in KnownMetrics
     /\ EvalCondition(Reported(check.what, level[<<id, check.what>>]), check.condition)
  \/ /\ check.type = "process-running" /\ level[<<id, "agent">>] = 1
     /\ check.what \in ListedServices /\ level[<<id, check.what>>] = 1
  \/ check.type \notin {"http", "agent-metric", "process-running"}

\* The VM with this ID is now as the objective asks, in the words of the README and
\* of scenario/types.go: the page has the status, the metric satisfies the
\* condition, the service is active, the file exists.
Met(check, id) ==
  LET now == level[<<id, check.what>>]
  IN /\ check.type = "http" => now = IF check.status > 0 THEN check.status ELSE 200
     /\ check.type = "agent-metric" => EvalCondition(now, check.condition)
     /\ check.type \in {"process-running", "file-exists"} => now = 1

\* What the code does not see and goes on as if it were as asked: files, cpu_pct
\* and a metric that cannot be read, reported as 0.
Unseen(check, id) ==
  \/ check.type = "file-exists"
  \/ /\ check.type = "agent-metric"
     /\ check.what = "cpu_pct" \/ level[<<id, check.what>>] = Unreadable

\* The poll that goes on with objective i, or has ended because its target is not
\* known.
Begin(i) ==
  LET target == scenario.objectives[i].target
  IN IF Unresolved(target, plan) THEN Idle
     ELSE [objective |-> i, left |-> ResolveTargets(target, plan)]

\* What the objectives read of the VMs of the plan, and the agents they ask.
Things ==
  UNION {LET check == scenario.objectives[i]
         IN {plan.vms[p].index : p \in Range(ResolveTargets(check.target, plan))}
              \X (IF check.type \in {"agent-metric", "process-running"}
                  THEN {check.what, "agent"} ELSE {check.what})
           : i \in {j \in DOMAIN scenario.objectives :
                      ~Unresolved(scenario.objectives[j].target, plan)}}

-----------------------------------------------------------------------------
(***************************************************************************)
(* The run.                                                                *)
(***************************************************************************)

Init ==
  /\ PlanInit
  /\ level = EmptyMap
  /\ poll = Idle
  /\ solved = FALSE
  /\ met = {}

Plan == PlanNext /\ UNCHANGED objectiveVars

\* The VMs are up, with nothing running on them yet, and the poll goroutine starts
\* (how it comes to that is ScenarioRun's).
StartMonitoring ==
  /\ stage = "planned"
  /\ stage' = "monitored"
  /\ level' = [t \in Things |-> 0]
  /\ UNCHANGED <<request, scenario, overrides, vmIDs, plan, at, poll, solved, met>>

\* A fault, the provisioning or the trainee changes a VM.
Change(t, value) ==
  /\ stage = "monitored" /\ ~solved
  /\ level' = [level EXCEPT ![t] = value]
  /\ level' # level
  /\ UNCHANGED <<planVars, poll, solved, met>>

\* The ticker fires and checkAllObjectives begins.  With no objectives it returns
\* false at once.
Tick ==
  /\ stage = "monitored" /\ ~solved /\ poll = Idle
  /\ scenario.objectives # <<>>
  /\ poll' = Begin(1)
  /\ met' = {}
  /\ UNCHANGED <<planVars, level, solved>>

\* Plausible slip: one VM that passes is enough.
AdvanceAny ==
  IF poll.objective < Len(scenario.objectives) THEN Begin(poll.objective + 1) ELSE Idle

\* The poll after a check that passed: the next target, the next objective or the end.
Advance ==
  IF Len(poll.left) > 1 THEN [poll EXCEPT !.left = Tail(@)]
  ELSE IF poll.objective < Len(scenario.objectives) THEN Begin(poll.objective + 1)
  ELSE Idle

\* checkObjective looks at one target; done is closed after the last one of the
\* last objective, and the first check that fails ends the poll.
CheckTarget ==
  /\ poll # Idle
  /\ LET check == scenario.objectives[poll.objective]
         id == plan.vms[Head(poll.left)].index
     IN IF Passes(check, id)
        THEN /\ poll' = Advance
             /\ solved' = (/\ poll.objective = Len(scenario.objectives)
                           /\ poll' = Idle)
             /\ met' = IF Met(check, id) \/ Unseen(check, id)
                       THEN met \cup {<<poll.objective, Head(poll.left)>>} ELSE met
        ELSE poll' = Idle /\ UNCHANGED <<solved, met>>
  /\ UNCHANGED <<planVars, level>>

Monitor == Tick \/ CheckTarget

Next ==
  \/ Plan
  \/ StartMonitoring
  \/ \E t \in DOMAIN level : \E value \in LevelsOf(t[2]) : Change(t, value)
  \/ Monitor

\* The request's steps are taken and the ticker goes on.  That a check ends is not
\* assumed.
Fairness == WF_vars(Plan) /\ WF_vars(StartMonitoring) /\ WF_vars(Tick)

Spec == Init /\ [][Next]_vars /\ Fairness

-----------------------------------------------------------------------------
(***************************************************************************)
(* Properties.                                                             *)
(***************************************************************************)

\* The state has its shape: IDs are natural numbers, a tier that was loaded has
\* VMs, every position in the plan's maps and in the poll is one of plan.VMs.
TypeOK ==
  /\ request \in Requests
  /\ stage \in Stages
  /\ \A i \in DOMAIN scenario.tiers : scenario.tiers[i].count > 0
  /\ \A i \in DOMAIN vmIDs : vmIDs[i] \in IDs
  /\ \A i \in DOMAIN plan.vms : plan.vms[i].index \in Nat
  /\ \A name \in DOMAIN plan.byName : plan.byName[name] \in DOMAIN plan.vms
  /\ \A t \in DOMAIN level : level[t] \in LevelsOf(t[2])
  /\ poll # Idle => poll.objective \in DOMAIN scenario.objectives
  /\ Range(poll.left) \subseteq DOMAIN plan.vms
  /\ solved \in BOOLEAN
  /\ \A m \in met : m[1] \in DOMAIN scenario.objectives /\ m[2] \in DOMAIN plan.vms

Objectives == Range(scenario.objectives)

\* A run is not solved before its objectives are met: for each of them there are
\* VMs it may mean and each of these was as asked when the last poll looked at it,
\* however VMs changed between the checks, and whatever they are like since.  It
\* says nothing of what the code does not see (Unseen), nor of the time for which
\* an objective "must pass" (its window): the code looks once.
SolvedMeansMet ==
  solved =>
    /\ Objectives # {}
    /\ \A i \in DOMAIN scenario.objectives :
         \E S \in Meant(scenario.objectives[i].target) :
           S # {} /\ \A p \in S : <<i, p>> \in met

\* The VMs an objective may mean.
MeantIDs(check) == {plan.vms[i].index : i \in UNION Meant(check.target)}

\* An objective the code can see met: its VMs exist and their agents answer, the
\* metric is one that is reported and the service is listed.
Visible(check) ==
  /\ MeantIDs(check) # {}
  /\ check.type \in {"agent-metric", "process-running"} =>
       \A id \in MeantIDs(check) : level[<<id, "agent">>] = 1
  /\ check.type = "agent-metric" =>
       /\ check.what \in KnownMetrics \ {"cpu_pct"}
       /\ \A id \in MeantIDs(check) : level[<<id, check.what>>] # Unreadable
  /\ check.type = "process-running" => check.what \in ListedServices

AllMet ==
  /\ stage = "monitored" /\ Objectives # {}
  /\ \A check \in Objectives :
       Visible(check) /\ \A id \in MeantIDs(check) : Met(check, id)

\* Every check ends, with an answer or an error of the VM.
ChecksEnd == WF_vars(CheckTarget)

\* Once all VMs are, and stay, as the objectives ask, the run is solved if its
\* checks end, whatever a poll that was under way had seen before.
RepairedIsSolved == ChecksEnd => (<>[]AllMet => <>solved)
=============================================================================
