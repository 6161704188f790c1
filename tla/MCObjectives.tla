---------------------------- MODULE MCObjectives ----------------------------
(***************************************************************************)
(* Scenario files and overrides that take every way through the parser and *)
(* the plan, with a few objectives each.                                   *)
(***************************************************************************)
EXTENDS Objectives

Tier(name, count, min, max) ==
  [name |-> name, count |-> count, countMin |-> min, countMax |-> max, disk |-> -1]

VM(tier, j) == [vm |-> <<tier, j>>, tier |-> "", select |-> <<"", 0>>]
Of(tier, word, n) == [vm |-> <<>>, tier |-> tier, select |-> <<word, n>>]

Page(target, status) ==
  [type |-> "http", target |-> target, what |-> "http", status |-> status,
   condition |-> [op |-> "", threshold |-> 0], window |-> 0]
Metric(target, metric, op) ==
  [type |-> "agent-metric", target |-> target, what |-> metric, status |-> 0,
   condition |-> [op |-> op, threshold |-> 1], window |-> 0]
Service(target, name) ==
  [type |-> "process-running", target |-> target, what |-> name, status |-> 0,
   condition |-> [op |-> "", threshold |-> 0], window |-> 0]
FileExists(target) == [Service(target, "file") EXCEPT !.type = "file-exists"]

File(tiers, faults, objectives) ==
  [titled |-> TRUE, tiers |-> tiers, faults |-> faults, objectives |-> objectives]
Fault(target) == [id |-> TRUE, target |-> target]

\* A web tier that may be scaled and a db tier.
TwoTiers == <<Tier("web", 0, 0, 2), Tier("db", 1, 1, 0)>>
Faults == {Fault(VM("db", 0)), Fault(Of("web", "random", 1)), Fault(Of("web", "all", 0))}

Files == {
  \* What validate refuses.
  [File(TwoTiers, {}, <<>>) EXCEPT !.titled = FALSE],
  File(<<>>, {}, <<>>),
  File(<<Tier("", 1, 0, 0)>>, {}, <<>>),
  File(TwoTiers, {Fault(Of("", "", 0))}, <<>>),
  \* The checks, for one VM, a tier, its first VM; no objectives, or a target nobody has.
  File(TwoTiers, Faults, <<Page(Of("web", "", 0), 0), Service(VM("db", 0), "postgresql")>>),
  File(TwoTiers, Faults, <<Metric(Of("web", "random", 2), "disk_used_pct", "<")>>),
  File(TwoTiers, Faults, <<Metric(Of("db", "primary", 0), "disk_free_mb", ">"),
                           Page(VM("web", 1), 500)>>),
  File(TwoTiers, Faults, <<FileExists(VM("web", 0)), Metric(Of("db", "", 0), "cpu_pct", "<")>>),
  File(TwoTiers, Faults, <<Service(VM("db", 0), "docker")>>),
  File(TwoTiers, Faults, <<Metric(VM("db", 0), "load_avg_1", "about")>>),
  File(TwoTiers, Faults, <<[Page(VM("web", 0), 200) EXCEPT !.window = 5],
                           Page(Of("cache", "", 0), 0)>>),
  File(TwoTiers, Faults, <<>>),
  \* Two tiers of one name.
  File(<<Tier("web", 1, 0, 0), [Tier("web", 2, 0, 0) EXCEPT !.disk = 3]>>, {Fault(VM("web", 0))},
       <<Page(Of("web", "all", 0), 0)>>)}

Scales == {<<>>, <<<<"web", 2>>>>, <<<<"web", 3>>>>, <<<<"web", 2>>, <<"web", 0>>, <<"db", 1>>>>,
           <<<<"web", 2>>, <<"web", 1>>>>, <<<<"cache", 2>>>>}

\* A tier that has more VMs than random(N) asks for.
Large == File(<<Tier("web", 4, 0, 0)>>, {Fault(Of("web", "random", 3)), Fault(Of("web", "random", 0))},
              <<[Page(Of("web", "random", 2), 0) EXCEPT !.window = 5]>>)

MCRequests ==
  [file : Files, scale : Scales, disk : {<<<<"db", 2>>, <<"db", 1>>, <<"db", -1>>>>}, api : BOOLEAN]
    \cup [file : {Large}, scale : {<<>>}, disk : {<<>>}, api : BOOLEAN]
MCIDs == {1, 3, 4, 6}
=============================================================================
