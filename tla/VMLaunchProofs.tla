--------------------------- MODULE VMLaunchProofs ---------------------------
(***************************************************************************)
(* Proofs about VMLaunch for any number of launches, any VM IDs and any    *)
(* mix of the three pieces of code that launch VMs.                        *)
(*                                                                         *)
(* Two arguments carry the properties.  Whatever is on the host was made   *)
(* by a launch that has deferred its removal, or by one of the few whose   *)
(* failure or whose code leaves it there: this holds for contended         *)
(* launches too, as removing what another one made only helps.  And a      *)
(* launch that is not contended is the only live one of its ID, so that    *)
(* what it has made stays its own.                                         *)
(***************************************************************************)
EXTENDS VMLaunch, Integers, TLAPS

\* How far a launch has come determines what it is, what it has deferred and
\* whether it may have failed.
OnCourse ==
  \A v \in Launches :
    /\ pc[v] # "idle" => launch[v] \in Configs
    /\ pc[v] = "fresh" => launch[v].kind = "scenario"
    /\ pc[v] \in {"iso", "makeISO"} => launch[v].kind \in {"api", "cli"}
    /\ pc[v] \in {"start", "up"} => "stop" \in deferred[v]
    /\ failedAt[v] # "none" => pc[v] \in {"unwind", "ended"}

Made(v, i) == pc[v] # "idle" /\ launch[v].id = i

\* Who made what is on the host for an ID, and why it will go or why it stays.
AccountedAt(i) ==
  /\ socket[i] # NoVM => Made(socket[i], i) /\ "stop" \in deferred[socket[i]]
  /\ rootfs[i] # NoVM =>
       /\ Made(rootfs[i], i)
       /\ "rootfs" \in deferred[rootfs[i]] \/ failedAt[rootfs[i]] = "rootfs"
  /\ tap[i] # NoVM =>
       /\ Made(tap[i], i)
       /\ \/ "tap" \in deferred[tap[i]] \/ failedAt[tap[i]] = "tap"
          \/ launch[tap[i]].kind \in {"scenario", "cli"}
Accounted == \A i \in VMIDs : AccountedAt(i)

\* A live launch that is not contended is the only live one of its ID.
Alone(v) == Live(v) /\ v \notin contended
Exclusive ==
  \A v, w \in Launches : Alone(v) /\ Live(w) /\ launch[w].id = launch[v].id => w = v

\* The steps after EnsureTAP, after PrepareRootFS and after the ISO of a scenario.
TapReady(v) ==
  \/ pc[v] \in {"iso", "makeISO", "create", "start", "up"}
  \/ pc[v] = "rootfs" /\ launch[v].kind \in {"api", "scenario"}
RootFSReady(v) ==
  \/ pc[v] \in {"create", "start", "up"}
  \/ pc[v] \in {"tap", "iso", "makeISO"} /\ launch[v].kind = "cli"
FreshISO(v) == launch[v].kind = "scenario" /\ launch[v].base = "iso"

\* What an uncontended launch has made is its own.
OwnOf(v) ==
  /\ TapReady(v) => tap[launch[v].id] = v
  /\ RootFSReady(v) => rootfs[launch[v].id] = v
  /\ pc[v] = "up" => socket[launch[v].id] = v
  /\ FreshISO(v) /\ pc[v] \in {"tap", "rootfs", "create", "start"} => iso[launch[v].id] = v
  /\ FreshISO(v) /\ pc[v] = "up" => bootISO[v] = v
Own == \A v \in Launches : Alone(v) => OwnOf(v)

\* The inductive invariant.
LaunchInv == TypeOK /\ OnCourse /\ Accounted /\ Exclusive /\ Own

-----------------------------------------------------------------------------
(***************************************************************************)
(* Types and the course of a launch.                                       *)
(***************************************************************************)

\* A launch under way was given an ID and is of one of the three kinds.
LEMMA ConfigFields ==
  ASSUME OnCourse, NEW v \in Launches, pc[v] # "idle"
  PROVE  launch[v].id \in VMIDs /\ launch[v].kind \in Kinds /\ launch[v].base \in Bases
BY VMLaunchAssumption DEF OnCourse

\* The order of the steps in each of the three pieces of code.
LEMMA Course ==
  /\ Follow["api"] = [tap |-> "iso", iso |-> "rootfs", rootfs |-> "create", create |-> "start"]
  /\ Follow["scenario"] = [fresh |-> "tap", tap |-> "rootfs", rootfs |-> "create", create |-> "start"]
  /\ Follow["cli"] = [rootfs |-> "tap", tap |-> "iso", iso |-> "create", create |-> "start"]
BY DEF Follow

\* The step that follows is one of the set-up.
LEMMA NextStep ==
  ASSUME OnCourse, NEW v \in Launches
  PROVE  /\ pc[v] \in {"fresh", "tap", "iso", "rootfs", "create"} =>
              Follow[launch[v].kind][pc[v]] \in {"tap", "iso", "rootfs", "create", "start"}
         /\ pc[v] = "makeISO" => Follow[launch[v].kind].iso \in {"rootfs", "create"}
<1>1. pc[v] # "idle" => launch[v].kind \in Kinds
  BY ConfigFields
<1> QED
  BY <1>1, Course DEF OnCourse, Kinds

\* Every step of every launch keeps the types, and the clean-up a launch has
\* deferred is run before it ends.
LEMMA TypeStep == TypeOK /\ OnCourse /\ [Next]_vars => TypeOK'
<1> SUFFICES ASSUME TypeOK, OnCourse, [Next]_vars PROVE TypeOK'
  OBVIOUS
<1> USE VMLaunchAssumption DEF TypeOK, host, Maybe, PCs, Steps
<1>1. ASSUME NEW v \in Launches, NEW cfg \in Configs, Begin(v, cfg) PROVE TypeOK'
  <2>1. cfg.kind \in Kinds
    OBVIOUS
  <2>2. First[cfg.kind] \in {"tap", "fresh", "rootfs"}
    BY <2>1 DEF First, Kinds
  <2> QED
    BY <1>1, <2>2 DEF Begin, LiveOn
<1>2. ASSUME NEW v \in Launches, Cancel(v) PROVE TypeOK'
  BY <1>2 DEF Cancel, Live
<1>3. ASSUME NEW v \in Launches, GenerateISO(v) PROVE TypeOK'
  BY <1>3, ConfigFields, NextStep DEF GenerateISO, Proceed, Fail
<1>4. ASSUME NEW v \in Launches, SetupTAP(v) PROVE TypeOK'
  BY <1>4, ConfigFields, NextStep DEF SetupTAP, Proceed, Fail
<1>5. ASSUME NEW v \in Launches, StatISO(v) PROVE TypeOK'
  BY <1>5, ConfigFields, NextStep DEF StatISO, Proceed
<1>6. ASSUME NEW v \in Launches, MakeISO(v) PROVE TypeOK'
  BY <1>6, ConfigFields, NextStep DEF MakeISO, Fail
<1>7. ASSUME NEW v \in Launches, PrepareRootFS(v) PROVE TypeOK'
  BY <1>7, ConfigFields, NextStep DEF PrepareRootFS, Proceed, Fail
<1>8. ASSUME NEW v \in Launches, CreateMachine(v) PROVE TypeOK'
  <2>1. launch[v].id \in VMIDs
    BY <1>8, ConfigFields DEF CreateMachine
  <2>2. socket' \in [VMIDs -> Maybe(Launches)]
    BY <1>8, <2>1 DEF CreateMachine
  <2>3. /\ pc' \in [Launches -> PCs] /\ pc'[v] \notin {"idle", "ended"} /\ pc[v] = "create"
        /\ \A w \in Launches \ {v} : pc'[w] = pc[w]
    BY <1>8, NextStep DEF CreateMachine, Proceed, Fail
  <2>4. failedAt' \in [Launches -> Steps \cup {"none", "makeISO"}]
    BY <1>8 DEF CreateMachine, Proceed, Fail
  <2>5. /\ deferred' \in [Launches -> SUBSET {"stop", "rootfs", "tap"}]
        /\ \A w \in Launches \ {v} : deferred'[w] = deferred[w]
    BY <1>8 DEF CreateMachine
  <2> QED
    BY <1>8, <2>2, <2>3, <2>4, <2>5 DEF CreateMachine
<1>9. ASSUME NEW v \in Launches, StartMachine(v) PROVE TypeOK'
  <2>1. launch[v].id \in VMIDs
    BY <1>9, ConfigFields DEF StartMachine
  <2>2. ISOFile(v) \in Maybe(Launches) \cup {"given"}
    BY <2>1 DEF ISOFile
  <2>3. bootISO' \in [Launches -> Maybe(Launches) \cup {"given"}]
    BY <1>9, <2>2 DEF StartMachine
  <2>4. socket' \in [VMIDs -> Maybe(Launches)]
    BY <1>9, <2>1 DEF StartMachine
  <2>5. /\ pc' \in [Launches -> PCs] /\ pc'[v] \notin {"idle", "ended"} /\ pc[v] = "start"
        /\ \A w \in Launches \ {v} : pc'[w] = pc[w]
    BY <1>9 DEF StartMachine, Fail
  <2>6. failedAt' \in [Launches -> Steps \cup {"none", "makeISO"}]
    BY <1>9 DEF StartMachine, Fail
  <2> QED
    BY <1>9, <2>3, <2>4, <2>5, <2>6 DEF StartMachine
<1>10. ASSUME NEW v \in Launches, WaitReturns(v) PROVE TypeOK'
  BY <1>10 DEF WaitReturns
<1>11. ASSUME NEW v \in Launches, StopMachine(v) PROVE TypeOK'
  BY <1>11 DEF StopMachine
<1>12. ASSUME NEW v \in Launches, RemoveRootFS(v) PROVE TypeOK'
  BY <1>12 DEF RemoveRootFS
<1>13. ASSUME NEW v \in Launches, RemoveTAP(v) PROVE TypeOK'
  BY <1>13 DEF RemoveTAP
<1>14. ASSUME NEW v \in Launches, Finish(v) PROVE TypeOK'
  BY <1>14 DEF Finish
<1>15. CASE UNCHANGED vars
  BY <1>15 DEF vars
<1> QED
  BY <1>1, <1>2, <1>3, <1>4, <1>5, <1>6, <1>7, <1>8, <1>9, <1>10, <1>11, <1>12,
     <1>13, <1>14, <1>15
  DEF Next, SetupStep, CleanupStep

\* The steps of a launch that is under way.
Step(v) == WaitReturns(v) \/ SetupStep(v) \/ CleanupStep(v)

\* A launch touches its own state and the resources of its own ID.
LEMMA Frame ==
  ASSUME TypeOK, OnCourse, NEW v \in Launches, Step(v)
  PROVE  /\ Live(v) /\ pc'[v] # "idle"
         /\ UNCHANGED <<launch, contended>>
         /\ \A w \in Launches \ {v} :
              /\ pc'[w] = pc[w] /\ failedAt'[w] = failedAt[w] /\ cancelled'[w] = cancelled[w]
              /\ deferred'[w] = deferred[w] /\ bootISO'[w] = bootISO[w]
         /\ \A i \in VMIDs \ {launch[v].id} :
              tap'[i] = tap[i] /\ rootfs'[i] = rootfs[i] /\ iso'[i] = iso[i] /\ socket'[i] = socket[i]
<1> USE DEF TypeOK, host, Live
<1>2. CASE WaitReturns(v)
  BY <1>2 DEF WaitReturns
<1>3. CASE GenerateISO(v)
  BY <1>3, Course DEF GenerateISO, Proceed, Fail, OnCourse
<1>4. CASE SetupTAP(v)
  BY <1>4, Course, ConfigFields DEF SetupTAP, Proceed, Fail, Kinds
<1>5. CASE StatISO(v)
  BY <1>5, Course DEF StatISO, Proceed, OnCourse
<1>6. CASE MakeISO(v)
  BY <1>6, Course DEF MakeISO, Fail, OnCourse
<1>7. CASE PrepareRootFS(v)
  BY <1>7, Course, ConfigFields DEF PrepareRootFS, Proceed, Fail, Kinds
<1>8. CASE CreateMachine(v)
  BY <1>8, Course, ConfigFields DEF CreateMachine, Proceed, Fail, Kinds
<1>9. CASE StartMachine(v)
  BY <1>9 DEF StartMachine, Fail
<1>10. CASE CleanupStep(v)
  BY <1>10 DEF CleanupStep, StopMachine, RemoveRootFS, RemoveTAP, Finish
<1> QED
  BY <1>2, <1>3, <1>4, <1>5, <1>6, <1>7, <1>8, <1>9, <1>10 DEF Step, SetupStep

\* The end of a context changes nothing else.
LEMMA CancelFrame ==
  ASSUME NEW v \in Launches, Cancel(v)
  PROVE  /\ cancelled' = [cancelled EXCEPT ![v] = TRUE]
         /\ UNCHANGED <<launch, pc, failedAt, deferred, bootISO, contended, tap, rootfs, iso, socket>>
BY DEF Cancel, host

\* A launch stays on its course.
LEMMA OnCourseStep == TypeOK /\ OnCourse /\ [Next]_vars => OnCourse'
<1> SUFFICES ASSUME TypeOK, OnCourse, [Next]_vars PROVE OnCourse'
  OBVIOUS
<1>1. ASSUME NEW v \in Launches, NEW cfg \in Configs, Begin(v, cfg) PROVE OnCourse'
  <2>1. cfg.kind \in Kinds
    BY VMLaunchAssumption
  <2>2. /\ First[cfg.kind] \in {"tap", "fresh", "rootfs"}
        /\ First[cfg.kind] = "fresh" => cfg.kind = "scenario"
    BY <2>1 DEF First, Kinds
  <2> QED
    BY <1>1, <2>2 DEF Begin, OnCourse, TypeOK
<1>2. ASSUME NEW v \in Launches, Step(v),
             /\ launch[v] \in Configs
             /\ pc'[v] = "fresh" => launch[v].kind = "scenario"
             /\ pc'[v] \in {"iso", "makeISO"} => launch[v].kind \in {"api", "cli"}
             /\ pc'[v] \in {"start", "up"} => "stop" \in deferred'[v]
             /\ failedAt'[v] # "none" => pc'[v] \in {"unwind", "ended"}
      PROVE  OnCourse'
  BY <1>2, Frame DEF OnCourse
<1>3. ASSUME NEW v \in Launches, Step(v) PROVE OnCourse'
  <2> USE DEF OnCourse, TypeOK
  <2>1. launch[v] \in Configs /\ launch[v].kind \in Kinds
    BY <1>3, Frame, ConfigFields DEF Live
  <2>3. CASE WaitReturns(v)
    BY <1>2, <1>3, <2>1, <2>3 DEF WaitReturns
  <2>4. CASE GenerateISO(v)
    BY <1>2, <1>3, <2>1, <2>4, Course DEF GenerateISO, Proceed, Fail
  <2>5. CASE SetupTAP(v)
    BY <1>2, <1>3, <2>1, <2>5, Course DEF SetupTAP, Proceed, Fail, Kinds
  <2>6. CASE StatISO(v)
    BY <1>2, <1>3, <2>1, <2>6, Course DEF StatISO, Proceed
  <2>7. CASE MakeISO(v)
    BY <1>2, <1>3, <2>1, <2>7, Course DEF MakeISO, Fail
  <2>8. CASE PrepareRootFS(v)
    BY <1>2, <1>3, <2>1, <2>8, Course DEF PrepareRootFS, Proceed, Fail, Kinds
  <2>9. CASE CreateMachine(v)
    BY <1>2, <1>3, <2>1, <2>9, Course DEF CreateMachine, Proceed, Fail, Kinds
  <2>10. CASE StartMachine(v)
    BY <1>2, <1>3, <2>1, <2>10 DEF StartMachine, Fail
  <2>11. CASE CleanupStep(v)
    BY <1>2, <1>3, <2>1, <2>11 DEF CleanupStep, StopMachine, RemoveRootFS, RemoveTAP, Finish
  <2> QED
    BY <1>3, <2>3, <2>4, <2>5, <2>6, <2>7, <2>8, <2>9, <2>10, <2>11 DEF Step, SetupStep
<1>4. CASE UNCHANGED vars \/ \E v \in Launches : Cancel(v)
  BY <1>4, CancelFrame DEF vars, OnCourse
<1> QED
  BY <1>1, <1>3, <1>4 DEF Next, Step

-----------------------------------------------------------------------------
(***************************************************************************)
(* What is on the host.                                                    *)
(***************************************************************************)

\* What a launch adds it defers the removal of, if its code does; when it runs a
\* deferred removal the resource is gone, whoever made it.
LEMMA AccountedStep ==
  TypeOK /\ OnCourse /\ Accounted /\ [Next]_vars => Accounted'
<1> SUFFICES ASSUME TypeOK, OnCourse, Accounted, [Next]_vars PROVE Accounted'
  OBVIOUS
<1>1. ASSUME NEW v \in Launches, NEW cfg \in Configs, Begin(v, cfg) PROVE Accounted'
  <2>1. deferred[v] = {} /\ failedAt[v] = "none"
    BY <1>1 DEF Begin, OnCourse, TypeOK
  <2>2. ASSUME NEW i \in VMIDs PROVE AccountedAt(i)'
    <3>1. socket[i] # v /\ rootfs[i] # v /\ tap[i] # v
      BY <1>1, VMLaunchAssumption DEF Begin, Accounted, AccountedAt, Made
    <3> QED
      BY <1>1, <3>1 DEF Begin, Accounted, AccountedAt, Made, TypeOK, Maybe, host
  <2> QED
    BY <2>2 DEF Accounted
<1>2. ASSUME NEW v \in Launches, Step(v), NEW i \in VMIDs PROVE AccountedAt(i)'
  <2> DEFINE j == launch[v].id
  <2>1. /\ Live(v) /\ pc'[v] # "idle" /\ launch' = launch /\ pc[v] # "idle"
        /\ \A w \in Launches \ {v} :
              pc'[w] = pc[w] /\ failedAt'[w] = failedAt[w] /\ deferred'[w] = deferred[w]
        /\ i # j => tap'[i] = tap[i] /\ rootfs'[i] = rootfs[i] /\ socket'[i] = socket[i]
    BY <1>2, Frame DEF Live
  <2>2. AccountedAt(i)
    BY DEF Accounted
  <2>3. socket[i] \in Maybe(Launches) /\ rootfs[i] \in Maybe(Launches) /\ tap[i] \in Maybe(Launches)
    BY DEF TypeOK
  <2>4. CASE i # j
    <3>1. socket[i] # v /\ rootfs[i] # v /\ tap[i] # v
      BY <2>2, <2>4, VMLaunchAssumption DEF AccountedAt, Made
    <3> QED
      BY <2>1, <2>2, <2>3, <2>4, <3>1 DEF AccountedAt, Made, Maybe
  <2>5. CASE i = j
    <3> USE <2>1, <2>2, <2>3, <2>5, VMLaunchAssumption DEF AccountedAt, Made, Maybe, TypeOK
    <3>2. CASE WaitReturns(v)
      BY <3>2 DEF WaitReturns, host
    <3>3. CASE GenerateISO(v)
      BY <3>3 DEF GenerateISO, Proceed, Fail, OnCourse
    <3>4. CASE SetupTAP(v)
      BY <3>4, ConfigFields DEF SetupTAP, Proceed, Fail, OnCourse, Kinds
    <3>5. CASE StatISO(v)
      BY <3>5 DEF StatISO, Proceed, Fail, OnCourse, host
    <3>6. CASE MakeISO(v)
      BY <3>6 DEF MakeISO, Fail, OnCourse
    <3>7. CASE PrepareRootFS(v)
      BY <3>7 DEF PrepareRootFS, Proceed, Fail, OnCourse
    <3>8. CASE CreateMachine(v)
      BY <3>8 DEF CreateMachine, Proceed, Fail, OnCourse
    <3>9. CASE StartMachine(v)
      BY <3>9 DEF StartMachine, Fail, OnCourse
    <3>10. CASE StopMachine(v)
      BY <3>10 DEF StopMachine
    <3>11. CASE RemoveRootFS(v)
      BY <3>11 DEF RemoveRootFS
    <3>12. CASE RemoveTAP(v)
      BY <3>12 DEF RemoveTAP
    <3>13. CASE Finish(v)
      BY <3>13 DEF Finish, host
    <3> QED
      BY <1>2, <3>2, <3>3, <3>4, <3>5, <3>6, <3>7, <3>8, <3>9, <3>10, <3>11, <3>12, <3>13
      DEF Step, SetupStep, CleanupStep
  <2> QED
    BY <2>4, <2>5
<1>3. CASE UNCHANGED vars \/ \E v \in Launches : Cancel(v)
  <2>1. UNCHANGED <<launch, pc, failedAt, deferred, tap, rootfs, socket>>
    BY <1>3, CancelFrame DEF vars
  <2> QED
    BY <2>1 DEF Accounted, AccountedAt, Made
<1> QED
  BY <1>1, <1>2, <1>3 DEF Next, Step, Accounted

\* A launch that meets another live one of its ID is contended, and so is the
\* other.
LEMMA ExclusiveStep == TypeOK /\ OnCourse /\ Exclusive /\ [Next]_vars => Exclusive'
<1> SUFFICES ASSUME TypeOK, OnCourse, Exclusive, [Next]_vars PROVE Exclusive'
  OBVIOUS
<1>1. ASSUME NEW v \in Launches, NEW cfg \in Configs, Begin(v, cfg) PROVE Exclusive'
  <2>1. /\ launch'[v].id = cfg.id
        /\ \A w \in Launches \ {v} : launch'[w] = launch[w] /\ pc'[w] = pc[w]
        /\ LiveOn(cfg.id) \subseteq contended'
        /\ LiveOn(cfg.id) # {} => v \in contended'
        /\ contended \subseteq contended'
    BY <1>1 DEF Begin, TypeOK
  <2> QED
    BY <2>1 DEF Exclusive, Alone, Live, LiveOn
<1>2. ASSUME NEW v \in Launches, Step(v) PROVE Exclusive'
  BY <1>2, Frame DEF Exclusive, Alone, Live
<1>3. CASE UNCHANGED vars \/ \E v \in Launches : Cancel(v)
  BY <1>3, CancelFrame DEF vars, Exclusive, Alone, Live
<1> QED
  BY <1>1, <1>2, <1>3 DEF Next, Step

\* A launch makes all it needs itself, in whatever order its code does, and
\* nobody else touches the resources of an ID that is not contended.
LEMMA OwnStep ==
  TypeOK /\ OnCourse /\ Exclusive /\ Own /\ [Next]_vars => Own'
<1> SUFFICES ASSUME TypeOK, OnCourse, Exclusive, Own, [Next]_vars PROVE Own'
  OBVIOUS
<1> USE DEF TapReady, RootFSReady, FreshISO
<1>1. ASSUME NEW v \in Launches, NEW cfg \in Configs, Begin(v, cfg), NEW u \in Launches, Alone(u)'
      PROVE  OwnOf(u)'
  <2>1. cfg.kind \in Kinds
    BY VMLaunchAssumption
  <2>2. CASE u = v
    <3>1. launch'[v] = cfg /\ pc'[v] = First[cfg.kind]
      BY <1>1 DEF Begin, TypeOK
    <3>2. \/ pc'[v] = "tap" /\ cfg.kind = "api"
          \/ pc'[v] = "fresh" /\ cfg.kind = "scenario"
          \/ pc'[v] = "rootfs" /\ cfg.kind = "cli"
      BY <2>1, <3>1 DEF First, Kinds
    <3> QED
      BY <2>2, <3>1, <3>2 DEF OwnOf
  <2>3. CASE u # v
    <3>1. pc'[u] = pc[u] /\ launch'[u] = launch[u] /\ UNCHANGED <<bootISO, tap, rootfs, iso, socket>>
      BY <1>1, <2>3 DEF Begin, TypeOK, host
    <3>2. Alone(u)
      BY <1>1, <3>1 DEF Begin, Alone, Live
    <3> QED
      BY <3>1, <3>2 DEF Own, OwnOf
  <2> QED
    BY <2>2, <2>3
<1>2. ASSUME NEW v \in Launches, Step(v), NEW u \in Launches, Alone(u)' PROVE OwnOf(u)'
  <2>1. CASE u # v
    <3>1. Alone(u) /\ Live(v) /\ pc'[u] = pc[u] /\ bootISO'[u] = bootISO[u] /\ launch' = launch
      BY <1>2, <2>1, Frame DEF Alone, Live
    <3>2. launch[u].id # launch[v].id
      BY <2>1, <3>1 DEF Exclusive
    <3>3. launch[u].id \in VMIDs
      BY <3>1, ConfigFields DEF Alone, Live
    <3>4. /\ tap'[launch[u].id] = tap[launch[u].id] /\ rootfs'[launch[u].id] = rootfs[launch[u].id]
          /\ iso'[launch[u].id] = iso[launch[u].id] /\ socket'[launch[u].id] = socket[launch[u].id]
      BY <1>2, <3>2, <3>3, Frame
    <3> QED
      BY <3>1, <3>4 DEF Own, OwnOf
  <2>2. CASE u = v
    <3>1. Alone(v) /\ launch' = launch
      BY <1>2, <2>2, Frame DEF Alone
    <3>2. OwnOf(v)
      BY <3>1 DEF Own
    <3>3. launch[v].id \in VMIDs /\ launch[v].kind \in Kinds /\ launch[v].base \in Bases
      BY <3>1, ConfigFields DEF Alone, Live
    <3> USE <2>2, <3>1, <3>2, <3>3, Course DEF OwnOf, TypeOK, Kinds
    <3>5. CASE WaitReturns(v)
      BY <3>5 DEF WaitReturns, host
    <3>6. CASE GenerateISO(v)
      BY <3>6 DEF GenerateISO, Proceed, Fail, OnCourse
    <3>7. CASE SetupTAP(v)
      BY <3>7 DEF SetupTAP, Proceed, Fail
    <3>8. CASE StatISO(v)
      BY <3>8 DEF StatISO, Proceed, OnCourse, host
    <3>9. CASE MakeISO(v)
      BY <3>9 DEF MakeISO, Fail, OnCourse
    <3>10. CASE PrepareRootFS(v)
      BY <3>10 DEF PrepareRootFS, Proceed, Fail
    <3>11. CASE CreateMachine(v)
      BY <3>11 DEF CreateMachine, Proceed, Fail
    <3>12. CASE StartMachine(v)
      BY <3>12 DEF StartMachine, Fail, ISOFile
    <3>13. CASE CleanupStep(v)
      BY <3>13 DEF CleanupStep, StopMachine, RemoveRootFS, RemoveTAP, Finish, host
    <3> QED
      BY <1>2, <3>5, <3>6, <3>7, <3>8, <3>9, <3>10, <3>11, <3>12, <3>13 DEF Step, SetupStep
  <2> QED
    BY <2>1, <2>2
<1>3. CASE UNCHANGED vars \/ \E v \in Launches : Cancel(v)
  <2>1. UNCHANGED <<launch, pc, bootISO, contended, tap, rootfs, iso, socket>>
    BY <1>3, CancelFrame DEF vars
  <2> QED
    BY <2>1 DEF Own, OwnOf, Alone, Live
<1> QED
  BY <1>1, <1>2, <1>3 DEF Next, Step, Own

\* The invariant holds in every state, whatever the launches are given.
THEOREM LaunchInvHolds == Spec => []LaunchInv
<1>1. Init => LaunchInv
  <2> SUFFICES ASSUME Init PROVE LaunchInv
    OBVIOUS
  <2>1. TypeOK
    BY DEF Init, TypeOK, PCs, Steps, Maybe
  <2>2. OnCourse
    BY DEF Init, OnCourse
  <2>3. Accounted
    BY DEF Init, Accounted, AccountedAt
  <2>4. Exclusive /\ Own
    BY DEF Init, Exclusive, Own, Alone, Live
  <2> QED
    BY <2>1, <2>2, <2>3, <2>4 DEF LaunchInv
<1>2. LaunchInv /\ [Next]_vars => LaunchInv'
  BY TypeStep, OnCourseStep, AccountedStep, ExclusiveStep, OwnStep DEF LaunchInv
<1> QED
  BY <1>1, <1>2, PTL DEF Spec

\* Launches and host keep their types, and no launch ends with clean-up left.
THEOREM TypeCorrect == Spec => []TypeOK
BY LaunchInvHolds, PTL DEF LaunchInv

\* A VM that shares its ID with no other live one runs on the device, the rootfs
\* and the socket it made itself.
THEOREM RunsOnOwnResources == Spec => []OwnResources
<1>1. LaunchInv => OwnResources
  BY DEF LaunchInv, Own, OwnOf, Alone, Live, TapReady, RootFSReady, OwnResources
<1> QED
  BY <1>1, LaunchInvHolds, PTL

\* Such a VM, of a scenario, boots from the ISO that was made for it.
THEOREM BootsOwnISO == Spec => []ScenarioBootsOwnISO
<1>1. LaunchInv => ScenarioBootsOwnISO
  BY DEF LaunchInv, Own, OwnOf, Alone, Live, FreshISO, ScenarioBootsOwnISO
<1> QED
  BY <1>1, LaunchInvHolds, PTL

\* When no launch of an ID is live, no socket is left, a rootfs only after a
\* failed copy, and a device only after a failed set-up or a launch that does
\* not remove it: contention leaves nothing else behind.
THEOREM NothingElseLeft == Spec => []LeftBehind
<1>1. ASSUME LaunchInv, NEW i \in VMIDs, LiveOn(i) = {}
      PROVE  /\ socket[i] = NoVM
             /\ rootfs[i] # NoVM => failedAt[rootfs[i]] = "rootfs"
             /\ tap[i] # NoVM => \/ failedAt[tap[i]] = "tap"
                                 \/ launch[tap[i]].kind \in {"scenario", "cli"}
  <2>1. \A w \in Launches : Made(w, i) => deferred[w] = {}
    BY <1>1 DEF LiveOn, Live, Made, LaunchInv, TypeOK
  <2>2. AccountedAt(i)
    BY <1>1 DEF LaunchInv, Accounted
  <2>3. socket[i] \in Maybe(Launches) /\ rootfs[i] \in Maybe(Launches) /\ tap[i] \in Maybe(Launches)
    BY <1>1 DEF LaunchInv, TypeOK
  <2> QED
    BY <2>1, <2>2, <2>3 DEF AccountedAt, Maybe
<1>2. LaunchInv => LeftBehind
  BY <1>1 DEF LeftBehind
<1> QED
  BY <1>2, LaunchInvHolds, PTL

-----------------------------------------------------------------------------
(***************************************************************************)
(* The call.                                                               *)
(***************************************************************************)

\* Every step of a launch is a step of the call its caller makes.
LEMMA CallStep ==
  TypeOK /\ OnCourse /\ [Next]_vars => [Call!Next]_(Call!callVars)
<1> SUFFICES ASSUME TypeOK, OnCourse, [Next]_vars PROVE [Call!Next]_(Call!callVars)
  OBVIOUS
<1> DEFINE at == [v \in Launches |-> IF Live(v) THEN "running"
                                     ELSE IF pc[v] = "ended" THEN "returned" ELSE "idle"]
<1>1. ASSUME NEW v \in Launches, NEW cfg \in Configs, Begin(v, cfg) PROVE Call!Next
  <2>1. cfg.kind \in Kinds
    BY VMLaunchAssumption
  <2>2. /\ pc[v] = "idle" /\ pc'[v] \notin {"idle", "ended"} /\ UNCHANGED cancelled
        /\ \A w \in Launches \ {v} : pc'[w] = pc[w]
    BY <1>1, <2>1 DEF Begin, TypeOK, First, Kinds
  <2>3. at[v] = "idle" /\ at' = [at EXCEPT ![v] = "running"]
    BY <2>2 DEF Live
  <2>4. Call!Enter(v)
    BY <2>2, <2>3 DEF Call!Enter
  <2> QED
    BY <2>4 DEF Call!Next
<1>2. ASSUME NEW v \in Launches, Step(v) PROVE [Call!Next]_(Call!callVars)
  <2>1. /\ Live(v) /\ pc'[v] # "idle"
        /\ \A w \in Launches \ {v} : pc'[w] = pc[w] /\ cancelled'[w] = cancelled[w]
    BY <1>2, Frame
  <2>3. CASE pc'[v] = "ended" /\ UNCHANGED cancelled
    <3>1. at[v] = "running" /\ at' = [at EXCEPT ![v] = "returned"]
      BY <2>1, <2>3 DEF Live
    <3>2. Call!Return(v)
      BY <2>3, <3>1 DEF Call!Return
    <3> QED
      BY <3>2 DEF Call!Next
  <2>4. CASE pc'[v] # "ended" /\ UNCHANGED cancelled
    <3>1. at' = at
      BY <2>1, <2>4 DEF Live
    <3> QED
      BY <2>4, <3>1 DEF Call!callVars
  <2>5. UNCHANGED cancelled
    BY <1>2 DEF Step, WaitReturns, SetupStep, CleanupStep, GenerateISO, SetupTAP, StatISO, MakeISO,
       PrepareRootFS, CreateMachine, StartMachine, StopMachine, RemoveRootFS, RemoveTAP, Finish
  <2> QED
    BY <2>3, <2>4, <2>5
<1>3. ASSUME NEW v \in Launches, Cancel(v) PROVE Call!Next
  <2>1. at' = at
    BY <1>3, CancelFrame DEF Live
  <2>2. Call!Cancel(v)
    BY <1>3, <2>1, CancelFrame DEF Call!Cancel
  <2> QED
    BY <2>2 DEF Call!Next
<1>4. CASE UNCHANGED vars
  BY <1>4 DEF vars, Live, Call!callVars
<1> QED
  BY <1>1, <1>2, <1>3, <1>4 DEF Next, Step

\* A launch, with its error paths and its clean-up, implements the call that
\* launchFleet and Runner.Run make: it is entered once and returns once.
THEOREM LaunchImplementsCall == Spec => Call!CallSpec
<1>1. Init => Call!Init
  BY DEF Init, Call!Init, Live
<1>2. LaunchInv => TypeOK /\ OnCourse
  BY DEF LaunchInv
<1> QED
  BY <1>1, <1>2, CallStep, LaunchInvHolds, PTL DEF Spec, Call!CallSpec

-----------------------------------------------------------------------------
(***************************************************************************)
(* Why a launch ends.                                                      *)
(***************************************************************************)

\* The steps a launch has before it at most: those of its set-up in the order of
\* its code, from Machine.Wait on one for each clean-up that may be deferred, and
\* the return.
Ahead ==
  [api      |-> [tap |-> 11, iso |-> 10, makeISO |-> 9, rootfs |-> 8],
   scenario |-> [fresh |-> 10, tap |-> 9, rootfs |-> 8],
   cli      |-> [rootfs |-> 11, tap |-> 10, iso |-> 9, makeISO |-> 8]]
Count(d) ==
  (IF "stop" \in d THEN 1 ELSE 0) + (IF "rootfs" \in d THEN 1 ELSE 0)
    + (IF "tap" \in d THEN 1 ELSE 0)
StepsLeft(v) ==
  IF pc[v] = "idle" THEN 12
  ELSE IF pc[v] = "create" THEN 7 ELSE IF pc[v] = "start" THEN 6 ELSE IF pc[v] = "up" THEN 5
  ELSE IF pc[v] = "unwind" THEN 1 + Count(deferred[v])
  ELSE IF pc[v] = "ended" THEN 0
  ELSE Ahead[launch[v].kind][pc[v]]

\* A step of a launch brings it nearer to its end, and nothing sets it back: not an
\* error on the way, and no other launch, one of its own ID included.
OnlyForward ==
  \A v \in Launches :
    /\ StepsLeft(v) \in 0..12 /\ StepsLeft(v)' <= StepsLeft(v)
    /\ SetupStep(v) \/ WaitReturns(v) \/ CleanupStep(v) => StepsLeft(v)' < StepsLeft(v)

\* The number of steps left, for each place in each of the three pieces of code.
LEMMA LeftIs ==
  ASSUME TypeOK, OnCourse, NEW v \in Launches
  PROVE  /\ StepsLeft(v) \in 0..12
         /\ pc[v] \notin {"idle", "ended", "unwind", "up", "start", "create"} => StepsLeft(v) >= 8
<1>1. pc[v] # "idle" => launch[v].kind \in Kinds
  BY ConfigFields
<1>2. /\ Ahead["api"] = [tap |-> 11, iso |-> 10, makeISO |-> 9, rootfs |-> 8]
      /\ Ahead["scenario"] = [fresh |-> 10, tap |-> 9, rootfs |-> 8]
      /\ Ahead["cli"] = [rootfs |-> 11, tap |-> 10, iso |-> 9, makeISO |-> 8]
  BY DEF Ahead
<1>3. pc[v] \in PCs /\ Count(deferred[v]) \in 0..3
  BY DEF TypeOK, Count
<1>4. CASE pc[v] \in {"idle", "ended", "unwind", "up", "start", "create"}
  BY <1>3, <1>4 DEF StepsLeft
<1>5. CASE pc[v] \notin {"idle", "ended", "unwind", "up", "start", "create"}
  <2>1. StepsLeft(v) = Ahead[launch[v].kind][pc[v]]
    BY <1>5 DEF StepsLeft
  <2>2. CASE pc[v] = "fresh"
    BY <1>2, <2>1, <2>2 DEF OnCourse
  <2>3. CASE pc[v] \in {"iso", "makeISO"}
    BY <1>2, <2>1, <2>3 DEF OnCourse
  <2>4. CASE pc[v] \in {"tap", "rootfs"}
    BY <1>1, <1>2, <2>1, <2>4 DEF Kinds
  <2> QED
    BY <1>3, <1>5, <2>2, <2>3, <2>4 DEF PCs, Steps
<1> QED
  BY <1>4, <1>5

\* The step that follows is nearer to the end.
LEMMA FollowIsNearer ==
  ASSUME TypeOK, OnCourse, NEW v \in Launches, SetupStep(v)
  PROVE  StepsLeft(v)' < StepsLeft(v)
<1>1. /\ pc[v] \in {"fresh", "tap", "iso", "makeISO", "rootfs", "create", "start"}
      /\ launch' = launch /\ launch[v].kind \in Kinds
  <2>1. pc[v] \in {"fresh", "tap", "iso", "makeISO", "rootfs", "create", "start"} /\ launch' = launch
    BY DEF SetupStep, GenerateISO, SetupTAP, StatISO, MakeISO, PrepareRootFS, CreateMachine,
           StartMachine
  <2> QED
    BY <2>1, ConfigFields
<1>2. CASE pc'[v] = "unwind"
  <2>1. StepsLeft(v) > 5 /\ StepsLeft(v) \in Int
    <3>1. CASE pc[v] \in {"create", "start"}
      <4>1. StepsLeft(v) \in {6, 7}
        BY <3>1 DEF StepsLeft
      <4> QED
        BY <4>1
    <3>2. CASE pc[v] \notin {"create", "start"}
      <4>1. StepsLeft(v) \in 0..12 /\ StepsLeft(v) >= 8
        BY <1>1, <3>2, LeftIs
      <4> QED
        BY <4>1
    <3> QED
      BY <3>1, <3>2
  <2>2. deferred' \in [Launches -> SUBSET {"stop", "rootfs", "tap"}]
    <3>1. Next
      BY DEF Next
    <3>2. TypeOK'
      BY <3>1, TypeStep
    <3> QED
      BY <3>2 DEF TypeOK
  <2>3. StepsLeft(v)' = 1 + Count(deferred'[v]) /\ Count(deferred'[v]) \in 0..3
    BY <1>2, <2>2 DEF StepsLeft, Count
  <2> QED
    BY <2>1, <2>3
<1>3. CASE pc'[v] # "unwind"
  <2>1. \/ pc[v] \in {"fresh", "tap", "iso", "rootfs", "create"}
             /\ pc'[v] = Follow[launch[v].kind][pc[v]]
        \/ pc[v] = "makeISO" /\ pc'[v] = Follow[launch[v].kind].iso
        \/ pc[v] = "iso" /\ pc'[v] = "makeISO"
        \/ pc[v] = "start" /\ pc'[v] = "up"
    BY <1>3 DEF SetupStep, GenerateISO, SetupTAP, StatISO, MakeISO, PrepareRootFS, CreateMachine,
                StartMachine, Proceed, Fail, TypeOK
  <2>2. /\ Ahead["api"] = [tap |-> 11, iso |-> 10, makeISO |-> 9, rootfs |-> 8]
        /\ Ahead["scenario"] = [fresh |-> 10, tap |-> 9, rootfs |-> 8]
        /\ Ahead["cli"] = [rootfs |-> 11, tap |-> 10, iso |-> 9, makeISO |-> 8]
    BY DEF Ahead
  <2>3. /\ pc[v] = "fresh" => launch[v].kind = "scenario"
        /\ pc[v] \in {"iso", "makeISO"} => launch[v].kind \in {"api", "cli"}
    BY DEF OnCourse
  <2>4. CASE launch[v].kind = "api"
    BY <1>1, <2>1, <2>2, <2>3, <2>4, Course DEF StepsLeft
  <2>5. CASE launch[v].kind = "scenario"
    BY <1>1, <2>1, <2>2, <2>3, <2>5, Course DEF StepsLeft
  <2>6. CASE launch[v].kind = "cli"
    BY <1>1, <2>1, <2>2, <2>3, <2>6, Course DEF StepsLeft
  <2> QED
    BY <1>1, <2>4, <2>5, <2>6 DEF Kinds
<1> QED
  BY <1>2, <1>3

\* A launch takes at most eleven steps, wherever they fail and whatever other
\* launches do.  So a launch that is cancelled ends as soon as every step it is at is
\* taken, the part of ImplementsCall that is about the future.
THEOREM LaunchGoesForward == Spec => [][OnlyForward]_vars
<1> DEFINE Bounded == \A v \in Launches : StepsLeft(v) \in 0..12
<1>1. TypeOK /\ OnCourse /\ Bounded /\ Bounded' /\ [Next]_vars => [OnlyForward]_vars
  <2> SUFFICES ASSUME TypeOK, OnCourse, Bounded, Bounded', Next PROVE OnlyForward
    OBVIOUS
  <2>1. \A v \in Launches : StepsLeft(v) \in 0..12 /\ StepsLeft(v)' \in 0..12
    OBVIOUS
  <2>2. ASSUME NEW v \in Launches, CleanupStep(v) \/ WaitReturns(v)
        PROVE  StepsLeft(v)' < StepsLeft(v)
    <3>1. CASE WaitReturns(v)
      BY <3>1 DEF WaitReturns, TypeOK, StepsLeft, Count
    <3>2. CASE StopMachine(v) \/ RemoveRootFS(v) \/ RemoveTAP(v)
      <4>1. pc[v] = "unwind" /\ pc' = pc
        BY <3>2 DEF StopMachine, RemoveRootFS, RemoveTAP
      <4>2. Count(deferred'[v]) < Count(deferred[v])
        BY <3>2 DEF StopMachine, RemoveRootFS, RemoveTAP, TypeOK, Count
      <4>3. Count(deferred'[v]) \in Int /\ Count(deferred[v]) \in Int
        BY DEF Count
      <4> QED
        BY <4>1, <4>2, <4>3 DEF StepsLeft
    <3>3. CASE Finish(v)
      BY <3>3 DEF Finish, TypeOK, StepsLeft, Count
    <3> QED
      BY <2>2, <3>1, <3>2, <3>3 DEF CleanupStep
  <2>3. ASSUME NEW v \in Launches, Cancel(v) PROVE StepsLeft(v)' = StepsLeft(v)
    BY <2>3 DEF Cancel, StepsLeft
  <2>4. ASSUME NEW v \in Launches, NEW cfg \in Configs, Begin(v, cfg)
        PROVE  StepsLeft(v)' <= StepsLeft(v)
    <3>1. cfg.kind \in Kinds
      BY VMLaunchAssumption
    <3>2. /\ pc[v] = "idle" /\ launch'[v] = cfg
          /\ pc'[v] = (IF cfg.kind = "api" THEN "tap"
                       ELSE IF cfg.kind = "scenario" THEN "fresh" ELSE "rootfs")
      BY <2>4, <3>1 DEF Begin, TypeOK, First, Kinds
    <3>3. /\ Ahead["api"] = [tap |-> 11, iso |-> 10, makeISO |-> 9, rootfs |-> 8]
          /\ Ahead["scenario"] = [fresh |-> 10, tap |-> 9, rootfs |-> 8]
          /\ Ahead["cli"] = [rootfs |-> 11, tap |-> 10, iso |-> 9, makeISO |-> 8]
      BY DEF Ahead
    <3> QED
      BY <3>1, <3>2, <3>3 DEF StepsLeft, Kinds
  <2>5. ASSUME NEW v \in Launches, NEW w \in Launches \ {v},
               Step(v) \/ Cancel(v) \/ \E cfg \in Configs : Begin(v, cfg)
        PROVE  StepsLeft(w)' = StepsLeft(w)
    <3>1. pc'[w] = pc[w] /\ launch'[w] = launch[w] /\ deferred'[w] = deferred[w]
      BY <2>5, Frame, CancelFrame DEF Begin, TypeOK
    <3> QED
      BY <3>1 DEF StepsLeft
  <2>6. PICK v \in Launches : Step(v) \/ Cancel(v) \/ \E cfg \in Configs : Begin(v, cfg)
    BY DEF Next, Step
  <2>7. StepsLeft(v)' <= StepsLeft(v)
    <3>1. StepsLeft(v)' = StepsLeft(v) \/ StepsLeft(v)' < StepsLeft(v)
            \/ StepsLeft(v)' <= StepsLeft(v)
      BY <2>2, <2>3, <2>4, <2>6, FollowIsNearer DEF Step
    <3> QED
      BY <2>1, <3>1
  <2>8. \A w \in Launches : StepsLeft(w)' <= StepsLeft(w)
    BY <2>1, <2>5, <2>6, <2>7
  <2> QED
    BY <2>1, <2>2, <2>8, FollowIsNearer DEF OnlyForward
<1>2. LaunchInv => TypeOK /\ OnCourse /\ Bounded
  BY LeftIs DEF LaunchInv
<1> QED
  BY <1>1, <1>2, LaunchInvHolds, PTL DEF Spec
=============================================================================
