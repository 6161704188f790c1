------------------------- MODULE WebTerminalProofs --------------------------
(***************************************************************************)
(* Proofs about WebTerminal for any VMs, any number of overlapping syncs   *)
(* and any number of sockets.  OneSocketPerTerminal is not inductive: a    *)
(* timer opens a new socket for the key it finds, so what has to be known  *)
(* of every socket that is left, also of those that are closed and wait    *)
(* for their timer, is whether the entry of its VM is still its own.       *)
(***************************************************************************)
EXTENDS WebTerminal, FiniteSetTheorems, FunctionTheorems, TLAPS

\* Every socket that is in use was opened for a VM.
Named == \A s \in Sockets : socket[s].state # "unused" => socket[s].vm \in VMs

\* A socket that is in use is the one of its VM's entry; or there is no entry and
\* it will not be used again; or the VM got an entry while a socket was left.
Owned ==
  \A s \in Sockets : socket[s].state # "unused" =>
    \/ terminal[socket[s].vm] = s
    \/ terminal[socket[s].vm] = Absent /\ socket[s].state \in {"closing", "retries"}
    \/ socket[s].vm \in readded

\* The inductive invariant.
PageInv == TypeOK /\ Named /\ TerminalIsAttached /\ Owned

-----------------------------------------------------------------------------
(***************************************************************************)
(* Opening sockets.                                                        *)
(***************************************************************************)

\* A set that is not larger than another can be mapped into it one to one.
LEMMA OneToOne ==
  ASSUME NEW S, NEW T, IsFiniteSet(S), IsFiniteSet(T), Cardinality(S) <= Cardinality(T)
  PROVE  \E f \in [S -> T] : \A a, b \in S : f[a] = f[b] => a = b
<1> DEFINE m == Cardinality(S)
           n == Cardinality(T)
<1>1. m \in Nat /\ n \in Nat /\ ExistsBijection(1..m, S) /\ ExistsBijection(1..n, T)
  BY FS_CardinalityType
<1> HIDE DEF m, n
<1>2. ExistsInjection(S, 1..m)
  BY <1>1, Fun_ExistsBijEquiv
<1>3. ExistsInjection(1..m, 1..n)
  BY <1>1, Fun_NatInjLeq DEF m, n
<1>4. ExistsInjection(1..n, T)
  BY <1>1, Fun_ExistsBijEquiv
<1>5. ExistsInjection(S, T)
  BY <1>2, <1>3, <1>4, Fun_ExistsInjTransitive
<1> QED
  BY <1>5 DEF ExistsInjection, Injection, IsInjective

\* The sockets that syncVMs opens, one for each VM that is new.
Opened(new) == CHOOSE f \in [new -> Unused] : \A v, w \in new : f[v] = f[w] => v = w

\* They are unused ones, and different ones.
LEMMA OpenedSockets ==
  ASSUME NEW new \in SUBSET VMs, Cardinality(new) <= Cardinality(Unused)
  PROVE  /\ Opened(new) \in [new -> Unused]
         /\ \A v, w \in new : Opened(new)[v] = Opened(new)[w] => v = w
<1>1. IsFiniteSet(new) /\ IsFiniteSet(Unused)
  BY ConstantsOK, FS_Subset DEF Unused
<1>2. \E f \in [new -> Unused] : \A v, w \in new : f[v] = f[w] => v = w
  BY <1>1, OneToOne
<1> QED
  BY <1>2 DEF Opened

\* What syncVMs does to entries and sockets.
LEMMA ApplyEffect ==
  ASSUME NEW y \in Syncs, Apply(y)
  PROVE  LET gone == Gone(sync[y].vms)
             new == New(sync[y].vms)
             open == Opened(new)
         IN  /\ Cardinality(new) <= Cardinality(Unused)
             /\ terminal' = [v \in VMs |-> IF v \in gone THEN Absent
                                           ELSE IF v \in new THEN open[v] ELSE terminal[v]]
             /\ socket' = [s \in Sockets |->
                             IF \E v \in new : open[v] = s
                             THEN Connecting(CHOOSE v \in new : open[v] = s)
                             ELSE CloseSockets(gone)[s]]
             /\ readded' = readded \cup {v \in new : Left(v) # {}}
             /\ sync' = [sync EXCEPT ![y] = NewSync]
             /\ UNCHANGED <<listed, up, answering, events, handler>>
BY DEF Apply, Opened, world

\* syncVMs, entry by entry and socket by socket.
LEMMA ApplyCases ==
  ASSUME TypeOK, NEW y \in Syncs, Apply(y)
  PROVE  /\ \A v \in VMs :
              \/ v \in New(sync[y].vms) /\ terminal[v] = Absent
                   /\ terminal'[v] \in Unused /\ socket'[terminal'[v]] = Connecting(v)
              \/ v \in Gone(sync[y].vms) /\ terminal'[v] = Absent
              \/ /\ v \notin New(sync[y].vms) /\ v \notin Gone(sync[y].vms)
                 /\ terminal'[v] = terminal[v]
         /\ \A s \in Sockets :
              \/ \E v \in VMs : terminal'[v] = s /\ socket'[s] = Connecting(v)
              \/ socket'[s] = CloseSockets(Gone(sync[y].vms))[s]
         /\ \A s \in Sockets \ Unused : socket'[s] = CloseSockets(Gone(sync[y].vms))[s]
<1> DEFINE gone == Gone(sync[y].vms)
           new == New(sync[y].vms)
           open == Opened(new)
<1>1. new \in SUBSET VMs /\ gone \in SUBSET VMs /\ new \cap gone = {}
  BY DEF TypeOK, New, Gone
<1>2. \A v \in new : terminal[v] = Absent
  BY DEF New
<1>3. Cardinality(new) <= Cardinality(Unused)
  BY ApplyEffect
<1>4. open \in [new -> Unused] /\ \A v, w \in new : open[v] = open[w] => v = w
  BY <1>1, <1>3, OpenedSockets
<1>5. terminal' = [v \in VMs |-> IF v \in gone THEN Absent
                                 ELSE IF v \in new THEN open[v] ELSE terminal[v]]
  BY ApplyEffect
<1>6. socket' = [s \in Sockets |->
                   IF \E v \in new : open[v] = s
                   THEN Connecting(CHOOSE v \in new : open[v] = s)
                   ELSE CloseSockets(gone)[s]]
  BY ApplyEffect
<1> HIDE DEF gone, new, open
<1>7. \A v \in new : (CHOOSE w \in new : open[w] = open[v]) = v
  BY <1>4
<1>8. \A v \in new : terminal'[v] = open[v] /\ open[v] \in Unused /\ open[v] \in Sockets
  BY <1>1, <1>4, <1>5 DEF Unused
<1>9. \A v \in new : socket'[open[v]] = Connecting(v)
  BY <1>6, <1>7, <1>8
<1>10. \A s \in Sockets : (\A v \in new : open[v] # s) => socket'[s] = CloseSockets(gone)[s]
  BY <1>6
<1>11. \A v \in VMs : \/ v \in new /\ terminal[v] = Absent
                           /\ terminal'[v] \in Unused /\ socket'[terminal'[v]] = Connecting(v)
                      \/ v \in gone /\ terminal'[v] = Absent
                      \/ v \notin new /\ v \notin gone /\ terminal'[v] = terminal[v]
  BY <1>2, <1>5, <1>8, <1>9
<1>12. \A s \in Sockets : \/ \E v \in VMs : terminal'[v] = s /\ socket'[s] = Connecting(v)
                          \/ socket'[s] = CloseSockets(gone)[s]
  BY <1>1, <1>8, <1>9, <1>10
<1>13. \A s \in Sockets \ Unused : socket'[s] = CloseSockets(gone)[s]
  BY <1>8, <1>10
<1> QED
  BY <1>11, <1>12, <1>13 DEF gone, new

\* What a timer does that finds an entry for its VM.
LEMMA RetryEffect ==
  ASSUME NEW s \in Sockets, Retry(s), terminal[socket[s].vm] # Absent
  PROVE  \E n \in Unused \cup {s} :
           /\ socket' = [[socket EXCEPT ![s] = NoSocket] EXCEPT ![n] = Connecting(socket[s].vm)]
           /\ terminal' = [terminal EXCEPT ![socket[s].vm] = n]
<1> DEFINE free == Unused \cup {n \in {s} : handler[n].at = "none"}
           next == CHOOSE n \in free : TRUE
<1>1. /\ free # {}
      /\ socket' = [[socket EXCEPT ![s] = NoSocket] EXCEPT ![next] = Connecting(socket[s].vm)]
      /\ terminal' = [terminal EXCEPT ![socket[s].vm] = next]
  BY DEF Retry
<1>2. next \in free
  BY <1>1
<1> HIDE DEF next
<1> QED
  BY <1>1, <1>2

-----------------------------------------------------------------------------
(***************************************************************************)
(* Types.                                                                  *)
(***************************************************************************)

SocketRecords == [state : SocketStates, vm : VMs \cup {Absent}]
HandlerRecords ==
  [at : {"none", "dialing", "serving", "silent"}, attempt : 0..MaxAttempts, vm : VMs \cup {Absent}]

\* The records the page and wsHandler start from.
LEMMA Records ==
  /\ NoSocket \in SocketRecords /\ NoHandler \in HandlerRecords
  /\ \A v \in VMs : Connecting(v) \in SocketRecords
  /\ \A v \in VMs : [at |-> "dialing", attempt |-> 1, vm |-> v] \in HandlerRecords
<1>1. 0 \in 0..MaxAttempts /\ 1 \in 0..MaxAttempts
  BY ConstantsOK
<1> QED
  BY <1>1 DEF NoSocket, NoHandler, Connecting, SocketRecords, SocketStates, HandlerRecords

\* The page, the browser and the handlers keep the types, and sockets their VMs.
LEMMA TypeStep == TypeOK /\ Named /\ [Next]_vars => TypeOK' /\ Named'
<1> SUFFICES ASSUME TypeOK, Named, [Next]_vars PROVE TypeOK' /\ Named'
  OBVIOUS
<1>a. socket \in [Sockets -> SocketRecords] /\ handler \in [Sockets -> HandlerRecords]
  BY DEF TypeOK, SocketRecords, HandlerRecords
<1>b. ASSUME socket' \in [Sockets -> SocketRecords], handler' \in [Sockets -> HandlerRecords],
             terminal' \in [VMs -> Sockets \cup {Absent}],
             sync' \in [Syncs -> [at : {"fleets", "scenarios", "apply"}, vms : SUBSET VMs]],
             readded' \subseteq VMs, UNCHANGED world
      PROVE  TypeOK'
  BY <1>b DEF TypeOK, SocketRecords, HandlerRecords, world
<1>1. CASE World
  <2>1. CASE Outage
    BY <2>1, ConstantsOK DEF TypeOK, Named, Outage, Event
  <2>2. ASSUME NEW v \in VMs, SSHChanges(v) PROVE TypeOK' /\ Named'
    BY <2>2, ConstantsOK DEF TypeOK, Named, SSHChanges, Event
  <2>3. ASSUME NEW v \in VMs, NEW place \in Places, List(v, place) PROVE TypeOK' /\ Named'
    BY <2>3, ConstantsOK DEF TypeOK, Named, List, Event
  <2> QED
    BY <1>1, <2>1, <2>2, <2>3 DEF World
<1>2. ASSUME NEW y \in Syncs, FetchFleets(y) \/ FetchScenarios(y) PROVE TypeOK' /\ Named'
  <2>1. Fetched("fleets") \subseteq VMs /\ Fetched("scenarios") \subseteq VMs
    BY DEF Fetched
  <2>2. sync' \in [Syncs -> [at : {"fleets", "scenarios", "apply"}, vms : SUBSET VMs]]
    BY <1>2, <2>1 DEF TypeOK, FetchFleets, FetchScenarios
  <2> QED
    BY <1>2, <2>2 DEF TypeOK, Named, FetchFleets, FetchScenarios, world
<1>3. ASSUME NEW y \in Syncs, Apply(y) PROVE TypeOK' /\ Named'
  <2>1. \A s \in Sockets : CloseSockets(Gone(sync[y].vms))[s] \in SocketRecords
    BY <1>a DEF CloseSockets, SocketRecords, SocketStates
  <2>2. \A s \in Sockets : /\ CloseSockets(Gone(sync[y].vms))[s].vm = socket[s].vm
                           /\ CloseSockets(Gone(sync[y].vms))[s].state # "unused"
                                <=> socket[s].state # "unused"
    BY <1>a DEF CloseSockets, SocketRecords
  <2>3. \A s \in Sockets : socket'[s] \in SocketRecords
    BY <1>3, <2>1, ApplyCases, Records
  <2>4. \A s \in Sockets : socket'[s].state # "unused" => socket'[s].vm \in VMs
    <3> SUFFICES ASSUME NEW s \in Sockets, socket'[s].state # "unused" PROVE socket'[s].vm \in VMs
      OBVIOUS
    <3>1. CASE \E v \in VMs : socket'[s] = Connecting(v)
      BY <3>1 DEF Connecting
    <3>2. CASE socket'[s] = CloseSockets(Gone(sync[y].vms))[s]
      BY <2>2, <3>2 DEF Named
    <3> QED
      BY <1>3, <3>1, <3>2, ApplyCases
  <2>5. \A v \in VMs : terminal'[v] \in Sockets \cup {Absent}
    BY <1>3, ApplyCases DEF Unused, TypeOK
  <2>6. socket' \in [Sockets -> SocketRecords]
    BY <1>3, <2>3, ApplyEffect
  <2>7. terminal' \in [VMs -> Sockets \cup {Absent}]
    BY <1>3, <2>5, ApplyEffect
  <2>8. sync' \in [Syncs -> [at : {"fleets", "scenarios", "apply"}, vms : SUBSET VMs]]
    BY <1>3, ApplyEffect DEF TypeOK, NewSync
  <2>9. readded' \subseteq VMs /\ UNCHANGED <<listed, up, answering, events, handler>>
    BY <1>3, ApplyEffect DEF TypeOK, New
  <2>10. TypeOK'
    BY <1>a, <1>b, <2>6, <2>7, <2>8, <2>9 DEF world
  <2> QED
    BY <2>4, <2>10 DEF Named
<1>4. ASSUME NEW s \in Sockets, Upgrade(s) PROVE TypeOK' /\ Named'
  <2>1. socket[s].vm \in VMs
    BY <1>4 DEF Upgrade, Named
  <2>2. socket' \in [Sockets -> SocketRecords] /\ Named'
    BY <1>a, <1>4 DEF Upgrade, SocketRecords, SocketStates, Named
  <2>3. handler' \in [Sockets -> HandlerRecords]
    BY <1>a, <1>4, <2>1, Records DEF Upgrade
  <2> QED
    BY <1>b, <1>4, <2>2, <2>3 DEF Upgrade, TypeOK
<1>5. ASSUME NEW s \in Sockets, CloseEvent(s) PROVE TypeOK' /\ Named'
  <2>1. socket[s].vm \in VMs
    BY <1>5 DEF CloseEvent, Named
  <2>2. socket' \in [Sockets -> SocketRecords] /\ Named'
    BY <1>a, <1>5, <2>1 DEF CloseEvent, SocketRecords, SocketStates, Named
  <2> QED
    BY <1>a, <1>b, <1>5, <2>2 DEF CloseEvent, TypeOK
<1>6. ASSUME NEW s \in Sockets, Retry(s) PROVE TypeOK' /\ Named'
  <2>1. socket[s].vm \in VMs
    BY <1>6 DEF Retry, Named
  <2>2. CASE terminal[socket[s].vm] = Absent
    <3>1. socket' = [socket EXCEPT ![s] = NoSocket] /\ UNCHANGED terminal
      BY <1>6, <2>2 DEF Retry
    <3>2. socket' \in [Sockets -> SocketRecords] /\ Named'
      BY <1>a, <3>1, Records DEF NoSocket, Named
    <3> QED
      BY <1>a, <1>b, <1>6, <3>1, <3>2 DEF Retry, TypeOK
  <2>3. CASE terminal[socket[s].vm] # Absent
    <3> PICK n \in Unused \cup {s} :
           /\ socket' = [[socket EXCEPT ![s] = NoSocket] EXCEPT ![n] = Connecting(socket[s].vm)]
           /\ terminal' = [terminal EXCEPT ![socket[s].vm] = n]
      BY <1>6, <2>3, RetryEffect
    <3>1. n \in Sockets
      BY DEF Unused
    <3>2. socket' \in [Sockets -> SocketRecords]
      BY <1>a, <2>1, <3>1, Records
    <3>3. Named'
      BY <1>a, <2>1, <3>1 DEF NoSocket, Connecting, Named
    <3>4. terminal' \in [VMs -> Sockets \cup {Absent}]
      BY <2>1, <3>1 DEF TypeOK
    <3> QED
      BY <1>a, <1>b, <1>6, <3>2, <3>3, <3>4 DEF Retry, TypeOK
  <2> QED
    BY <2>2, <2>3
<1>7. ASSUME NEW s \in Sockets, HandlerStep(s) \/ SetupFails(s) PROVE TypeOK' /\ Named'
  <2>1. handler' \in [Sockets -> HandlerRecords]
    BY <1>a, <1>7, Records, ConstantsOK
    DEF HandlerStep, Connect, DialFails, ReadFails, SetupFails, Return, HandlerRecords
  <2>2. UNCHANGED <<world, sync, terminal, socket, readded>>
    BY <1>7 DEF HandlerStep, Connect, DialFails, ReadFails, SetupFails
  <2> QED
    BY <1>a, <1>b, <2>1, <2>2 DEF TypeOK, Named
<1>8. ASSUME NEW s \in Sockets, ShellEnds(s) PROVE TypeOK' /\ Named'
  <2>1. handler' \in [Sockets -> HandlerRecords]
    BY <1>a, <1>8 DEF ShellEnds, HandlerRecords
  <2> QED
    BY <1>8, <2>1, ConstantsOK DEF ShellEnds, Event, TypeOK, Named, HandlerRecords
<1>9. CASE UNCHANGED vars
  BY <1>9 DEF vars, world, TypeOK, Named
<1> QED
  BY <1>1, <1>2, <1>3, <1>4, <1>5, <1>6, <1>7, <1>8, <1>9 DEF Next, SyncStep, SocketStep

-----------------------------------------------------------------------------
(***************************************************************************)
(* Entries and sockets.                                                    *)
(***************************************************************************)

\* syncVMs closes the sockets of the entries it removes, and no other.
LEMMA ApplyKeeps ==
  ASSUME PageInv, NEW y \in Syncs, Apply(y)
  PROVE  TerminalIsAttached' /\ Owned'
<1> DEFINE gone == Gone(sync[y].vms)
           new == New(sync[y].vms)
           closed == CloseSockets(gone)
<1>a. socket \in [Sockets -> SocketRecords] /\ Absent \notin Sockets
  BY ConstantsOK DEF PageInv, TypeOK, SocketRecords
<1>1. \A v \in VMs :
        \/ v \in new /\ terminal[v] = Absent
             /\ terminal'[v] \in Unused /\ socket'[terminal'[v]] = Connecting(v)
        \/ v \in gone /\ terminal'[v] = Absent
        \/ v \notin new /\ v \notin gone /\ terminal'[v] = terminal[v]
  BY ApplyCases DEF PageInv
<1>2. /\ \A s \in Sockets : \/ \E v \in VMs : terminal'[v] = s /\ socket'[s] = Connecting(v)
                            \/ socket'[s] = closed[s]
      /\ \A s \in Sockets \ Unused : socket'[s] = closed[s]
  BY ApplyCases DEF PageInv
<1>3. readded' = readded \cup {v \in new : Left(v) # {}}
  BY ApplyEffect
<1>4. /\ \A v \in new : terminal[v] = Absent
      /\ \A v \in gone : terminal[v] # Absent
  BY DEF New, Gone
<1>5. \A s \in Sockets :
        /\ closed[s].vm = socket[s].vm
        /\ closed[s].state # "unused" => socket[s].state # "unused"
        /\ socket[s].vm \notin gone \/ terminal[socket[s].vm] # s => closed[s] = socket[s]
        /\ socket[s].vm \in gone /\ terminal[socket[s].vm] = s =>
             closed[s].state \notin {"connecting", "open"}
  BY <1>a DEF CloseSockets, SocketRecords
<1>6. \A s \in Sockets : closed[s].state \in SocketStates
  BY <1>a DEF CloseSockets, SocketRecords, SocketStates
<1> HIDE DEF gone, new, closed
<1>7. TerminalIsAttached'
  <2> SUFFICES ASSUME NEW v \in VMs, terminal'[v] # Absent
               PROVE  /\ socket'[terminal'[v]].vm = v
                      /\ socket'[terminal'[v]].state \in {"connecting", "open", "retries"}
    BY DEF TerminalIsAttached
  <2>1. CASE socket'[terminal'[v]] = Connecting(v)
    BY <2>1 DEF Connecting
  <2>2. CASE v \notin new /\ v \notin gone /\ terminal'[v] = terminal[v]
    <3> DEFINE t == terminal[v]
    <3>1. t \in Sockets /\ socket[t].vm = v /\ socket[t].state \in {"connecting", "open", "retries"}
      BY <2>2 DEF PageInv, TypeOK, TerminalIsAttached
    <3>2. t \notin Unused
      BY <3>1 DEF Unused
    <3>3. socket'[t] = socket[t]
      BY <1>2, <1>5, <2>2, <3>1, <3>2
    <3> QED
      BY <2>2, <3>1, <3>3
  <2> QED
    BY <1>1, <2>1, <2>2
<1>8. Owned'
  <2> SUFFICES ASSUME NEW s \in Sockets, socket'[s].state # "unused"
               PROVE  \/ terminal'[socket'[s].vm] = s
                      \/ terminal'[socket'[s].vm] = Absent /\ socket'[s].state \in {"closing", "retries"}
                      \/ socket'[s].vm \in readded'
    BY DEF Owned
  <2>1. CASE \E v \in VMs : terminal'[v] = s /\ socket'[s] = Connecting(v)
    BY <2>1 DEF Connecting
  <2>2. CASE socket'[s] = closed[s]
    <3> DEFINE v == socket[s].vm
    <3>1. socket'[s].vm = v /\ socket[s].state # "unused"
      BY <1>5, <2>2
    <3>2. v \in VMs
      BY <3>1 DEF PageInv, Named
    <3>3. \/ terminal[v] = s
          \/ terminal[v] = Absent /\ socket[s].state \in {"closing", "retries"}
          \/ v \in readded
      BY <3>1 DEF PageInv, Owned
    <3> HIDE DEF v
    <3>4. CASE v \in readded
      BY <1>3, <3>1, <3>4
    <3>5. CASE terminal[v] = s /\ v \in gone
      <4>1. terminal'[v] = Absent
        BY <1>1, <1>4, <3>2, <3>5
      <4>2. closed[s].state \in {"closing", "retries"}
        BY <1>5, <1>6, <2>2, <3>5 DEF v, SocketStates
      <4> QED
        BY <2>2, <3>1, <4>1, <4>2
    <3>6. CASE terminal[v] = s /\ v \notin gone
      BY <1>a, <1>1, <1>4, <3>1, <3>2, <3>6
    <3>7. CASE terminal[v] = Absent /\ socket[s].state \in {"closing", "retries"}
      <4>1. CASE v \in new
        <5>1. s \in Left(v)
          BY <3>1 DEF Left, v
        <5> QED
          BY <1>3, <3>1, <4>1, <5>1
      <4>2. CASE v \notin new
        <5>1. terminal'[v] = Absent
          BY <1>1, <1>4, <3>2, <3>7, <4>2
        <5>2. closed[s] = socket[s]
          BY <1>a, <1>5, <3>7 DEF v
        <5> QED
          BY <2>2, <3>1, <3>7, <5>1, <5>2
      <4> QED
        BY <4>1, <4>2
    <3> QED
      BY <3>3, <3>4, <3>5, <3>6, <3>7
  <2> QED
    BY <1>2, <2>1, <2>2
<1> QED
  BY <1>7, <1>8

\* A timer gives up its own socket and opens another one for the entry it finds,
\* on which no entry's socket is lost.
LEMMA RetryKeeps ==
  ASSUME PageInv, NEW s \in Sockets, Retry(s)
  PROVE  TerminalIsAttached' /\ Owned'
<1> DEFINE v == socket[s].vm
<1>a. /\ socket \in [Sockets -> SocketRecords] /\ Absent \notin Sockets
      /\ terminal \in [VMs -> Sockets \cup {Absent}]
  BY ConstantsOK DEF PageInv, TypeOK, SocketRecords
<1>1. socket[s].state = "retries" /\ v \in VMs /\ UNCHANGED readded
  BY DEF Retry, PageInv, Named
<1>2. \A w \in VMs : terminal[w] # Absent =>
        /\ terminal[w] \in Sockets /\ socket[terminal[w]].vm = w
        /\ socket[terminal[w]].state \in {"connecting", "open", "retries"}
        /\ terminal[w] \notin Unused
  BY <1>a DEF PageInv, TerminalIsAttached, Unused
<1>3. \A t \in Sockets : socket[t].state # "unused" =>
        \/ terminal[socket[t].vm] = t
        \/ terminal[socket[t].vm] = Absent /\ socket[t].state \in {"closing", "retries"}
        \/ socket[t].vm \in readded
  BY DEF PageInv, Owned
<1>4. CASE terminal[v] = Absent
  <2>1. socket' = [socket EXCEPT ![s] = NoSocket] /\ UNCHANGED terminal
    BY <1>4 DEF Retry
  <2>2. socket'[s].state = "unused" /\ \A t \in Sockets \ {s} : socket'[t] = socket[t]
    BY <1>a, <2>1 DEF NoSocket
  <2>3. \A w \in VMs : terminal[w] # s
    BY <1>a, <1>2, <1>4
  <2>4. TerminalIsAttached'
    BY <1>2, <2>1, <2>2, <2>3 DEF TerminalIsAttached
  <2>5. Owned'
    BY <1>1, <1>3, <2>1, <2>2 DEF Owned
  <2> QED
    BY <2>4, <2>5
<1>5. CASE terminal[v] # Absent
  <2> PICK n \in Unused \cup {s} :
         /\ socket' = [[socket EXCEPT ![s] = NoSocket] EXCEPT ![n] = Connecting(v)]
         /\ terminal' = [terminal EXCEPT ![v] = n]
    BY <1>5, RetryEffect
  <2>1. n \in Sockets
    BY DEF Unused
  <2>2. /\ socket'[n].vm = v /\ socket'[n].state = "connecting"
        /\ s # n => socket'[s].state = "unused"
        /\ \A t \in Sockets \ {s, n} : socket'[t] = socket[t]
    BY <1>a, <2>1 DEF NoSocket, Connecting
  <2>3. terminal'[v] = n /\ \A w \in VMs \ {v} : terminal'[w] = terminal[w]
    BY <1>a, <1>1
  <2>4. \A w \in VMs \ {v} : terminal[w] # s /\ terminal[w] # n
    BY <1>a, <1>2, <2>1
  <2> HIDE DEF v
  <2>5. TerminalIsAttached'
    <3> SUFFICES ASSUME NEW w \in VMs, terminal'[w] # Absent
                 PROVE  /\ socket'[terminal'[w]].vm = w
                        /\ socket'[terminal'[w]].state \in {"connecting", "open", "retries"}
      BY DEF TerminalIsAttached
    <3>1. CASE w = v
      BY <2>2, <2>3, <3>1
    <3>2. CASE w # v
      <4>1. terminal'[w] = terminal[w] /\ terminal[w] \in Sockets \ {s, n}
        BY <1>2, <2>3, <2>4, <3>2
      <4>2. socket'[terminal[w]] = socket[terminal[w]]
        BY <2>2, <4>1
      <4> QED
        BY <1>2, <4>1, <4>2
    <3> QED
      BY <3>1, <3>2
  <2>6. Owned'
    <3> SUFFICES ASSUME NEW t \in Sockets, socket'[t].state # "unused"
                 PROVE  \/ terminal'[socket'[t].vm] = t
                        \/ terminal'[socket'[t].vm] = Absent /\ socket'[t].state \in {"closing", "retries"}
                        \/ socket'[t].vm \in readded'
      BY DEF Owned
    <3>1. CASE t = n
      BY <2>2, <2>3, <3>1
    <3>2. CASE t # n
      <4>1. t # s /\ socket'[t] = socket[t] /\ socket[t].vm \in VMs
        BY <2>2, <3>2 DEF PageInv, Named
      <4>2. CASE socket[t].vm # v
        BY <1>1, <1>3, <2>3, <4>1, <4>2
      <4>3. CASE socket[t].vm = v
        <5>1. terminal[v] = s \/ v \in readded
          BY <1>1, <1>3, <1>5 DEF v
        <5>2. terminal[v] = t \/ v \in readded
          BY <1>3, <1>5, <4>1, <4>3
        <5> QED
          BY <1>1, <4>1, <4>3, <5>1, <5>2
      <4> QED
        BY <4>2, <4>3
    <3> QED
      BY <3>1, <3>2
  <2> QED
    BY <2>5, <2>6
<1> QED
  BY <1>4, <1>5

\* Every step of the page, the browser, the server and the world keeps entries
\* and sockets together.
LEMMA KeepStep == PageInv /\ [Next]_vars => TerminalIsAttached' /\ Owned'
<1> SUFFICES ASSUME PageInv, [Next]_vars PROVE TerminalIsAttached' /\ Owned'
  OBVIOUS
<1>a. socket \in [Sockets -> SocketRecords] /\ terminal \in [VMs -> Sockets \cup {Absent}]
  BY DEF PageInv, TypeOK, SocketRecords
<1>1. CASE UNCHANGED <<terminal, socket, readded>>
  BY <1>1 DEF PageInv, TerminalIsAttached, Owned
<1>2. ASSUME NEW s \in Sockets, Upgrade(s) PROVE TerminalIsAttached' /\ Owned'
  <2>1. /\ socket'[s].vm = socket[s].vm /\ socket'[s].state = "open"
        /\ \A t \in Sockets \ {s} : socket'[t] = socket[t]
        /\ UNCHANGED <<terminal, readded>> /\ socket[s].state = "connecting"
    BY <1>a, <1>2 DEF Upgrade, SocketRecords
  <2> QED
    BY <1>a, <2>1 DEF PageInv, TerminalIsAttached, Owned
<1>3. ASSUME NEW s \in Sockets, CloseEvent(s) PROVE TerminalIsAttached' /\ Owned'
  <2>1. /\ socket'[s].vm = socket[s].vm /\ socket'[s].state = "retries"
        /\ \A t \in Sockets \ {s} : socket'[t] = socket[t]
        /\ UNCHANGED <<terminal, readded>> /\ socket[s].state # "unused"
    BY <1>a, <1>3 DEF CloseEvent, SocketRecords
  <2> QED
    BY <1>a, <2>1 DEF PageInv, TerminalIsAttached, Owned
<1> QED
  BY <1>1, <1>2, <1>3, ApplyKeeps, RetryKeeps
  DEF Next, World, SyncStep, SocketStep, HandlerStep, Outage, SSHChanges, List, FetchFleets,
      FetchScenarios, Connect, DialFails, ReadFails, SetupFails, ShellEnds, vars

\* The invariant holds in every state.
THEOREM PageInvHolds == Spec => []PageInv
<1>1. Init => PageInv
  <2> SUFFICES ASSUME Init PROVE PageInv
    OBVIOUS
  <2>1. socket \in [Sockets -> SocketRecords] /\ handler \in [Sockets -> HandlerRecords]
    BY Records DEF Init
  <2>2. events \in 0..MaxEvents /\ listed \in [VMs -> Places]
    BY ConstantsOK DEF Init, Places
  <2>3. TypeOK
    BY <2>1, <2>2 DEF Init, TypeOK, NewSync, SocketRecords, HandlerRecords
  <2>4. Named /\ TerminalIsAttached /\ Owned
    BY DEF Init, Named, TerminalIsAttached, Owned, NoSocket
  <2> QED
    BY <2>3, <2>4 DEF PageInv
<1>2. PageInv /\ [Next]_vars => PageInv'
  BY TypeStep, KeepStep DEF PageInv
<1> QED
  BY <1>1, <1>2, PTL DEF Spec

\* The page, the browser's sockets and the handlers keep their types.
THEOREM TypeCorrect == Spec => []TypeOK
BY PageInvHolds, PTL DEF PageInv

\* However syncs overlap and sockets break, an entry has a socket that is being
\* opened, is open or will be tried again.
THEOREM TerminalsAttached == Spec => []TerminalIsAttached
BY PageInvHolds, PTL DEF PageInv

\* A VM has a socket besides the one of its terminal only if a terminal was added
\* for it while a socket or a timer of an earlier one was left.
THEOREM NoSecondSocket == Spec => []OneSocketPerTerminal
<1>1. PageInv => OneSocketPerTerminal
  BY DEF PageInv, Owned, OneSocketPerTerminal
<1> QED
  BY <1>1, PageInvHolds, PTL
=============================================================================
