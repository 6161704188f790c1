---------------------------- MODULE WebTerminal ----------------------------
(***************************************************************************)
(* The web terminal: the page (web/index.html), which follows the lists of *)
(* running VMs and keeps a terminal with a WebSocket for each of them, and *)
(* the handler that joins a WebSocket to an SSH session on the VM          *)
(* (wsHandler of cmd/serve.go).                                            *)
(*                                                                         *)
(* The page is one thread; its steps are the parts between two awaits and  *)
(* the events.  A sync is started every five seconds, whether or not the   *)
(* one before has its answers.  A socket is named by its number; a number  *)
(* is used again when nothing of the old socket is left.  What is typed    *)
(* and shown, the tabs and the status line are left out.                   *)
(***************************************************************************)
EXTENDS Naturals, FiniteSets

CONSTANTS
  VMs,          \* the VM IDs
  Sockets,      \* bound: numbers for the WebSockets that are in use at a time
  Syncs,        \* calls of syncVMs that may overlap
  MaxAttempts,  \* how often wsHandler dials (10 in the code)
  MaxEvents,    \* bound: how often the world around the page changes
  ServesAPI,    \* "onfire server" serves /api; StartWebTerminal does not
  Absent        \* the VM has no entry in vmTerminals

ASSUME ConstantsOK ==
  /\ IsFiniteSet(VMs) /\ IsFiniteSet(Sockets)
  /\ MaxAttempts \in Nat \ {0} /\ MaxEvents \in Nat
  /\ ServesAPI \in BOOLEAN
  /\ Absent \notin Sockets

VARIABLES
  listed,     \* where the API shows a VM as running: fleets, scenarios or nowhere
  up,         \* the server answers the browser
  answering,  \* the VMs whose SSH server answers
  events,     \* changes of the three so far
  sync,       \* what every call of syncVMs is at, and the VMs it has collected
  terminal,   \* vmTerminals: the socket t.ws of the VM's entry
  socket,     \* the browser's side of the sockets
  handler,    \* wsHandler's side of them
  readded     \* VMs that got an entry while a socket of an older one was left (history)

world == <<listed, up, answering, events>>
vars == <<world, sync, terminal, socket, handler, readded>>

Places == {"nowhere", "fleets", "scenarios"}
\* The call is due, or waits for its first answer.
NewSync == [at |-> "fleets", vms |-> {}]
\* A socket "retries" from its close event until the timer of that event fires.
SocketStates == {"unused", "connecting", "open", "closing", "retries"}
NoSocket == [state |-> "unused", vm |-> Absent]
Connecting(v) == [state |-> "connecting", vm |-> v]
\* A "silent" handler reads from the browser, but its shell has ended.
NoHandler == [at |-> "none", attempt |-> 0, vm |-> Absent]

\* The page is opened while the VMs boot.
Init ==
  /\ listed \in [VMs -> {"nowhere", "fleets"}]
  /\ up = TRUE
  /\ answering = {}
  /\ events = 0
  /\ sync = [y \in Syncs |-> NewSync]
  /\ terminal = [v \in VMs |-> Absent]
  /\ socket = [s \in Sockets |-> NoSocket]
  /\ handler = [s \in Sockets |-> NoHandler]
  /\ readded = {}

Unused == {s \in Sockets : socket[s].state = "unused" /\ handler[s].at = "none"}
Left(v) == {s \in Sockets : socket[s].state # "unused" /\ socket[s].vm = v}

-----------------------------------------------------------------------------
(***************************************************************************)
(* The world: VMs come and go, the server is out of reach for a while, a   *)
(* VM's SSH server starts or stops answering.                              *)
(***************************************************************************)

Event == events < MaxEvents /\ events' = events + 1

List(v, place) ==
  /\ Event /\ listed[v] # place
  /\ listed' = [listed EXCEPT ![v] = place]
  /\ UNCHANGED <<up, answering, sync, terminal, socket, handler, readded>>

Outage ==
  /\ Event
  /\ up' = ~up
  /\ UNCHANGED <<listed, answering, sync, terminal, socket, handler, readded>>

SSHChanges(v) ==
  /\ Event
  /\ answering' = IF v \in answering THEN answering \ {v} ELSE answering \cup {v}
  /\ UNCHANGED <<listed, up, sync, terminal, socket, handler, readded>>

-----------------------------------------------------------------------------
(***************************************************************************)
(* syncVMs and fetchAllVMs.                                                *)
(***************************************************************************)

\* What a fetch of a list collects: nothing if it fails or the answer is not ok.
Fetched(place) == IF up /\ ServesAPI THEN {v \in VMs : listed[v] = place} ELSE {}

\* syncVMs is called, and its first fetch ends.
FetchFleets(y) ==
  /\ sync[y].at = "fleets"
  /\ sync' = [sync EXCEPT ![y] = [at |-> "scenarios", vms |-> Fetched("fleets")]]
  /\ UNCHANGED <<world, terminal, socket, handler, readded>>

FetchScenarios(y) ==
  /\ sync[y].at = "scenarios"
  /\ sync' = [sync EXCEPT ![y] = [at |-> "apply", vms |-> @.vms \cup Fetched("scenarios")]]
  /\ UNCHANGED <<world, terminal, socket, handler, readded>>

\* Plausible slip: an empty list removes nothing.
GoneUnlessEmpty(vms) == IF vms = {} THEN {} ELSE {v \in VMs \ vms : terminal[v] # Absent}

\* The entries whose VM is not in the list.
Gone(vms) == {v \in VMs \ vms : terminal[v] # Absent}

New(vms) == {v \in vms : terminal[v] = Absent}

\* Plausible slip: the sockets are left alone.
CloseSocketsNone(gone) == socket

\* removeTerminal closes the socket of the entry.
CloseSockets(gone) ==
  [s \in Sockets |->
     IF /\ socket[s].vm \in gone /\ terminal[socket[s].vm] = s
        /\ socket[s].state \in {"connecting", "open"}
     THEN [socket[s] EXCEPT !.state = "closing"]
     ELSE socket[s]]

\* The rest of syncVMs, which nothing interrupts: removeTerminal for the VMs that
\* are gone, addTerminal, and in it connectWebSocket, for the new ones.
Apply(y) ==
  LET gone == Gone(sync[y].vms)
      new == New(sync[y].vms)
      open == CHOOSE f \in [new -> Unused] : \A v, w \in new : f[v] = f[w] => v = w
  IN /\ sync[y].at = "apply"
     /\ Cardinality(new) <= Cardinality(Unused)
     /\ terminal' = [v \in VMs |-> IF v \in gone THEN Absent
                                   ELSE IF v \in new THEN open[v] ELSE terminal[v]]
     /\ socket' = [s \in Sockets |->
                     IF \E v \in new : open[v] = s
                     THEN Connecting(CHOOSE v \in new : open[v] = s)
                     ELSE CloseSockets(gone)[s]]
     /\ readded' = readded \cup {v \in new : Left(v) # {}}
     /\ sync' = [sync EXCEPT ![y] = NewSync]
     /\ UNCHANGED <<world, handler>>

-----------------------------------------------------------------------------
(***************************************************************************)
(* The sockets.                                                            *)
(***************************************************************************)

\* The server upgrades the connection and calls wsHandler.
Upgrade(s) ==
  /\ up /\ socket[s].state = "connecting"
  /\ socket' = [socket EXCEPT ![s].state = "open"]
  /\ handler' = [handler EXCEPT ![s] = [at |-> "dialing", attempt |-> 1, vm |-> socket[s].vm]]
  /\ UNCHANGED <<world, sync, terminal, readded>>

\* Plausible slip: a close event starts no timer.
CloseEventFinal(s) ==
  /\ \/ socket[s].state = "closing"
     \/ socket[s].state \in {"connecting", "open"} /\ ~up
     \/ socket[s].state = "open" /\ handler[s].at = "none"
  /\ socket' = [socket EXCEPT ![s] = NoSocket]
  /\ UNCHANGED <<world, sync, terminal, handler, readded>>

\* The close event: the page has closed the socket, the server is out of reach, or
\* the handler has returned.  It starts the timer for another try in any case.
CloseEvent(s) ==
  /\ \/ socket[s].state = "closing"
     \/ socket[s].state \in {"connecting", "open"} /\ ~up
     \/ socket[s].state = "open" /\ handler[s].at = "none"
  /\ socket' = [socket EXCEPT ![s].state = "retries"]
  /\ UNCHANGED <<world, sync, terminal, handler, readded>>

\* The timer fires: connectWebSocket if the VM has an entry, be it the entry of this
\* socket or a later one.
Retry(s) ==
  LET v == socket[s].vm
      freed == [socket EXCEPT ![s] = NoSocket]
      free == Unused \cup {n \in {s} : handler[n].at = "none"}
      next == CHOOSE n \in free : TRUE
  IN /\ socket[s].state = "retries"
     /\ IF terminal[v] = Absent
        THEN socket' = freed /\ UNCHANGED terminal
        ELSE /\ free # {}
             /\ socket' = [freed EXCEPT ![next] = Connecting(v)]
             /\ terminal' = [terminal EXCEPT ![v] = next]
     /\ UNCHANGED <<world, sync, handler, readded>>

-----------------------------------------------------------------------------
(***************************************************************************)
(* wsHandler.  While it dials it does not look at the WebSocket.           *)
(***************************************************************************)

Return(s) == handler' = [handler EXCEPT ![s] = NoHandler]

\* A dial succeeds and the session and its shell are started.
Connect(s) ==
  /\ handler[s].at = "dialing" /\ handler[s].vm \in answering
  /\ handler' = [handler EXCEPT ![s].at = "serving"]
  /\ UNCHANGED <<world, sync, terminal, socket, readded>>

\* Plausible slip: the attempts are not counted.
DialFailsForever(s) ==
  /\ handler[s].at = "dialing" /\ handler[s].vm \notin answering
  /\ UNCHANGED vars

\* A dial fails; after the last one the error is sent and the handler returns.
\* The 5 s of ClientConfig.Timeout bound the TCP connect only: a server that takes
\* the connection and stays silent keeps the dial, or a later SSH call, for ever.
DialFails(s) ==
  /\ handler[s].at = "dialing" /\ handler[s].vm \notin answering
  /\ IF handler[s].attempt = MaxAttempts THEN Return(s)
     ELSE handler' = [handler EXCEPT ![s].attempt = @ + 1]
  /\ UNCHANGED <<world, sync, terminal, socket, readded>>

\* The VM is lost between the dial and the shell: an error, and the handler returns.
SetupFails(s) ==
  /\ handler[s].at = "dialing" /\ handler[s].vm \notin answering
  /\ Return(s)
  /\ UNCHANGED <<world, sync, terminal, socket, readded>>

\* The shell exits or its VM is gone: the two output goroutines end, and the loop
\* goes on reading from the browser.
ShellEnds(s) ==
  /\ handler[s].at = "serving"
  /\ Event
  /\ handler' = [handler EXCEPT ![s].at = "silent"]
  /\ UNCHANGED <<listed, up, answering, sync, terminal, socket, readded>>

\* ReadMessage fails, because the browser's side is closed or lost.
ReadFails(s) ==
  /\ handler[s].at \in {"serving", "silent"} /\ socket[s].state # "open"
  /\ Return(s)
  /\ UNCHANGED <<world, sync, terminal, socket, readded>>

-----------------------------------------------------------------------------
World == Outage \/ \E v \in VMs : SSHChanges(v) \/ \E place \in Places : List(v, place)

SyncStep(y) == FetchFleets(y) \/ FetchScenarios(y) \/ Apply(y)
SocketStep(s) == Upgrade(s) \/ CloseEvent(s) \/ Retry(s)
HandlerStep(s) == Connect(s) \/ DialFails(s) \/ ReadFails(s)

Next ==
  \/ World
  \/ \E y \in Syncs : SyncStep(y)
  \/ \E s \in Sockets : SocketStep(s) \/ HandlerStep(s) \/ SetupFails(s) \/ ShellEnds(s)

\* The interval timer goes on, fetches end with an answer or an error, timers fire
\* and events arrive.  Nothing makes wsHandler go on: most of its calls on the SSH
\* connection have no timeout.
Fairness ==
  /\ \A y \in Syncs : WF_vars(SyncStep(y))
  /\ \A s \in Sockets : WF_vars(SocketStep(s))

Spec == Init /\ [][Next]_vars /\ Fairness

-----------------------------------------------------------------------------
(***************************************************************************)
(* Properties.                                                             *)
(***************************************************************************)

\* The state has its shape.
TypeOK ==
  /\ listed \in [VMs -> Places] /\ up \in BOOLEAN /\ answering \subseteq VMs
  /\ events \in 0..MaxEvents
  /\ sync \in [Syncs -> [at : {"fleets", "scenarios", "apply"}, vms : SUBSET VMs]]
  /\ terminal \in [VMs -> Sockets \cup {Absent}]
  /\ socket \in [Sockets -> [state : SocketStates, vm : VMs \cup {Absent}]]
  /\ handler \in [Sockets -> [at : {"none", "dialing", "serving", "silent"},
                              attempt : 0..MaxAttempts, vm : VMs \cup {Absent}]]
  /\ readded \subseteq VMs

\* A terminal is never left without a connection and without the prospect of one:
\* the socket of its entry is being opened, is open or has a timer for the next
\* try.  In particular nothing closes the socket of an entry that stays.
TerminalIsAttached ==
  \A v \in VMs : terminal[v] # Absent =>
    /\ socket[terminal[v]].vm = v
    /\ socket[terminal[v]].state \in {"connecting", "open", "retries"}

\* A VM has no socket but the one of its terminal: what is typed is sent once and
\* removeTerminal ends the session.  It holds as long as no terminal was added
\* while the page still had a socket, or a timer, of an earlier one for the VM: the
\* timer looks for the VM's key, finds the new entry and opens a second socket.
OneSocketPerTerminal ==
  \A s \in Sockets :
    socket[s].state \in {"connecting", "open"} =>
      terminal[socket[s].vm] = s \/ socket[s].vm \in readded

\* The bound on socket numbers is not what holds a sync up in the end: handlers that
\* hang keep their numbers, while a browser never runs out of sockets.
NumbersSuffice ==
  <>[](\A y \in Syncs :
         sync[y].at = "apply" => Cardinality(New(sync[y].vms)) <= Cardinality(Unused))

\* Every VM of a list that stays gets a terminal that stays, and every VM that is
\* in no list any more loses it, whichever of the overlapping syncs ends last and
\* whatever the handlers of its sockets are at.
ListConverges ==
  NumbersSuffice => \A v \in VMs :
    /\ \A place \in {"fleets", "scenarios"} :
         <>[](up /\ listed[v] = place) => <>[](terminal[v] # Absent)
    /\ <>[](listed[v] = "nowhere") => <>[](terminal[v] = Absent)

\* The dials, the SSH handshake, the set-up of the session and the writes to the
\* shell that the handler of s makes end, with or without success.
SSHCallsEnd(s) == WF_vars(HandlerStep(s))

\* A handler whose browser is gone ends if its calls on the SSH connection do, also
\* while it dials a VM that refuses: no goroutine and no SSH connection is left
\* behind.
HandlerEnds ==
  \A s \in Sockets :
    SSHCallsEnd(s) =>
      (handler[s].at # "none" /\ socket[s].state # "open" ~> handler[s].at = "none")

\* A terminal whose VM answers gets its session, if SSH calls end.  The session is "silent" at worst:
\* wsHandler does not tell the browser that the shell has ended.
TerminalConnects ==
  \A v \in VMs :
    /\ \A s \in Sockets : SSHCallsEnd(s)
    /\ <>[](up /\ terminal[v] # Absent /\ v \in answering)
    =>
      <>[](terminal[v] # Absent /\ handler[terminal[v]].at \in {"serving", "silent"})

\* "Once running, open http://localhost:8888 in your browser and investigate"
\* (README.md, of a scenario started with "make scenario"): a VM that runs is shown.
RunningVMIsShown ==
  \A v \in VMs : <>[](up /\ listed[v] = "fleets") => <>(terminal[v] # Absent)
=============================================================================
