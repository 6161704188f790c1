SPECIFICATION Spec
CONSTANTS
  VMs = {v1}
  Sockets = {1, 2}
  Syncs = {y1, y2}
  MaxAttempts = 2
  MaxEvents = 3
  ServesAPI = TRUE
  Absent = Absent
INVARIANTS
  TerminalIsAttached
  OneSocketPerTerminal
PROPERTIES
  ListConverges
  HandlerEnds
  TerminalConnects
