SPECIFICATION Spec
CONSTANTS
  VMs = {v1}
  Sockets = {1, 2}
  Syncs = {y1, y2}
  MaxAttempts = 2
  MaxEvents = 2
  ServesAPI = FALSE
  Absent = Absent
PROPERTIES
  RunningVMIsShown
