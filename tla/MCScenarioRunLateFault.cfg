SPECIFICATION FairSpec
CONSTANTS
  v1 = v1
  v2 = v2
  f1 = f1
  f2 = f2
  f3 = f3
  f4 = f4
  VMs = {v1, v2}
  Faults = {f1, f2, f3, f4}
  Targets <- AllTargets
  Triggered = {f3}
  Misdated = {f4}
  ObjectiveCount = 1
  MaxDials = 1
PROPERTY
  NoFaultAfterReturn
CHECK_DEADLOCK FALSE
