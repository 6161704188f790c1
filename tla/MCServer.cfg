SPECIFICATION FairSpec
CONSTANTS
  Fleets = {f1, f2}
  Scenarios = {s1}
  Counts = {0, 1, 2}
INVARIANTS
  TypeOK
  NoIDLeak
  CleanIDsHeld
PROPERTIES
  LowestIDsFirst
  AbortedIsFinal
  StoppedWindsDown
  ImplementsLease
