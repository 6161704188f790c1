SPECIFICATION Spec
CONSTANTS
  Fleets = {f1, f2, f3}
  Scenarios = {s1}
  Counts = {1}
SYMMETRY Symmetry
INVARIANT
  GloballyUniqueIDs
