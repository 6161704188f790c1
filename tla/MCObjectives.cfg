SPECIFICATION Spec
CONSTANTS
  Requests <- MCRequests
  IDs <- MCIDs
CHECK_DEADLOCK FALSE
INVARIANTS
  PlanUsesAllocatedIDs
  TargetsResolveToMeant
  OverridesHonoured
  SolvedMeansMet
PROPERTIES
  RepairedIsSolved
