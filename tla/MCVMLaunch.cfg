SPECIFICATION FairSpec
CONSTANTS
  Launches = {v1, v2}
  VMIDs = {0}
  Configs <- MostConfigs
  NoVM = NoVM
INVARIANTS
  OwnResources
  LeftBehind
  ScenarioBootsOwnISO
PROPERTIES
  ImplementsCall
CHECK_DEADLOCK FALSE
