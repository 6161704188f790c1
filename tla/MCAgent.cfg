SPECIFICATION FairSpec
CONSTANTS
  Calls = {c1, c2}
  FaultIDs = {i1, i2}
  Types <- AllTypes
  NoCall = NoCall
INVARIANTS
  RegisteredIsLive
  OrphanOnlyAfterFailedStart
  NetemHasCleaner
  FillFileHasOwner
PROPERTIES
  TimedFaultRecovers
  TimerEndsOwnFault
