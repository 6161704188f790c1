SPECIFICATION FairSpec
CONSTANTS
  Calls = {c1}
  FaultIDs = {i1}
  Types <- OneOfEach
  NoCall = NoCall
PROPERTY
  AutoRecovers
