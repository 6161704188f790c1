SPECIFICATION FairSpec
CONSTANTS
  Calls = {c1, c2, c3}
  FaultIDs = {i1}
  Types <- OneOfEach
  NoCall = NoCall
PROPERTY
  StopEndsFault
