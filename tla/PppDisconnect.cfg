CONSTANTS
  MaxConfReq = 1
  MaxTermReq = 1
  QueueLen = 1
  MboxSize = 1
SPECIFICATION FairSpec
PROPERTY DisconnectIsNoticed
