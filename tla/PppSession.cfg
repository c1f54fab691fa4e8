CONSTANTS
  MaxConfReq = 2
  MaxTermReq = 2
  QueueLen = 2
  MboxSize = 2
SPECIFICATION FairSpec
INVARIANT TypeOK
INVARIANT CreateSucceeds
INVARIANT FreedIsInert
INVARIANT OneTimerEach
INVARIANT RunningIsNegotiated
INVARIANT SomebodyWatches
INVARIANT AtMostOneOldByte
INVARIANT QuietWhileArming
INVARIANT IInv
PROPERTY Reconnects
PROPERTY SilenceEnds
