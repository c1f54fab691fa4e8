CONSTANTS
  tcpip = tcpip
  pppos = pppos
  client = client
  NoThread = NoThread
  Threads <- MCThreads
  Reader = pppos
  QueueLen = 2
  MaxLen = 2
  MaxByte = 4
  QuietArm = TRUE
SPECIFICATION FairSpec
CHECK_DEADLOCK FALSE
INVARIANT TypeOK
INVARIANT InOrder
INVARIANT TransmitterAlone
INVARIANT NoInterruptStorm
INVARIANT ReportedAsSent
INVARIANT IInv
PROPERTY ReceptionStops
PROPERTY CoreLockReleased
PROPERTY ImplementsChannel
