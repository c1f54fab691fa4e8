CONSTANTS
  QueueCap = 3
  MaxSessions = 6
SPECIFICATION FairSpec
CHECK_DEADLOCK FALSE
INVARIANT TypeOK
INVARIANT BufferHandedOver
INVARIANT OneRequest
PROPERTY ReadyIsNoticed
PROPERTY CoreLockReleased
