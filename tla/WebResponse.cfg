CONSTANTS
  QueueCap = 3
  MaxSessions = 2
SPECIFICATION FairSpec
CHECK_DEADLOCK FALSE
PROPERTY ResponseIsAnAnswer
