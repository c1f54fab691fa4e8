CONSTANTS
  Chunk = 5
  Cap = 2
  MaxRetry = 2
  MaxPauses = 1
  Responses <- MCResponses
SPECIFICATION FairSpec
CHECK_DEADLOCK FALSE
PROPERTY Returns
