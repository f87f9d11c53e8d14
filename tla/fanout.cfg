SPECIFICATION FairSpec
CONSTANTS
  Count = 4
  MaxConcurrency = 2
  Retries = 1
INVARIANTS TypeOK Bounded OnePool
PROPERTIES Ends
CHECK_DEADLOCK FALSE
