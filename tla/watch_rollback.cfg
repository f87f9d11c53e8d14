SPECIFICATION Spec
CONSTANTS
  N = 2
  Cap = 2
  Versions = {v1}
  Keep = 2
  Raises <- HttpIndex
  Caught <- WatchAsync
  None = None
PROPERTIES FailedRunLeavesState
