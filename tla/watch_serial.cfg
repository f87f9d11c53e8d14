SPECIFICATION FairSpec
CONSTANTS
  N = 2
  Cap = 1
  Versions = {v1, v2}
  Keep = 2
  Raises <- HttpIndex
  Caught <- AlvisRun
  None = None
INVARIANTS TypeOK StateMatchesIndex
PROPERTIES Implements EveryPipelineRuns Settles
