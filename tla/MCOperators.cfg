SPECIFICATION OperatorsFairSpec
CONSTANTS
  s = s
  b = b
  e = e
  Nodes = {s, b, e}
  START = s
  END = e
  SimplePaths <- ChainPaths
  Breakpoints = {b}
  Launching = {s}
  Flaky = {s}
  AllowTaskUpsert = TRUE
  InitialCampaign = "running"
  CampaignTargets <- NoRequests
  MaxRequests = 0
  WithRpc = FALSE
  MaxCrashes = 0
  NodeTargets <- EveryTarget
  Restartable = {s}
  MaxPatches = 1
INVARIANTS
  OperatorsTypeOK
  BreakpointsNeedUsers
  AcceptedWorkWasDone
PROPERTY
  ReadyNodesAreStarted
