SPECIFICATION Spec
CONSTANTS
  s = s
  a = a
  e = e
  b = b
  Nodes = {s, a, b, e}
  START = s
  END = e
  SimplePaths <- DiamondPaths
  Breakpoints = {b}
  Launching = {s, a, e}
  Flaky = {s, a, e}
  AllowTaskUpsert = TRUE
  InitialCampaign = "running"
  CampaignTargets <- NoRequests
  MaxRequests = 0
  WithRpc = FALSE
  MaxCrashes = 0
INVARIANT
  EndWaitsForAllNodes
