SPECIFICATION Spec
CONSTANTS
  s = s
  a = a
  e = e
  b = b
  Nodes = {s, e}
  START = s
  END = e
  SimplePaths <- PairPaths
  Breakpoints = {}
  Launching = {}
  Flaky = {e}
  AllowTaskUpsert = TRUE
  InitialCampaign = "paused"
  CampaignTargets <- ResumeAndFinish
  MaxRequests = 2
  WithRpc = TRUE
  MaxCrashes = 0
INVARIANTS
  ProcessedNodesAreReached
  CampaignFollowsEnd
