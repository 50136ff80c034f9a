SPECIFICATION FairSpec
CONSTANTS
  s = s
  a = a
  e = e
  b = b
  Nodes = {s, a, e}
  START = s
  END = e
  SimplePaths <- ChainPaths
  Breakpoints = {}
  Launching = {a}
  Flaky = {a}
  AllowTaskUpsert = TRUE
  InitialCampaign = "running"
  CampaignTargets <- PauseAndResume
  MaxRequests = 1
  WithRpc = FALSE
  MaxCrashes = 1
INVARIANT
  LaunchesAreCounted
PROPERTIES
  RunningNodesAreChecked
  CampaignConcludes
