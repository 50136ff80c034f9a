SPECIFICATION Spec
CONSTANTS
  s = s
  a = a
  e = e
  b = b
  Nodes = {s, a, e}
  START = s
  END = e
  SimplePaths <- ChainPaths
  Breakpoints = {}
  Launching = {a}
  Flaky = {}
  AllowTaskUpsert = FALSE
  InitialCampaign = "running"
  CampaignTargets <- PauseAndResume
  MaxRequests = 1
  WithRpc = FALSE
  MaxCrashes = 0
PROPERTY
  OnlyUsersResume
