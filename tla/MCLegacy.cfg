SPECIFICATION FairSpec
CONSTANTS
  c = c
  s1 = s1
  s2 = s2
  g = g
  j1 = j1
  j2 = j2
  runSteps = runSteps
  runGroups1 = runGroups1
  collect = collect
  runJobs = runJobs
  submit1 = submit1
  report1 = report1
  submit2 = submit2
  report2 = report2
  forCampaign = forCampaign
  forStep = forStep
  None = None
  Campaign = c
  Steps = {s1, s2}
  Groups = {g}
  Jobs = {j1, j2}
  Children <- Below
  ScriptsOf <- Blocks
  Kind <- Handlers
  Prereqs <- Before
  Entries = {forCampaign, forStep}
  NodeOf <- NodesOf
  Queued = {forCampaign}
  Requests <- MCRequests
  Verdicts <- Ends
  Mishaps <- MCMishaps
  MaxTroubles = 1
INVARIANTS
  LegacyTypeOK
  LaunchesAreAccounted
  WorkWaits
PROPERTIES
  AcceptedMeansDone
  LegacyCampaignConcludes
CHECK_DEADLOCK FALSE
