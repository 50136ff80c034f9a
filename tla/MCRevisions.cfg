SPECIFICATION Spec
CONSTANTS
  Map = Map
  List = List
  Dash = Dash
  Refused = Refused
  Library = Library
  c1 = c1
  butler = butler
  bps = bps
  main = main
  Node = Node
  None = None
  Metadata = Metadata
  Name = Name
  Spc = Spc
  a = a
  b = b
  l = l
  x = x
  y = y
  Campaigns = {c1}
  Kinds = {butler, bps}
  Names = {main}
  Documents <- MCDocuments
  Patches <- MCPatches
  FirstVersions = {0, 2}
  MaxInFlight = 2
  MaxVersions = 4
INVARIANTS
  HistoryIsLinear
  PatchedAsRequested
  ConfigurationsAgree
CHECK_DEADLOCK FALSE
