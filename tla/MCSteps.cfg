SPECIFICATION StepSpec
CONSTANTS
  s = s
  a = a
  c = c
  f = f
  g = g
  h = h
  k = k
  e = e
  Nodes = {s, a, c, f, g, h, k, e}
  START = s
  END = e
  Kind <- Kinds
  Step = a
  Collect = c
  Splits <- SomeSplits
  InitialEdges <- Around
  NoNode = NoNode
  MaxCrashes = 3
INVARIANTS
  StepTypeOK
  CommittedGraphIsValid
  GroupsAreParallel
  CollectGuardsSuccessors
PROPERTY
  RememberedResetRestores
CHECK_DEADLOCK FALSE
