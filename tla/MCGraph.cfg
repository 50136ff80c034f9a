SPECIFICATION GraphSpec
CONSTANTS
  s = s
  a = a
  x = x
  y = y
  e = e
  Nodes = {s, a, x, y, e}
  START = s
  END = e
  Kind <- Kinds
  InitialEdges <- Chain
  EditRequests <- AnyEdit
  PostRequests <- PostsAgain
  WithDeletes = TRUE
  MaxEdits = 3
  MaxInFlight = 1
INVARIANT
  GraphTypeOK
PROPERTIES
  ResumedGraphIsWalkable
  EditsKeepGraphValid
  OrderIsKept
