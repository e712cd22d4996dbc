SPECIFICATION Spec
CONSTANTS
  root = root  a = a  ab = ab  f1 = f1  f2 = f2  o1 = o1  o2 = o2
  Name = {root, a}
  Prefixes <- MCPrefixes
  NoName = NoName
  Face = {f1, f2}
  Origin = {o1, o2}
  Cost = {1, 2, 3}
  Requests <- Mixed
  NewFace = {f2}
  Breakable = {f1}
  NoFace = NoFace
  NoCost = NoCost
  Undo = FALSE
  Fetching = TRUE
  MaxRequests = 3
  MaxQueue = 1
  MaxTimeouts = 1
INVARIANTS InProgressIsAnswered
CHECK_DEADLOCK FALSE
