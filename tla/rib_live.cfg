SPECIFICATION LiveSpec
CONSTANTS
  root = root  a = a  ab = ab  f1 = f1  f2 = f2  o1 = o1  o2 = o2
  Name = {root, a, ab}
  Prefixes <- MCPrefixes
  NoName = NoName
  Face = {f1, f2}
  Origin = {o1}
  Cost = {1}
  Requests <- Inheritable
  NewFace = {}
  Breakable = {f2}
  NoFace = NoFace
  NoCost = NoCost
  Undo = TRUE
  Fetching = TRUE
  MaxRequests = 3
  MaxQueue = 1
  MaxTimeouts = 0
PROPERTIES UpdatesEnd DeadRoutesLeave
CHECK_DEADLOCK FALSE
