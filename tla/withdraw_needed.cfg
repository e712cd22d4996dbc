SPECIFICATION Spec
CONSTANTS
  r1 = r1  r2 = r2  d = d  g = g  p1 = p1  p2 = p2
  nLocal = nLocal  nRoot = nRoot  nGateway = nGateway
  Route = {r1, r2, d, g}
  EntryOf <- MCEntryOf
  ToGateway = {nRoot, nGateway}
  Prefix = {p1, p2}
  Policy <- MCPolicy
  NoPrefix = NoPrefix
  NoRr = NoRr
  MaxChanges = 5
  MaxFlying = 2
PROPERTIES WithdrawsUnneeded
CHECK_DEADLOCK FALSE
