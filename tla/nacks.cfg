SPECIFICATION Spec
CONSTANTS
  c = c  c2 = c2  m1 = m1  m2 = m2  r = r
  kd = kd  kf = kf  kt = kt  nd = nd  nt = nt  mp = mp  rv = rv  root = root
  dd = dd  ack = ack
  Face = {c, c2, m1, m2, r}
  LocalFace = {}
  P2pFace = {c, m1, m2, r}
  AdHocFace = {}
  BreakableFace = {}
  Key = {kd}
  Name = {nd, nt}
  NameOf <- MCNameOf
  FreshKey = {}
  Mp = {mp}
  Rv = rv
  Root = root
  NoPrefix = NoPrefix
  PrefixOf <- MCPrefixOf
  RootIsKite = FALSE
  StaticFib <- FibTwoMps
  Sender <- ConsumersAndM1
  Pkt = {dd}
  Satisfies <- MCSatisfies
  Origin <- MCOrigin
  Announces <- MCAnnounces
  Nonce = {z1, z2}
  HopLimited = FALSE
  CsEnabled = FALSE
  Stale = Stale
  MeasurementsExpire = FALSE
  Hints = {TRUE, FALSE}
  MaxInterests <- Three
  MaxRibTasks = 1
  MaxValidations = 1
SYMMETRY NonceSymmetry
INVARIANTS PendingHasUpstream
PROPERTIES RvBeforeNack
CHECK_DEADLOCK FALSE
