SPECIFICATION Spec
CONSTANTS
  c = c  c2 = c2  m1 = m1  m2 = m2  r = r
  kd = kd  kf = kf  kt = kt  nd = nd  nt = nt  mp = mp  rv = rv  root = root
  dd = dd  ack = ack
  Face = {c, m1, m2, r}
  LocalFace = {}
  P2pFace = {c, m1, m2, r}
  AdHocFace = {}
  BreakableFace = {}
  Key = {kd, kt}
  Name = {nd, nt}
  NameOf <- MCNameOf
  FreshKey = {kt}
  Mp = {mp}
  Rv = rv
  Root = root
  NoPrefix = NoPrefix
  PrefixOf <- MCPrefixOf
  RootIsKite = FALSE
  StaticFib <- FibOneMp
  Sender <- ConsumerAndM2
  Pkt = {ack}
  Satisfies <- MCSatisfies
  Origin <- MCOrigin
  Announces <- MCAnnounces
  Nonce = {z1, z2}
  HopLimited = FALSE
  CsEnabled = FALSE
  Stale = Stale
  MeasurementsExpire = FALSE
  Hints = {TRUE}
  MaxInterests <- TwoAndOneTrace
  MaxRibTasks = 2
  MaxValidations = 1
PROPERTIES NewMpGetsPendingInterests
CHECK_DEADLOCK FALSE
