SPECIFICATION LiveSpec
CONSTANTS
  p1 = p1  p2 = p2  p3 = p3
  Packet = {p1}
  Size <- MCSize
  Header <- MCHeader
  Mtu = 10
  SingleOverhead = 3
  FragOverhead = 4
  MaxFragments = 3
  MaxRetx = 1
  LossThreshold = 1
  AcksPerPacket = 2
  TxMod = 5
  LastSettled = 2
  NoSeq = NoSeq
  Forgets = FALSE
INVARIANTS TypeOK FragmentsCover WindowIsOrdered AckedIsDelivered DeliveredOnce
PROPERTIES PacketsEnd ImplementsChannel
CHECK_DEADLOCK FALSE
