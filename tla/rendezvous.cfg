SPECIFICATION Spec
CONSTANTS
  p1 = p1  p2 = p2
  Producers = {p1, p2}
  Component <- MCComponent
  KITE_KEYWORD = "KITE"
  Digest = "digest"
  RvPrefix <- MCRvPrefix
  ProducerSuffix <- MCProducerSuffix
  Lifetime <- MCLifetime
  NoExpiration = NoExpiration
  Skew <- MCSkew
  Anchors = {p2}
  Grace = 2
  MaxRecords = 1
  MaxNonces = 2
  RecordLifetime = 2
  Retries = 1
  Slots = {1, 2}
  MaxTime = 2
  MaxRequests = 3
  MaxAcks = 3
INVARIANTS TypeOK AckedOnce NewerThanLast RecordsAgree AnnouncesSender
PROPERTY ValidationsEnd
CHECK_DEADLOCK FALSE
