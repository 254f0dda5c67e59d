CONSTANTS
  Plugin = {p1}
  Packet = {k1, k2, k3}
  NULL = NULL
  MaxRecords = 2
SPECIFICATION FairSpec
INVARIANTS
  ReadyReachable
PROPERTIES
  SealedFrozen
  RecordsDelivered
