CONSTANTS
  Tick = 2
  Expiry = 5
  PKTSZ = 7
  Head = 1
  Tail = 1
  MaxRecord = 2
  Cap = 4
  MaxNow = 11
  MaxRestarts = 2
  MaxBacks = 1
SPECIFICATION Spec
INVARIANTS
  TypeOK
  RecordsBounded
  PacketFits
CHECK_DEADLOCK FALSE
