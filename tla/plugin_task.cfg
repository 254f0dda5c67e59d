CONSTANTS
  MaxTid = 3
  ConnId = {1, 2}
SPECIFICATION FairSpec
INVARIANTS
  TypeOK
  OneTarget
  RegisteredTid
  StatusAgrees
  MetricsNotDown
PROPERTIES
  DownReported
  Registers
