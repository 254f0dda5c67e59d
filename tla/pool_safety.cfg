CONSTANTS
  Plugin = {p1, p2}
  Packet = {k1, k2, k3}
  NULL = NULL
  MaxRecords = 1
SPECIFICATION Spec
SYMMETRY Symmetry
INVARIANTS
  TypeOK
  ExclusiveUse
  PostingReady
  RecordsConserved
  BatchesWhole
  TickNeverZero
PROPERTIES
  ImplementsOutbox
