CONSTANTS
  Plugin = {p1, p2}
  Packet = {k1, k2, k3, k4}
  NULL = NULL
  MaxRecords = 2
SPECIFICATION Spec
SYMMETRY Symmetry
INVARIANTS
  ReadyReachable
