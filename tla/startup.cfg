CONSTANTS
  p1 = p1
  p2 = p2
  A = A
  B = B
  Thread = {p1, p2}
  Type = {"REGISTER"}
  NoThread = NoThread
  Order <- TwoBlocks
  Target = {A, B}
  Hosts <- SmallHosts
  Clock = {1, 2}
  Modulus = 3
  MaxStarts = 2
SPECIFICATION Spec
INVARIANTS
  TypeOK
  HandleExclusive
  AnswerOwn
  AidStable
  IdNamesTarget
  TidsDistinct
  FilesOfGathering
  TargetKept
CHECK_DEADLOCK FALSE
