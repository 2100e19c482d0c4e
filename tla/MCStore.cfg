SPECIFICATION ReplaySpec
CONSTANTS
  p = p  q = q
  NoContent = NoContent
  Procs = {p, q}
  WriteLimit = 2
  FileLimit = 2
SYMMETRY ProcSymmetry
CONSTRAINT ReplayBound
INVARIANTS
  SchemaIsCompleteInUse
  ColdRestoreIsExact
  CommittedIsDurable
  AnswersAreOfThePinnedRun
CHECK_DEADLOCK FALSE
