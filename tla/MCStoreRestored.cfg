SPECIFICATION ReplaySpec
CONSTANTS
  p = p  q = q
  NoContent = NoContent
  Procs = {p, q}
  WriteLimit = 2
  FileLimit = 2
CONSTRAINT ReplayBound
INVARIANT
  RestoredStateIsRead
CHECK_DEADLOCK FALSE
