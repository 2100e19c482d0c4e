SPECIFICATION WriteSafety
CONSTANTS
  r = r  o1 = o1  o2 = o2  k1 = k1  k2 = k2  s1 = s1  v = v  network = network
  a = a  b = b  c = c  p1 = p1  p2 = p2  b1 = b1  b2 = b2
  NoRun = NoRun  NoValue = NoValue  NoPatch = NoPatch  NoBase = NoBase
  Runs = {r}
  Operations = {o1, o2}
  Keys = {k1, k2}
  Scopes = {s1}
  Capabilities = {network}
  Requests <- Writes
  Exposures = {}
  Links = {}
  Values = {v}
  Applies = {a, b, c}
  WriteRun = r
  Patches = {p1, p2}
  Bases = {b1, b2}
SYMMETRY ApplySymmetry
CONSTRAINT CallBound
VIEW Relevant
INVARIANTS
  OneCommitPerOperation
  CompletedWriteLanded
  CommitsStandOnTheRecord
  LostClaimsAreExplained
CHECK_DEADLOCK FALSE
