SPECIFICATION Spec
CONSTANTS
  r1 = r1  o1 = o1  o2 = o2  c1 = c1  c2 = c2
  Runs = {r1}
  Operations = {o1, o2}
  RunOf <- OneRun
  MaxAttempts = 1
  MaxCount = 2
  Callers = {c1, c2}
  Lingering = {o2}
  Remote = {o1, o2}
SYMMETRY Requests
INVARIANTS
  OneStartPerApproval
  CompletedRunIsQuiet
CHECK_DEADLOCK FALSE
