SPECIFICATION PushSafety
CONSTANTS
  r = r  o = o  k = k  s = s  v = v  network = network  a = a  b = b  c = c
  NoRun = NoRun  NoValue = NoValue
  Runs = {r}
  Operations = {o}
  Keys = {k}
  Scopes = {s}
  Capabilities = {network}
  Requests <- OnlyPush
  Exposures = {}
  Links = {}
  Values = {v}
  Calls = {a, b, c}
  PushRun = r
  PushRequest <- ThePush
  ForceWithLease = TRUE
SYMMETRY CallSymmetry
INVARIANTS
  OnePushPerAttempt
  CompletedRunHasPushed
  ReceiptsAreTrue
PROPERTIES
  OutcomeHitsOwnAttempt
CHECK_DEADLOCK FALSE
