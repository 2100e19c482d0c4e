SPECIFICATION BridgeSpec
CONSTANTS
  p = p  c1 = c1  c2 = c2  o1 = o1  k1 = k1  s1 = s1  v1 = v1
  NoRun = NoRun  NoValue = NoValue
  Parent = p
  Children = {c1}
  Runs = {p, c1}
  MaxFaults = 1
  RecoveryMode = TRUE
  Operations = {o1}
  Keys = {k1}
  Scopes = {s1}
  Capabilities = {}
  Requests <- ParentRequests
  Exposures = {}
  Links = {}
  Values = {v1}
PROPERTIES
  FailureStopsTheParent
  OperationEnds
CHECK_DEADLOCK FALSE
