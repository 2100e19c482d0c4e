SPECIFICATION Spec
CONSTANTS
  r1 = r1  r2 = r2  o1 = o1  o2 = o2  k1 = k1  k2 = k2  s1 = s1  s2 = s2
  v1 = v1  net = net
  NoRun = NoRun  NoValue = NoValue
  Runs = {r1, r2}
  Operations = {o1}
  Keys = {k1}
  Scopes = {s1, s2}
  Capabilities = {net}
  Requests <- RivalRequests
  Exposures <- NoBoundaries
  Links <- SecondParent
  Values = {v1}
INVARIANTS
  AttemptLedgerAgrees
  ConsumedApprovalBacksEffect
  CompletedRunSettled
PROPERTIES
  TerminalRunsLeaveOnlyByRestart
  SettledEffectsAreFinal
  DoubtStopsTheRun
