SPECIFICATION LocalSpec
CONSTANTS
  local = local  dsh1 = dsh1  dsh2 = dsh2  profile = profile  v = v  p = p  q = q
  r1 = r1  r2 = r2
  a = a  b = b  c = c  c1 = c1  c2 = c2
  NoRun = NoRun  NoValue = NoValue  NoCeiling = NoCeiling
  Runs = {local, dsh1, dsh2}
  Links = {}
  Operations = {}
  Keys = {}
  Scopes = {}
  Capabilities = {}
  Requests = {}
  Exposures = {}
  Values = {v}
  Subjects = {profile, p, q}
  Ceilings = {0, 1}
  ExecutionIds = {a, b, c}
  LocalRuns = {local}
  Profile = profile
  Capacity = 1
  ReceiptLimit = 1
  Commands = {c1, c2}
  Names = {"ollama", "custom"}
  Profiles = {"custom"}
  NotStaged = NotStaged
  Callers = {r1, r2}
  Routes <- PreferPThenQ
  CooldownTicks = 1
  TimeLimit = 1
  NoProvider = NoProvider
SYMMETRY CallSymmetry
CONSTRAINTS CallBound OneBudget OwnRuns LateReceipts
VIEW Relevant
INVARIANTS
  LeasesBelongToExecutions
  
  NothingOutlivesItsExecution
  RestartsWithinBudget
  TerminationIsAccounted
  GatesExplainRemotes
  RequestsAreAccounted
CHECK_DEADLOCK FALSE
