SPECIFICATION ExchangeSpec
CONSTANTS
  Attempts = {"first", "second"}
  NoAttempt = "no attempt"
  ArtifactNames = {"diff"}
  Paths = {"one", "two"}
  Undeclared = {"policy"}
  RecoveryMode = TRUE
  RetryCeiling = 2
  LineLimit = 3
  FaultLimit = 1
  Flaws = {"field too many", "status", "credential value",
           "attempt_id", "event_id", "codex_turn_id", "schema"}
INVARIANTS
  OnlyProperTurnsAreAccepted
  RefusalsHaveAReason
  AcceptedResultsMayComplete
CHECK_DEADLOCK FALSE
