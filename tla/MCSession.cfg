SPECIFICATION SessionSpec
CONSTANTS
  CallLimit = 2
  PipeLimit = 2
INVARIANTS
  AskedTurnsNeverComplete
  ServersHoldSlots
PROPERTIES
  ResultIsOfItsTurn
  CallsEnd
CHECK_DEADLOCK FALSE
