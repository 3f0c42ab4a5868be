SPECIFICATION FairSpec
CONSTANTS
  Machines = {m1, m2}
  None = none
  MaxChanges = 3
  MaxFlight = 2
  MaxWire = 1
INVARIANTS
  NothingLeftBehind
PROPERTIES
  Reconnects
  LiveView
CHECK_DEADLOCK FALSE
