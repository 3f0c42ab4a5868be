SPECIFICATION FairSpec
CONSTANTS
  Machines = {m1}
  Sockets = {w1}
  Writers = {t1, t2}
  Loop = loop
  None = none
  MaxChanges = 2
  QueriesFail = TRUE
INVARIANTS
  RegistryIsExact
PROPERTIES
  Converges
CHECK_DEADLOCK FALSE
