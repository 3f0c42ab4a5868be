SPECIFICATION Spec
CONSTANTS
  None = none
  Timescale = {TRUE, FALSE}
  Origins <- AllDatabases
  Launches <- Ways
  MaxCrashes = 3
  MaxLate = 2
  Machine = m1
  Sockets = {w1, w2}
  Loop = loop
  Ingests = {i1, i2}
  Jobs = {j1, j2}
  Capacity = 3
  Fields = {"public_ip"}
  Places = {p1, p2}
  Country <- OwnCountry
  MaxUpsets = 3
INVARIANTS
  TypeOK
  ServesDeclaredSchema
  BehindByTimeouts
PROPERTIES
  NoHalfSchema
  OldDatabaseIsServed
  KeepsReporting
  WaitingEnds
CHECK_DEADLOCK FALSE
