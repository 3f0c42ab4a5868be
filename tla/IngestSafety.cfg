SPECIFICATION Spec
CONSTANTS
  Agents = {a1}
  Conns = {h1, h2}
  Deleters = {d1}
  Cols = {cpu}
  Vals = {low}
  Ips = {ip}
  NoIp = noIp
  None = none
  Invalid = invalid
  MaxReports = 2
  MaxInbox = 1
  FaultsPossible = FALSE
SYMMETRY Symmetry
INVARIANTS
  TypeOK
  DepartedIsOffline
PROPERTIES
  RegistrationIsComplete
  AddressIsKept
