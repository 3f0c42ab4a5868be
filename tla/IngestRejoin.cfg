SPECIFICATION Spec
CONSTANTS
  Agents = {a1}
  Conns = {h1}
  Deleters = {d1}
  Cols = {cpu}
  Vals = {low}
  Ips = {}
  NoIp = noIp
  None = none
  Invalid = invalid
  MaxReports = 2
  MaxInbox = 1
  FaultsPossible = FALSE
PROPERTY NextReportRegisters
