SPECIFICATION Spec
CONSTANTS
  Tabs = {h, p}
  HostTabs = {h}
  Machines = {m1, m2}
  Cards = {c}
  None = none
  Asked = asked
  MaxSaves = 2
INVARIANTS
  CopyIsStored
  PagesAreCurrent
PROPERTIES
  FreshSaveLosesNothing
SYMMETRY Sym
CHECK_DEADLOCK FALSE
