SPECIFICATION Spec
CONSTANTS
  None = none
  Tabs = {t1, t2}
  Callers = {t1}
  Machines = {m1, m2}
  MaxFetches = 2
INVARIANTS
  TypeOK
  RedirectsDoNotNest
  ShowsWhatIsThere
PROPERTIES
  TokenKept
  GetsIn
  WidgetIsUsed
  LetIn
  RequestsEnd
CHECK_DEADLOCK FALSE
