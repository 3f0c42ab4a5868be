SPECIFICATION Spec
CONSTANTS
  None = none
  Provinces = {p1, p2}
  Own = p1
  Labels = {l1, l2}
  Tags = {a, b}
  Amounts = {a1, a2}
  Inputs = {f1, f2}
  Fields = {"public_ip", "country"}
  Places = {"north", "south", "abroad"}
  Country <- HomeOrAbroad
  MaxUpsets = 3
  Given = {g1}
  Versions = {v1, v2}
  Passwords = {w1, w2}
  Presets = {c1, c2}
  Default = c1
  Kept = {k1, k2}
  Dropped = {d1}
  Computed = {k2}
  Top = {n1}
  Nested = {n2}
  Kilo = 2
  Units = 3
  MaxBytes = 6
  MaxElapsed = 3
  MaxRetries = 1
  InitialRows = 2
  PageSize = 2
  MaxRows = 3
  Retries = 2
  MaxRunning = 2
  MaxMembers = 3
  Seconds = 2
  MaxOld = 1
  Count = 2
  MaxPosts = 2
  MaxChats = 2
  Lengths <- TwoYears
  Months = 3
  Week = 3
  Hours = 3
  Clocks = {7, 9}
  Timers = {1, 2}
INVARIANTS
  TypeOK
  KeysTellApart
  ShowsWhatWasAsked
  HoldsTogether
  NothingIsStuck
  ScriptsComplete
PROPERTIES
  RateIsTraffic
  EditsKept
CHECK_DEADLOCK FALSE
