SPECIFICATION Spec
CONSTANTS
  a = a
  b = b
  r = r
  s = s
  x = x
  y = y
  NoFile = NoFile
  Crashers = {}
  SlowHolders = TRUE
  Starters = {a}
  Stoppers = {s}
  Runners = {r}
  MaxDaemons = 2
  Settings = {x, y}
  Wants <- WantsSame
  Mortal = {r, s, 1, 2}
  Faltering = {}
CHECK_DEADLOCK FALSE
INVARIANTS  FailedStartLeavesNothing
PROPERTY RecordLostOnlyToNewer
