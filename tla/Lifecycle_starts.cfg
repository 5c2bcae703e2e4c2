SPECIFICATION LiveSpec
CONSTANTS
  a = a
  b = b
  r = r
  s = s
  x = x
  y = y
  NoFile = NoFile
  Crashers = {}
  SlowHolders = TRUE
  Starters = {a, b}
  Stoppers = {}
  Runners = {}
  MaxDaemons = 2
  Settings = {x}
  Wants <- WantsSame
  Mortal = {}
  Faltering = {a}
CHECK_DEADLOCK FALSE
 
PROPERTY EveryoneEnds
