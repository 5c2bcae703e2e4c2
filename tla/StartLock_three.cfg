SPECIFICATION LiveLockSpec
CONSTANTS
  d = d
  a = a
  b = b
  c = c
  Starters = {d, a, b}
  Crashers = {d}
  SlowHolders = FALSE
  NoFile = NoFile
CHECK_DEADLOCK FALSE
  
PROPERTY EachWaitEnds
