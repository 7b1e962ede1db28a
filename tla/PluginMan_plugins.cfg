SPECIFICATION FairSpec

CONSTANTS
  a = a
  b = b
  w1 = w1
  Plugins = {a, b}
  Late = {b}
  Changing = {b}
  Workers = {w1}
  MaxForks = 3
  MaxDeaths = 1
  MaxChanges = 1
  MayFail = {a}

CHECK_DEADLOCK FALSE

INVARIANTS
  TypeOK
  OneProcess
  RunListIsChildren

PROPERTIES
  ExitedPluginRestarts
  CleanEnds
