SPECIFICATION DaemonSpec

CONSTANTS
  w1 = w1
  w2 = w2
  root = root
  ann = ann
  bob = bob
  g = g
  Freed = Freed
  Paths <- AllPaths
  MapOrder <- OrderOf
  Conf <- TwoRules
  Users = {root, ann, bob}
  SuperUser = root
  Groups = {g}
  Member <- NoMember
  Mount <- OpenMount
  GroupOf <- EveryG
  Workers = {w1, w2}
  Requests <- TopOnly
  MaxRequests = 3
  MaxRules = 7
  MaxValues = 1
  PluginMayFail = FALSE
  Failures = {}
  HasTimer = TRUE
  Foreground = TRUE
  MaxSignals = 0

CHECK_DEADLOCK FALSE

INVARIANT RuleLockGivenBack
