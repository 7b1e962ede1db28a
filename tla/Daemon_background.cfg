SPECIFICATION DaemonSpec

CONSTANTS
  w1 = w1
  w2 = w2
  root = root
  ann = ann
  bob = bob
  g = g
  Freed = Freed
  Paths <- AllPaths
  MapOrder <- OrderOf
  Conf <- TwoRules
  Users = {root, ann, bob}
  SuperUser = root
  Groups = {g}
  Member <- NoMember
  Mount <- ClosedMount
  GroupOf <- EveryG
  Workers = {w1, w2}
  Requests <- OpenClose
  MaxRequests = 3
  MaxRules = 7
  MaxValues = 1
  PluginMayFail = FALSE
  Failures = {}
  HasTimer = TRUE
  Foreground = FALSE
  MaxSignals = 1

CHECK_DEADLOCK FALSE

INVARIANT ServedByThreads
