SPECIFICATION FairSpec

CONSTANTS
  a = a
  b = b
  w1 = w1
  w2 = w2
  Paths = {a}
  Writers = {w1}
  MaxFd = 4
  MaxMoves = 3
  OpenMayFail = TRUE
  WatchMayFail = TRUE
  ThreadMayFail = TRUE

INVARIANTS
  TypeOK
  NoFdLeak
  KickedUntilWatched

PROPERTIES
  OnlyRemovedIsDropped
  WatchedRemovalNoticed
  CloseEnds
