SPECIFICATION Spec

CONSTANTS
  f1 = f1
  f2 = f2
  p1 = p1
  p2 = p2
  o1 = o1
  o2 = o2
  Files = {f1}
  Procs = {p1, p2}
  Opens = {o1, o2}
  FileOf <- OneFile
  Users <- PrivateFds
  ReleasePids <- OwnOrAny
  StackLineMax = 1
  StackTimeup = 1
  Filtered = {f1}
  Failing = {}
  BinMode = FALSE
  SignalExit = FALSE
  MaxLines <- TwoAndOne

INVARIANTS
  TypeOK
  ExactlyOnce
  BatchesInOrder
  StackIsNewest
  BacklogBound
  ReleaseFlushes
  ShutdownFlushes
  TimerGoneBeforeCloseAll
