SPECIFICATION Spec

CONSTANTS
  f1 = f1
  f2 = f2
  p1 = p1
  p2 = p2
  o1 = o1
  o2 = o2
  Files = {f1}
  Procs = {p1, p2}
  Opens = {o1}
  FileOf <- OneOpen
  Users <- SharedFd
  ReleasePids <- SharedFd
  StackLineMax = 1
  StackTimeup = 1
  Filtered = {}
  Failing = {}
  BinMode = FALSE
  SignalExit = FALSE
  MaxLines <- OneEach

INVARIANTS
  LastCloseFlushes
