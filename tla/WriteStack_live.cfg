SPECIFICATION FairSpec

CONSTANTS
  f1 = f1
  f2 = f2
  p1 = p1
  p2 = p2
  o1 = o1
  o2 = o2
  Files = {f1, f2}
  Procs = {p1}
  Opens = {o1, o2}
  FileOf <- TwoFiles
  Users <- OneWriter
  ReleasePids <- OneWriter
  StackLineMax = 1
  StackTimeup = 1
  Filtered = {}
  Failing = {f2}
  BinMode = TRUE
  SignalExit = FALSE
  MaxLines <- OneLine

PROPERTIES
  RequestReturns
  CleanEnds
  ImplementsFairConduit
