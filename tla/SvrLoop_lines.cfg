SPECIFICATION Spec

CONSTANTS
  Confs <- AllConfs
  BufferSingle = 2
  BinaryBuffLimit = 2
  MaxBytes = 3

INVARIANTS
  TypeOK
  BufferHolds
  LinesMatchReference
  PutOnceInOrder
  GoodLinesArrive
  BytesArrive

CHECK_DEADLOCK FALSE
