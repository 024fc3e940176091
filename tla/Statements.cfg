CONSTANTS
  JumpSpan = 65536
  MaxStack = 14
  MaxFrames = 4
  MaxHeap = 20
  IntHalf = 128
  FloatOp <- MCFloat
  Corpus <- MCStatements
  Programs <- Compiled
  Height <- MCHeight
SPECIFICATION Spec
INVARIANTS RunsAsWritten EverythingFreedOnce RunsStackedCode OwnCellsOnly
