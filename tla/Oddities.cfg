CONSTANTS
  JumpSpan = 65536
  MaxStack = 14
  MaxFrames = 4
  MaxHeap = 12
  IntHalf = 128
  FloatOp <- MCFloat
  Corpus <- MCOddities
  Programs <- Compiled
SPECIFICATION Spec
INVARIANTS TypeOK
