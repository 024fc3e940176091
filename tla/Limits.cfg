CONSTANTS
  JumpSpan = 448
  MaxStack = 15
  MaxFrames = 6
  MaxHeap = 5
  IntHalf = 2048
  FloatOp <- MCFloat
  Corpus <- MCLimits
  Programs <- Compiled
SPECIFICATION Spec
INVARIANTS RunsAsWritten PrintsAPrefix
