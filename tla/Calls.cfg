CONSTANTS
  JumpSpan = 65536
  MaxStack = 30
  MaxFrames = 9
  MaxHeap = 40
  IntHalf = 128
  FloatOp <- MCFloat
  Corpus <- MCCalls
  Programs <- Compiled
  Height <- MCHeight
SPECIFICATION Spec
INVARIANTS RunsAsWritten RunsStackedCode CalleesFit StackIsDivided
PROPERTIES CallsLeaveOneCell CallersKeepTheirCells CallsKeepApart EveryRunEnds
