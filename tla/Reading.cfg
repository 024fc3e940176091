CONSTANTS
  JumpSpan = 65536
  MaxArgs = 255
  MaxMembers = 65535
  Corpus <- MCPrograms
  Slips <- MCSlips
SPECIFICATION Spec
INVARIANTS CompilesAsWritten NothingIsLost
PROPERTIES EveryTurnReadsOn
