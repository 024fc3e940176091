CONSTANTS
  Programs <- MCPrograms
SPECIFICATION Spec
INVARIANTS
  FreedTwiceOnlyByThree NoOtherNodeLeaks WhatIsGivenUpIsFreed EveryObjectHasAnOwner
  TreeIsWhole VerdictIsRight NoErrorIsExecuted ExitCodeTells
