CONSTANTS
  Texts <- MCTexts
SPECIFICATION Spec
INVARIANTS TypeOK NothingIsSkipped LongestMatch
PROPERTIES EveryCallReadsOn
