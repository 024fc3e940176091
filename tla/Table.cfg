CONSTANTS
    a = a  b = b  c = c  d = d  e = e
    NULL = NULL
    Keys <- MCKeys
    Values = {v, w}
    Hash <- MCHash
    InitialCapacity = 4
SPECIFICATION Spec
INVARIANTS TypeOK Reachable CopiesFaithfully
PROPERTIES NeverComesRound CallsReturn IsAMap
