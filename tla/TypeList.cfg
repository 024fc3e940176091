CONSTANTS
    Compounds <- MCCompounds
    Matches <- TypeMatch
    Hash <- MCHash
    NameHash <- MCNameHash
    InitialCapacity = 16
SPECIFICATION Spec
INVARIANTS TypeOK BasicsInPlace OneAddressPerType UserTypesFound
CHECK_DEADLOCK FALSE
