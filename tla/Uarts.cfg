SPECIFICATION MCSpec
CONSTANTS
    x = x
    nl = nl
    Kinds <- AllKinds
    Size = 5
    Pck = 2
    Faults <- AllFaults
    MaxFaults = 1
    MaxWrites = 3
    None = None
INVARIANTS InOrder SentWhole
PROPERTIES ComesOut
CHECK_DEADLOCK FALSE
