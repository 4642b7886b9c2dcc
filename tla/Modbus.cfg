SPECIFICATION MCSpec
CONSTANTS
    a = a
    b = b
    c = c
    None = None
    Reg = {a, b, c}
    UnitOf <- TwoUnits
    Words <- LongB
    Value = {v, w}
    Slots = 2
    MaxRetransmits = 2
    Echo = FALSE
    Binary = TRUE
    Faults = {"cut"}
    MaxWire = 2
    MaxRing = 4
INVARIANTS AnswerIsOwn OneOnTheBus WriteIsDone
PROPERTIES BusRests
