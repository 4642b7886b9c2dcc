SPECIFICATION Spec
CONSTANTS
    Pins <- TwoPins
    Table <- InOrder
    Edges <- OneEdge
    Default <- CountAndWatch
    AtZero <- OfTheBootLoader
    Gpios <- Output
    Commands <- TheCommands
    Faults <- AllFaults
    MaxFaults = 1
    MaxCount = 1
    Measured = {0}
INVARIANTS Handled SetUp
PROPERTIES GoesOn
CHECK_DEADLOCK FALSE
