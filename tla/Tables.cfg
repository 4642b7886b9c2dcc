SPECIFICATION Spec
CONSTANTS
    Blocks = 4
    Slots = 2
    Units <- TwoUnits
    Addrs <- OneAddr
    DevNames <- TwoDevs
    RegNames <- ThreeRegs
    BuiltIns <- OneBuiltIn
    Intervals <- OnOff
    Counts <- OnOff
    None = None
    Faults <- AllFaults
    MaxFaults = 1
    MaxCommands = 3
    MaxQueue = 2
    MaxLost = 1
INVARIANTS BlocksSound AllMeasured AnswersLand
PROPERTIES WaitingEnds
CHECK_DEADLOCK FALSE
