SPECIFICATION Spec
CONSTANTS
    Blocks = 4
    Slots = 2
    Units <- TwoUnits
    Addrs <- TwoAddrs
    DevNames <- TwoDevs
    RegNames <- TwoRegs
    BuiltIns <- OneBuiltIn
    Intervals <- OnOff
    Counts <- OnOff
    None = None
    Faults = {}
    MaxFaults = 1
    MaxCommands = 3
    MaxQueue = 2
    MaxLost = 1
PROPERTIES SaveSaves
CHECK_DEADLOCK FALSE
