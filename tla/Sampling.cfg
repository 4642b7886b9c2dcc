SPECIFICATION Spec
CONSTANTS
    T = 16
    N = 2
    Tables <- SomeTables
    CounterMod = 4
    MaxLate = 8
    Huge = 300
    Faults <- AllFaults
    MaxFaults = 1
INVARIANTS NotLocked SamplesAreReported
PROPERTIES SamplingGoesOn
CHECK_DEADLOCK FALSE
