SPECIFICATION MCSpec
CONSTANTS
    Nothing = Nothing
    N = 4
    Interval <- Intervals
    Cycle = 6
    Pulses = 1
    MaxPulses = 4
    ReportFaults <- Lossy
INVARIANTS NoPulseLost AckIsExact
PROPERTIES CountsOnce AllArrives
