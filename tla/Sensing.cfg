SPECIFICATION MCSpec
CONSTANTS
    NumCc = 3
    NumFt = 1
    Enabled <- OnAdcSet
    Immediate <- OnAdcAtOnce
    Nestable = TRUE
    Chips <- TheChips
    MaxRef = 5
    MaxFaults = 2
    Faults <- AllFaults
INVARIANTS OwnReadings Owned SettingsAgree
PROPERTIES SamplesEnd
CHECK_DEADLOCK FALSE
