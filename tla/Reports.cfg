SPECIFICATION MCSpec
CONSTANTS
    NoMessage = NoMessage
    Base = 4
    HexSize = 20
    StrLen = 2
    JsonRoom = 3
    Thousand = 10
    Devices <- AllDevices
    Value <- ValuesOf
    MaxSamples = 2
INVARIANTS WriteIsReported ServerSees
PROPERTIES SendEnds
CHECK_DEADLOCK FALSE
