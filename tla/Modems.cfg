SPECIFICATION ModemSpec
CONSTANTS
    MaxAps = 1
    AtLines = 6
    AtCmds = 3
    AtNest = 2
    AtMaxFaults = 2
    AtFaults = {"late", "lose", "error", "drop", "cmd"}
    Chunks = 2
    Inits = 5
    MaxResend = 1
    LoraLines = 5
    LoraNest = 1
    LoraMaxFaults = 1
    LoraFaults = {"late", "lose", "error", "radio", "full", "cmd"}
INVARIANTS PayloadsStayApart ReadyIsReal ChunksInOrder
PROPERTIES AnswersAreTrue ComesBack
CHECK_DEADLOCK FALSE
