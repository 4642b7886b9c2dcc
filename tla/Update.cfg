SPECIFICATION FairSpec
CONSTANTS
    x = x
    y = y
    Erased = Erased
    Zero = Zero
    Torn = Torn
    None = None
    Byte <- MCByte
    PageSize = 2
    Pages = 2
    Old <- MCOld
    Images <- MCImages
    MaxChunks = 2
    Faults <- Power
INVARIANTS ReadyIsStaged Recoverable
PROPERTIES StartsKnown NewIsRun
