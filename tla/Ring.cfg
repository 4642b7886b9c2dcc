\* A small ring: one byte that ends a line and one that does not.  The same
\* ring with an adder that interleaves is checked in MCUarts.
SPECIFICATION RingSpec
CONSTANTS
    BufSize = 4
    Byte = {x, nl}
    Eol = {nl}
    LineLen = 3
    Ops <- AllOps
    IsrAdd = TRUE
    OverRead = FALSE
INVARIANTS RingHolds
PROPERTY ImplementsFifo
