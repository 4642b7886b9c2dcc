------------------------------ MODULE ByteFifo ------------------------------
(***************************************************************************)
(* What a ring of src/core/ring.c promises to the two sides that use it: a *)
(* bounded first-in first-out queue of bytes.  Bytes are put one at a      *)
(* time; the reader takes, looks at, skips or clears whole prefixes.       *)
(***************************************************************************)
EXTENDS Naturals, Sequences

CONSTANTS Byte,     \* the bytes
          Cap       \* how many of them the queue holds

VARIABLES queue,    \* the bytes accepted and not yet removed, oldest first
          taken     \* what the last read handed to its caller

fifoVars == <<queue, taken>>

FifoInit == queue = <<>> /\ taken = <<>>

Put(c) == /\ Len(queue) < Cap
          /\ queue' = Append(queue, c)
          /\ UNCHANGED taken

Take(n) == /\ taken' = SubSeq(queue, 1, n)
           /\ queue' = SubSeq(queue, n + 1, Len(queue))

Look(n) == taken' = SubSeq(queue, 1, n) /\ UNCHANGED queue

Skip == /\ queue # <<>>
        /\ queue' = SubSeq(queue, 2, Len(queue))
        /\ UNCHANGED taken

Clear == queue' = <<>> /\ UNCHANGED taken

FifoNext == \/ \E c \in Byte : Put(c)
            \/ \E n \in 0 .. Len(queue) : Take(n) \/ Look(n)
            \/ Skip
            \/ Clear

FifoSpec == FifoInit /\ [][FifoNext]_fifoVars
=============================================================================
