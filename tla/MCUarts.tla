------------------------------ MODULE MCUarts -------------------------------
(***************************************************************************)
(* The UARTs.  The way out (Uarts): one of each kind, with a ring for four *)
(* bytes and a DMA buffer of two.  The way in (Ring): the main loop reads  *)
(* lines, as from the CMD and COMMS UARTs, while the side that adds is a   *)
(* task or a thread that interleaves with it load by load.  The two share  *)
(* nothing, so that a behaviour has one of them.                           *)
(***************************************************************************)
EXTENDS Uarts

CONSTANTS x, nl     \* a byte that ends no line, and one that does

VARIABLES
    way,            \* "in" or "out"
    buf, r_pos, w_pos, add_pc, add_c, add_w, pc, r, len, c, got, given

RingVars == <<buf, r_pos, w_pos, add_pc, add_c, add_w, pc, r, len, c, got, given>>

AllKinds == {"debug", "rs485", "modem"}

Lines == INSTANCE Ring WITH
            BufSize <- 4, Byte <- {x, nl}, Eol <- {nl}, LineLen <- 4,
            Ops <- {"readline"}, IsrAdd <- FALSE, OverRead <- FALSE

IsIn == way = "in"
IsOut == way = "out"

\* The way that a behaviour is not about stays as it is.
NoOut ==
    /\ kind = "modem" /\ ring = <<>> /\ hw = Quiescent /\ wire = <<>>
    /\ accepted = <<>> /\ main = <<>> /\ logbuf = <<None, None>>
    /\ rs = Released /\ direct = FALSE /\ writes = 0 /\ had = {}
NoIn ==
    /\ buf = <<>> /\ r_pos = 0 /\ w_pos = 0 /\ add_pc = "idle" /\ add_c = x
    /\ add_w = 0 /\ pc = "idle" /\ r = 0 /\ len = 0 /\ c = x
    /\ got = <<>> /\ given = <<>>

MCInit ==
    \/ IsOut /\ Init /\ NoIn
    \/ IsIn /\ Lines!RingInit /\ NoOut

MCNext ==
    \/ IsOut /\ Next /\ UNCHANGED <<way, RingVars>>
    \/ IsIn /\ Lines!RingNext /\ UNCHANGED <<way, vars>>

\* The hardware goes on, time passes, and main goes round its loop: it drains
\* the ring over and over, and an addition once begun ends.
Fairness ==
    /\ WF_vars(IsOut /\ Shift) /\ WF_vars(IsOut /\ DmaMove)
    /\ WF_vars(IsOut /\ ByteOut) /\ WF_vars(IsOut /\ DmaIsr)
    /\ WF_vars(IsOut /\ OutDrain) /\ WF_vars(IsOut /\ StartDelay)
    /\ WF_vars(IsOut /\ StopDelay) /\ WF_vars(IsOut /\ MainStep)
    /\ WF_vars(IsOut /\ ExitDirect)
    /\ WF_RingVars(IsIn /\ (\/ Lines!AddFull \/ Lines!AddRoom
                             \/ Lines!AddWrite \/ Lines!AddPublish))
    /\ WF_RingVars(IsIn /\ Lines!Reader)

MCSpec == MCInit /\ [][MCNext]_<<way, vars, RingVars>> /\ Fairness
-----------------------------------------------------------------------------
\* What is in a ring comes out.  On the way out the ring gets empty, the driver
\* of the bus is switched off and what main does ends; on the way in, a ring
\* full of bytes without a terminator does not wedge the main loop, and a
\* terminator that has arrived gets its line out.
FullDrains == (IsIn /\ Lines!GetPending = 3) ~> (Lines!GetPending < 3)
LineComesOut == (IsIn /\ Lines!HasLine) ~> (pc = "commit")
ComesOut == Drains /\ Releases /\ StepsEnd /\ FullDrains /\ LineComesOut
=============================================================================
