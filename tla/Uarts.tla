-------------------------------- MODULE Uarts --------------------------------
(***************************************************************************)
(* The way out of a UART of the STM32: src/core/uart_rings.c puts bytes in *)
(* a ring and hands them to the DMA of src/ports/stm/uarts.c.  One UART is *)
(* modelled, of one of three kinds: "debug" gets the lines of log.c,       *)
(* "rs485" the frames of modbus.c with the direction of its driver,        *)
(* "modem" strings, and gives its pins away in comms_direct.               *)
(*                                                                         *)
(* A byte is <<n, k>>, the k-th of what was written n-th.  The ring is a   *)
(* sequence, module Ring shows that it is one for one adder and one reader.*)
(***************************************************************************)
EXTENDS Naturals, Sequences, FiniteSets

CONSTANTS
    Kinds,     \* the kinds of UART
    Size,      \* of the ring, it holds a byte less
    Pck,       \* OSM_DMA_DATA_PCK_SZ
    Faults,    \* what else may happen, see below
    MaxFaults, \* bound: how many different ones in a behaviour
    MaxWrites, \* bound: lines, frames and strings written
    None

(* isr: the interrupt of a UART logs an error while main logs; blocking: a *)
(* line is sent past the ring while that has some; dump: a ring is drained,*)
(* and that logged, inside a dump; refill: a frame comes in the delay after*)
(* another; setup: mb_setup while a frame goes out.  Also noted, but not   *)
(* to be avoided: full, a byte finds the ring full; raw, this is said.     *)
AllFaults == {"isr", "blocking", "dump", "refill", "setup"}

ASSUME UartsAssumption ==
    /\ Kinds \subseteq {"debug", "rs485", "modem"}
    /\ Size \in Nat /\ Size >= 2 /\ Pck \in Nat /\ Pck >= 1
    /\ Faults \subseteq AllFaults /\ {MaxFaults, MaxWrites} \subseteq Nat
    /\ None \notin (Nat \X Nat) \cup [byte : Nat \X Nat, ok : BOOLEAN]

VARIABLES
    kind,
    ring,      \* the bytes in ring_out_bufs[uart]
    hw,        \* the UART and its DMA, see Quiescent
    wire,      \* what has come out of the pin
    accepted,  \* what was put in the ring, or sent past it
    main,      \* what main is doing, the rest of its steps
    logbuf,    \* log_buffer, its two bytes
    rs,        \* the statics of osm_modbus_uart_ring_do_out_drain
    direct,    \* the pins are comms_direct's
    writes, had

vars == <<kind, ring, hw, wire, accepted, main, logbuf, rs, direct, writes, had>>

\* The shift register and TDR, uart_doing_dma, what the DMA has not moved
\* yet of uart_dma_buf, and its interrupt.
Quiescent == [shift |-> None, tdr |-> None, doing |-> FALSE, rest |-> <<>>,
              complete |-> FALSE]
Released == [on |-> FALSE, start |-> "over", stopping |-> FALSE,
             stop |-> "over", last |-> None]

Init ==
    /\ kind \in Kinds
    /\ ring = <<>> /\ hw = Quiescent /\ wire = <<>> /\ accepted = <<>>
    /\ main = <<>> /\ logbuf = <<None, None>> /\ rs = Released
    /\ direct = FALSE /\ writes = 0 /\ had = {}

Full(r) == Len(r) >= Size - 1
Idle == main = <<>> /\ ~direct
Pending(h) == h.rest # <<>> \/ h.tdr # None \/ h.shift # None
With(S) == /\ S \subseteq Faults
           /\ Cardinality((had \cup S) \ {"full", "raw"}) <= MaxFaults
           /\ had' = had \cup S
Note(S) == had' = had \cup S
When(p, f) == IF p THEN {f} ELSE {}
Count == writes < MaxWrites /\ writes' = writes + 1
-----------------------------------------------------------------------------
(* The hardware.  The DMA moves a byte in less time than one takes to be   *)
(* shifted out; the driver of RS485 spoils a byte it does not drive.       *)

Shift ==
    /\ hw.tdr # None /\ hw.shift = None
    /\ hw' = [hw EXCEPT !.tdr = None,
                        !.shift = [byte |-> hw.tdr,
                                   ok |-> kind = "rs485" => rs.on]]
    /\ UNCHANGED <<kind, ring, wire, accepted, main, logbuf, rs, direct, writes, had>>

DmaMove ==
    /\ hw.rest # <<>> /\ hw.tdr = None
    /\ hw' = [hw EXCEPT !.tdr = Head(hw.rest), !.rest = Tail(@),
                        !.complete = (Len(hw.rest) = 1)]
    /\ UNCHANGED <<kind, ring, wire, accepted, main, logbuf, rs, direct, writes, had>>

ByteOut ==
    /\ hw.shift # None /\ ~(hw.rest # <<>> /\ hw.tdr = None)
    /\ wire' = Append(wire, hw.shift)
    /\ hw' = [hw EXCEPT !.shift = None]
    /\ UNCHANGED <<kind, ring, accepted, main, logbuf, rs, direct, writes, had>>

\* Mutant: the interrupt is taken for each byte.
DmaIsrEarly ==
    /\ hw.doing
    /\ hw' = [hw EXCEPT !.complete = FALSE, !.doing = FALSE]
    /\ UNCHANGED <<kind, ring, wire, accepted, main, logbuf, rs, direct, writes, had>>

\* process_complete_dma
DmaIsr ==
    /\ hw.complete
    /\ hw' = [hw EXCEPT !.complete = FALSE, !.doing = FALSE]
    /\ UNCHANGED <<kind, ring, wire, accepted, main, logbuf, rs, direct, writes, had>>
-----------------------------------------------------------------------------
(* The drain.                                                              *)

TxEmpty == ~hw.doing /\ hw.tdr = None

\* osm_uart_dma_out: one byte goes without the DMA.
DmaOut(data) ==
    IF Len(data) = 1 THEN [hw EXCEPT !.tdr = data[1]]
    ELSE [hw EXCEPT !.doing = TRUE, !.tdr = data[1], !.rest = Tail(data)]

\* The end of uart_ring_out_drain: what the DMA takes leaves the ring.
Hand ==
    IF ring = <<>> \/ ~TxEmpty THEN UNCHANGED <<ring, hw>>
    ELSE LET n == IF Len(ring) > Pck THEN Pck ELSE Len(ring)
         IN  /\ hw' = DmaOut(SubSeq(ring, 1, n))
             /\ ring' = SubSeq(ring, n + 1, Len(ring))

\* Mutant: the driver is switched off with the ring empty.
RsEmptyAtOnce ==
    /\ ring = <<>> /\ rs.on
    /\ rs' = Released
    /\ hw' = IF hw.shift = None THEN hw ELSE [hw EXCEPT !.shift.ok = FALSE]
    /\ ring' = ring

\* Nothing to send: the driver is switched off when the UART is done and the
\* delay is over.  rs485_transmit_stopping is reset nowhere else.
RsEmpty ==
    /\ ring = <<>> /\ rs.on /\ TxEmpty
    /\ \/ /\ ~rs.stopping
          /\ rs' = [rs EXCEPT !.stopping = TRUE, !.stop = "running",
                              !.last = hw.shift]
          /\ hw' = hw
       \/ /\ rs.stopping /\ rs.stop = "over"
          /\ rs' = Released
          /\ hw' = IF hw.shift = None THEN hw
                   ELSE [hw EXCEPT !.shift.ok = FALSE]
    /\ ring' = ring

\* Something to send: the driver is switched on and given a delay.
RsSend ==
    /\ ring # <<>>
    /\ \/ /\ ~rs.on
          /\ rs' = [rs EXCEPT !.on = TRUE, !.start = "running"]
          /\ UNCHANGED <<ring, hw>>
       \/ /\ rs.on /\ rs.start = "over"
          /\ rs' = rs /\ Hand

Drain == IF kind = "rs485" THEN RsEmpty \/ RsSend ELSE Hand /\ rs' = rs

\* A turn of the main loop that changes something.
OutDrain ==
    /\ Idle /\ Drain
    /\ <<ring, hw, rs>>' # <<ring, hw, rs>>
    /\ UNCHANGED <<kind, wire, accepted, main, logbuf, direct, writes, had>>

StartDelay ==
    /\ rs.start = "running" /\ rs' = [rs EXCEPT !.start = "over"]
    /\ UNCHANGED <<kind, ring, hw, wire, accepted, main, logbuf, direct, writes, had>>

\* The delay after sending is longer than the byte that was being shifted.
StopDelay ==
    /\ rs.stop = "running" /\ (hw.shift = None \/ hw.shift # rs.last)
    /\ rs' = [rs EXCEPT !.stop = "over"]
    /\ UNCHANGED <<kind, ring, hw, wire, accepted, main, logbuf, direct, writes, had>>
-----------------------------------------------------------------------------
(* The log.  A line is two bytes of text from log_buffer and an end that   *)
(* is not from there; each of the two is a call of osm_uart_ring_out.      *)

Bytes(n) == << <<n, 1>>, <<n, 2>>, <<n, 3>> >>
Step(op, b) == [op |-> op, byte |-> b]
Loads(n) == <<Step("load", <<n, 1>>), Step("load", <<n, 2>>), Step("load", <<n, 3>>)>>

\* log_msgv, osm_log_bad_error, osm_log_debug_data, and the answer of
\* osm_cmds_process to a command it does not know.
Line(n)     == <<Step("format", <<n, 0>>),
                 Step("load", <<n, 1>>), Step("load", <<n, 2>>), Step("load", <<n, 3>>)>>
Blocking(n) == <<Step("format", <<n, 0>>),
                 Step("wait", <<n, 1>>), Step("wait", <<n, 2>>), Step("wait", <<n, 3>>)>>
Dump(n)     == <<Step("fill", <<n, 1>>), Step("drain", None), Step("fill", <<n, 2>>),
                 Step("load", <<n, 1>>), Step("load", <<n, 2>>), Step("load", <<n, 3>>)>>
Help(n)     == <<Step("format", <<n, 0>>),
                 Step("load", <<n, 1>>), Step("load", <<n, 2>>), Step("load", <<n, 3>>),
                 Step("drain all", None),
                 Step("format", <<n + 1, 0>>), Step("load", <<n + 1, 1>>),
                 Step("load", <<n + 1, 2>>), Step("load", <<n + 1, 3>>),
                 Step("drain all", None)>>
Message     == <<Step("wait", <<0, 0>>)>>

Begin(steps) ==
    /\ Idle /\ kind = "debug"
    /\ main' = steps
    /\ UNCHANGED <<kind, ring, hw, wire, accepted, logbuf, rs, direct>>

LogLine  == Count /\ had' = had /\ Begin(Line(writes))
LogBlock == Count /\ With(When(ring # <<>> \/ hw.rest # <<>>, "blocking"))
                  /\ Begin(Blocking(writes))
LogDump  == Count /\ had' = had /\ Begin(Dump(writes))
LogHelp  == /\ writes + 1 < MaxWrites /\ writes' = writes + 2 /\ had' = had
            /\ Begin(Help(writes))

\* The byte that is sent for byte b: text is what is in log_buffer.
Text(b) == IF b[2] \in 1..2 THEN logbuf[b[2]] ELSE b

Format == /\ Head(main).op = "format"
          /\ LET n == Head(main).byte[1]
             IN  logbuf' = << <<n, 1>>, <<n, 2>> >>
          /\ main' = Tail(main)
          /\ UNCHANGED <<ring, hw, accepted, had>>

Fill == /\ Head(main).op = "fill"
        /\ logbuf' = [logbuf EXCEPT ![Head(main).byte[2]] = Head(main).byte]
        /\ main' = Tail(main)
        /\ UNCHANGED <<ring, hw, accepted, had>>

\* The drain inside a dump; that of another UART logs how much it drains.
Nested == /\ Head(main).op = "drain"
          /\ Hand
          /\ \/ logbuf' = logbuf /\ main' = Tail(main) /\ had' = had
             \/ /\ With({"dump"})
                /\ logbuf' = << <<0, 1>>, <<0, 2>> >>
                /\ main' = Loads(0) \o Tail(main)
          /\ UNCHANGED accepted

\* osm_ring_buf_add reads w_pos and finds room ...
Load == /\ Head(main).op = "load" /\ ~Full(ring)
        /\ main' = <<[op |-> "store", byte |-> Head(main).byte,
                      at |-> Len(ring)]>> \o Tail(main)
        /\ UNCHANGED <<ring, hw, accepted, logbuf, had>>

\* What is left of the call that adds the byte at the head of main: text is of
\* two bytes, added in one call.
Called == IF Head(main).byte[2] = 1 THEN Tail(Tail(main)) ELSE Tail(main)

\* ... or none: the byte is left out, or this is said and the call ends.
LoadFull ==
    /\ Head(main).op = "load" /\ Full(ring)
    /\ \/ Note({"full"}) /\ main' = Tail(main)
       \/ Note({"full", "raw"}) /\ main' = Message \o Called
    /\ UNCHANGED <<ring, hw, accepted, logbuf>>

\* ... and stores the byte and where the next goes: what an interrupt has
\* added since is gone.
Store == /\ Head(main).op = "store"
         /\ ring' = Append(SubSeq(ring, 1, Head(main).at), Text(Head(main).byte))
         /\ accepted' = Append(accepted, Head(main).byte)
         /\ main' = Tail(main)
         /\ UNCHANGED <<hw, logbuf, had>>

\* usart_send_blocking waits for TDR and writes it.
Wait == /\ Head(main).op = "wait" /\ hw.tdr = None
        /\ main' = <<[Head(main) EXCEPT !.op = "send"]>> \o Tail(main)
        /\ UNCHANGED <<ring, hw, accepted, logbuf, had>>

Send == /\ Head(main).op = "send"
        /\ hw' = [hw EXCEPT !.tdr = Text(Head(main).byte)]
        /\ accepted' = Append(accepted, Head(main).byte)
        /\ main' = Tail(main)
        /\ UNCHANGED <<ring, logbuf, had>>

\* osm_uart_rings_drain_all_out
DrainAll == /\ Head(main).op = "drain all"
            /\ Hand
            /\ \/ ring # <<>> /\ hw' # hw /\ main' = main
               \/ ring = <<>> /\ main' = Tail(main)
            /\ UNCHANGED <<accepted, logbuf, had>>
-----------------------------------------------------------------------------
(* comms_direct: the rings are drained, TC is waited for, and the pins are *)
(* taken until the lines are quiet.                                        *)

EnterDirect ==
    /\ kind = "modem" /\ Idle
    /\ main' = <<Step("drain all", None), Step("transmitted", None), Step("take", None)>>
    /\ UNCHANGED <<kind, ring, hw, wire, accepted, logbuf, rs, direct, writes, had>>

Transmitted ==
    /\ Head(main).op = "transmitted" /\ hw.tdr = None /\ hw.shift = None
    /\ main' = Tail(main)
    /\ UNCHANGED <<ring, hw, accepted, logbuf, had>>

MainStep ==
    /\ main # <<>>
    /\ \/ /\ \/ Format \/ Fill \/ Nested \/ Load \/ LoadFull \/ Store
             \/ Wait \/ Send \/ DrainAll \/ Transmitted
          /\ direct' = direct
       \/ /\ Head(main).op = "take" /\ main' = Tail(main) /\ direct' = TRUE
          /\ UNCHANGED <<ring, hw, accepted, logbuf, had>>
    /\ UNCHANGED <<kind, wire, rs, writes>>

ExitDirect ==
    /\ direct /\ direct' = FALSE
    /\ UNCHANGED <<kind, ring, hw, wire, accepted, main, logbuf, rs, writes, had>>
-----------------------------------------------------------------------------
(* Frames and strings, of one to three bytes, from main; nothing else adds *)
(* to these rings.                                                         *)

Write(k) ==
    /\ Idle /\ kind # "debug" /\ Count
    /\ With(When(rs.on /\ rs.stopping, "refill"))
    /\ LET room == Size - 1 - Len(ring)
           data == SubSeq(Bytes(writes), 1, IF k > room THEN room ELSE k)
       IN  ring' = ring \o data /\ accepted' = accepted \o data
    /\ UNCHANGED <<kind, hw, wire, main, logbuf, rs, direct>>

\* osm_uart_resetup switches the UART off and on again.
Setup ==
    /\ kind = "rs485" /\ Idle
    /\ Pending(hw) /\ With({"setup"})
    /\ hw' = [hw EXCEPT !.shift = None, !.tdr = None]
    /\ UNCHANGED <<kind, ring, wire, accepted, main, logbuf, rs, direct, writes>>

\* An interrupt finds the ring in full and logs that, all in one for main.
IsrLog ==
    /\ kind = "debug" /\ Count /\ ~direct
    /\ LET room == Size - 1 - Len(ring)
           data == SubSeq(Bytes(writes), 1, IF room < 3 THEN room ELSE 3)
       IN  /\ With(When(main # <<>>, "isr"))
           /\ ring' = ring \o data /\ accepted' = accepted \o data
    /\ logbuf' = << <<writes, 1>>, <<writes, 2>> >>
    /\ UNCHANGED <<kind, hw, wire, main, rs, direct>>

Next ==
    \/ Shift \/ DmaMove \/ ByteOut \/ DmaIsr
    \/ OutDrain \/ StartDelay \/ StopDelay
    \/ LogLine \/ LogBlock \/ LogDump \/ LogHelp
    \/ MainStep \/ EnterDirect \/ ExitDirect
    \/ \E k \in 1..3 : Write(k)
    \/ Setup \/ IsrLog

\* The hardware goes on, time passes, and main goes round its loop.
Spec ==
    /\ Init /\ [][Next]_vars
    /\ WF_vars(Shift) /\ WF_vars(DmaMove) /\ WF_vars(ByteOut) /\ WF_vars(DmaIsr)
    /\ WF_vars(OutDrain) /\ WF_vars(StartDelay) /\ WF_vars(StopDelay)
    /\ WF_vars(MainStep) /\ WF_vars(ExitDirect)
-----------------------------------------------------------------------------
Had(S) == had \cap S # {}
Or(x) == IF x = None THEN <<>> ELSE <<x>>
Sent == [i \in DOMAIN wire |-> wire[i].byte]
        \o (IF hw.shift = None THEN <<>> ELSE <<hw.shift.byte>>)
        \o Or(hw.tdr) \o hw.rest

\* The rings, registers and steps are what they can be; the DMA has something
\* to move only while uart_doing_dma is set.
TypeOK ==
    /\ kind \in Kinds /\ Len(ring) < Size /\ Len(hw.rest) < Pck
    /\ hw.rest # <<>> \/ hw.complete => hw.doing
    /\ rs.stopping => rs.on
    /\ direct => main = <<>>
    /\ had \subseteq Faults \cup {"full", "raw"}

\* What was put in comes out: every byte once, whole lines, in the order in
\* which they were accepted, whatever the DMA is doing.  Not if an interrupt
\* logs while main does (log_buffer and the ring are shared), a line is sent
\* past the ring, a drain logs inside a dump, or mb_setup cuts a byte.
InOrder ==
    Had({"isr", "blocking", "raw", "dump", "setup"}) \/ Sent \o ring = accepted

\* Every byte of a frame is driven to its end, unless the frame came in the
\* delay after another, whose stop delay is then taken for its own.
Driven ==
    Had({"refill"}) \/
    \A i \in DOMAIN wire : wire[i].ok

\* The pins are not taken from a byte that is on its way.
TakenWhole == direct => ring = <<>> /\ ~Pending(hw)

\* The variables have their types, every byte of a frame is driven to its end,
\* and the pins are not taken from a byte on its way.
SentWhole == TypeOK /\ Driven /\ TakenWhole

\* The ring comes to be empty, the driver off, and what main does to an end.
Drains   == (ring # <<>>) ~> (ring = <<>>)
Releases == rs.on ~> ~rs.on
StepsEnd == (main # <<>> \/ direct) ~> Idle
=============================================================================
