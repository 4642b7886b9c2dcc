------------------------------ MODULE MCModbus ------------------------------
(***************************************************************************)
(* Three small buses for TLC, one in a behaviour.  a and b are registers   *)
(* of one slave, so that an answer for one passes for the other's if their *)
(* length is the same; c is a register of another slave.                   *)
(*   writes: one register of one word and one of two, with the writes of   *)
(*           mb_reg_set in between; frames are cut (the constants of the   *)
(*           configuration).                                               *)
(*   reads:  three registers, an echoing bus, no writes; the queue is      *)
(*           filled to its end and beyond, and frames arrive corrupted.    *)
(*   rest:   one register, answers cut or later than the timeout; the      *)
(*           fairness under which the bus comes to rest.  Answers that are *)
(*           late may meet the next request, so that this one has a wire   *)
(*           of its own.                                                   *)
(***************************************************************************)
EXTENDS Modbus

CONSTANTS a, b, c

VARIABLES
    setup,          \* which of the buses
    late_wire, late_tail    \* wire and tail of the bus that comes to rest

LateBus == <<queue, want_rx, sent_old, timing, gap, retransmits, body, echo,
             expected, state, from, ring, cmd, late_wire, late_tail, slave, tries>>

OneWord == [r \in {a, b, c} |-> 1]
LongB == [OneWord EXCEPT ![b] = 2]
TwoUnits == [OneWord EXCEPT ![c] = 2]

Reads == INSTANCE Modbus WITH
    Words <- OneWord, Value <- {}, Slots <- 3,
    Echo <- TRUE, Binary <- FALSE, Faults <- {"garble", "overfill"}

Rest == INSTANCE Modbus WITH
    Words <- OneWord, Value <- {}, MaxRing <- 3,
    Faults <- {"late", "cut", "overfill"},
    wire <- late_wire, tail <- late_tail

ASSUME BusesAssumption ==
    ModbusAssumption /\ Reads!ModbusAssumption /\ Rest!ModbusAssumption

IsReads == setup = "reads"
IsWrites == setup = "writes"
IsRest == setup = "rest"

\* Nobody asks for the registers of R.
Unused(R) == \A r \in R : state[r] = "invalid" /\ cmd.reg # r

NoLateBus == late_wire = <<>> /\ late_tail = None
NoWire == wire = <<>> /\ tail = None

MCInit ==
    \/ IsReads /\ Reads!Init /\ NoLateBus
    \/ IsWrites /\ Init /\ Unused({c}) /\ NoLateBus
    \/ IsRest /\ Rest!Init /\ Unused({b, c}) /\ NoWire

MCNext ==
    /\ \/ IsReads /\ Reads!Next /\ UNCHANGED <<late_wire, late_tail>>
       \/ IsWrites /\ Next /\ Unused({c})' /\ UNCHANGED <<late_wire, late_tail>>
       \/ IsRest /\ Rest!Next /\ Unused({b, c})' /\ UNCHANGED <<wire, tail>>
    /\ UNCHANGED setup

Fairness ==
    /\ WF_LateBus(IsRest /\ Rest!Rx)
    /\ WF_LateBus(IsRest /\ (Rest!WriteDone \/ Rest!WriteTimesOut))
    /\ WF_LateBus(IsRest /\ Rest!Ages)
    /\ WF_LateBus(IsRest /\ Rest!Slaves)

MCSpec == MCInit /\ [][MCNext]_<<setup, late_wire, late_tail, vars>> /\ Fairness
-----------------------------------------------------------------------------
\* Once nobody asks for more, the bus comes to rest, whatever is lost.
BusRests == []<><<IsRest /\ Rest!Starts>>_LateBus \/ <>[](~IsRest \/ ~Rest!HasPending)
=============================================================================
