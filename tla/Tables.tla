------------------------------- MODULE Tables -------------------------------
(***************************************************************************)
(* The configuration kept in RAM: the Modbus devices and registers of      *)
(* src/core/modbus_mem.c, blocks of one pool linked by offsets, and the    *)
(* table of measurements of src/core/measurements.c.  An operator stands   *)
(* for a function of the code; it maps the tables, with their blocks, to   *)
(* what the function leaves.                                               *)
(*                                                                         *)
(* The address of a register stands for reg_addr, func and type.  Offsets  *)
(* are block numbers, 0 is "none".                                         *)
(***************************************************************************)
EXTENDS Naturals, Sequences, Functions

CONSTANTS
    Blocks,      \* OSM_MODBUS_BLOCKS
    Slots,       \* OSM_MEASUREMENTS_MAX_NUMBER
    Units,       \* unit ids of slaves
    Addrs,       \* what is read of a slave
    DevNames,    \* names of devices
    RegNames,    \* names of registers
    BuiltIns,    \* names the model populates the measurements with, in their order
    Intervals,   \* intervals of measurements, 0 if it is not taken
    Counts,      \* sample counts
    None

Names == RegNames \cup Range(BuiltIns)
Definitions ==
    [name : Names, type : {"builtin", "modbus"}, interval : Intervals,
     count : Counts, immediate : BOOLEAN]

ASSUME TablesAssumption ==
    /\ Blocks \in Nat /\ Blocks >= 1
    /\ Slots \in Nat /\ Slots >= 1
    /\ {0, 1} \subseteq Intervals /\ 1 \in Counts
    /\ BuiltIns \in Seq(Range(BuiltIns)) /\ Len(BuiltIns) < Slots
    /\ None \notin Definitions \cup [1..Slots -> Definitions \cup {None}]

(* The blocks.  A device and a register overlap: the state of a register   *)
(* is a part of the unit id of a device, which is `spoilt' while it is not *)
(* zero.  `from' is the request value_data is the answer to.               *)

FreeBlock(n) == [kind |-> "free", next |-> n]
DevBlock(n, u, name) ==
    [kind |-> "dev", next |-> n, first |-> 0, unit |-> u, name |-> name,
     spoilt |-> FALSE]
RegBlock(n, u, name, a) ==
    [kind |-> "reg", next |-> n, unit |-> u, name |-> name, addr |-> a,
     state |-> "invalid", from |-> None]

\* osm_modbus_bus_init of a bus of another version: one list of free blocks.
NewBus ==
    [first_dev |-> 0, first_free |-> 1,
     block |-> [b \in 1..Blocks |-> FreeBlock(IF b = Blocks THEN 0 ELSE b + 1)]]

\* The blocks from b on.  The loops of the code end at an offset of 0.
Chain(c, b) ==
    LET from[room \in 0..Blocks + 1] ==
            [x \in 0..Blocks |->
                IF x = 0 \/ room = 0 THEN <<>>
                ELSE <<x>> \o from[room - 1][c.block[x].next]]
    IN  from[Blocks + 1][b]

Devs(c)    == Chain(c, c.first_dev)
Regs(c, d) == Chain(c, c.block[d].first)

\* The first block of a list that is in S, 0 if none is.
FirstIn[list \in Seq(1..Blocks)] == [S \in SUBSET (1..Blocks) |->
    IF Range(list) \cap S = {} THEN 0
    ELSE list[CHOOSE i \in DOMAIN list :
                 list[i] \in S /\ \A j \in 1..(i - 1) : list[j] \notin S]]

GetDeviceById(c, u) ==
    FirstIn[Devs(c)][{d \in Range(Devs(c)) :
                          c.block[d].unit = u /\ ~c.block[d].spoilt}]
GetDeviceByName(c, n) ==
    FirstIn[Devs(c)][{d \in Range(Devs(c)) : c.block[d].name = n}]
DevGetRegByName(c, d, n) ==
    FirstIn[Regs(c, d)][{r \in Range(Regs(c, d)) : c.block[r].name = n}]

\* osm_modbus_get_reg: of the first device that has one of the name.
GetReg(c, n) ==
    LET found == [d \in 0..Blocks |->
                     IF d = 0 THEN 0 ELSE DevGetRegByName(c, d, n)]
    IN  found[FirstIn[Devs(c)][{d \in Range(Devs(c)) : found[d] # 0}]]

\* modbus_reg_get_dev.  In a block that is no register any more an offset
\* stands where the unit id was, which is no slave's.
RegGetDev(c, r) == IF c.block[r].kind = "reg"
                   THEN GetDeviceById(c, c.block[r].unit) ELSE 0

ModbusFree(c, b) ==
    [c EXCEPT !.block[b] = FreeBlock(c.first_free), !.first_free = b]
\* What _modbus_allocate_block leaves, its result is c.first_free.
Allocated(c) == [c EXCEPT !.first_free = c.block[c.first_free].next]

AddDevice(c, u, n) ==
    IF GetDeviceByName(c, n) # 0 \/ c.first_free = 0 THEN c
    ELSE [Allocated(c) EXCEPT !.block[c.first_free] =
                                  DevBlock(c.first_dev, u, n),
                              !.first_dev = c.first_free]

\* Mutant: the block is not cleared, it keeps the state it had.
DevAddRegUncleared(c, d, n, a) ==
    IF DevGetRegByName(c, d, n) # 0 \/ c.first_free = 0 THEN c
    ELSE [Allocated(c) EXCEPT
             !.block[c.first_free] =
                 [RegBlock(c.block[d].first, c.block[d].unit, n, a) EXCEPT
                     !.state = "ready"],
             !.block[d].first = c.first_free]

DevAddReg(c, d, n, a) ==
    IF DevGetRegByName(c, d, n) # 0 \/ c.first_free = 0 THEN c
    ELSE [Allocated(c) EXCEPT
             !.block[c.first_free] =
                 RegBlock(c.block[d].first, c.block[d].unit, n, a),
             !.block[d].first = c.first_free]

\* The blocks of a list are freed one after the other.
FreeAll(c, list) ==
    LET freed[n \in 0..Len(list)] ==
            IF n = 0 THEN c ELSE ModbusFree(freed[n - 1], list[n])
    IN  freed[Len(list)]

\* The block before b in a list.
Before(c, list, b) == FirstIn[list][{x \in Range(list) : c.block[x].next = b}]

\* Mutant: the registers of the device are left where they are.
DevDelAlone(c, d) ==
    ModbusFree(IF d = c.first_dev
               THEN [c EXCEPT !.first_dev = c.block[d].next]
               ELSE [c EXCEPT !.block[Before(c, Devs(c), d)].next =
                                  c.block[d].next], d)

DevDel(c, d) ==
    LET bare == FreeAll(c, Regs(c, d))
    IN  ModbusFree(IF d = c.first_dev
                   THEN [bare EXCEPT !.first_dev = c.block[d].next]
                   ELSE [bare EXCEPT !.block[Before(c, Devs(c), d)].next =
                                         c.block[d].next], d)

\* osm_modbus_reg_del looks for the register in the first device with its
\* unit id, and leaves it where it is if it is not there.
RegDel(c, r) ==
    LET d == RegGetDev(c, r)
    IN  IF d = 0 \/ r \notin Range(Regs(c, d)) THEN c
        ELSE ModbusFree(IF c.block[d].first = r
                        THEN [c EXCEPT !.block[d].first = c.block[r].next]
                        ELSE [c EXCEPT !.block[Before(c, Regs(c, d), r)].next =
                                           c.block[r].next], r)
-----------------------------------------------------------------------------
(* The measurements, a slot of None is empty.                              *)

Def(n, t, i) == [name |-> n, type |-> t, interval |-> i, count |-> 1,
                 immediate |-> FALSE]

Named(t, n) == {i \in 1..Slots : t[i] # None /\ t[i].name = n}
Empty(t)    == {i \in 1..Slots : t[i] = None}
First(S)    == CHOOSE i \in S : \A j \in S : i <= j

\* osm_measurements_add puts it in the first empty slot, not a second of
\* its name.
CanAdd(t, n) == Named(t, n) = {} /\ Empty(t) # {}
MeasurementsAdd(t, def) ==
    IF CanAdd(t, def.name) THEN [t EXCEPT ![First(Empty(t))] = def] ELSE t

MeasurementsDel(t, n) ==
    IF Named(t, n) = {} THEN t ELSE [t EXCEPT ![First(Named(t, n))] = None]

\* The measurements when those of a list of registers are deleted one by one.
MeasurementsDelAll(c, list) ==
    LET left[n \in 0..Len(list)] ==
            IF n = 0 THEN c.meas
            ELSE MeasurementsDel(left[n - 1], c.block[list[n]].name)
    IN  left[Len(list)]

\* The model's defaults, and its repopulating of what is missing.
Repopulate(t) ==
    LET with[n \in 0..Len(BuiltIns)] ==
            IF n = 0 THEN t
            ELSE MeasurementsAdd(with[n - 1], Def(BuiltIns[n], "builtin", 1))
    IN  with[Len(BuiltIns)]
NoMeasurements == [i \in 1..Slots |-> None]
Defaults == Repopulate(NoMeasurements)

\* osm_modbus_measurement_add: whatever had the name is deleted first.
ModbusMeasurementAdd(t, n) ==
    MeasurementsAdd(MeasurementsDel(t, n), Def(n, "modbus", 1))

\* interval, samplecount and is_immediate of one measurement; a sample count
\* of 0 is refused.
SetInterval(t, n, v) == [i \in 1..Slots |->
    IF i \in Named(t, n) THEN [t[i] EXCEPT !.interval = v] ELSE t[i]]
SetSamplecount(t, n, v) == [i \in 1..Slots |->
    IF i \in Named(t, n) /\ v # 0 THEN [t[i] EXCEPT !.count = v] ELSE t[i]]
SetImmediate(t, n, v) == [i \in 1..Slots |->
    IF i \in Named(t, n) THEN [t[i] EXCEPT !.immediate = v] ELSE t[i]]
-----------------------------------------------------------------------------
(* The commands on both: c is the bus with its measurements, c.meas.       *)

MbDevAdd(c, u, n) == AddDevice(c, u, n)

\* The measurement is added only if the register was.
MbRegAdd(c, u, a, n) ==
    LET d == GetDeviceById(c, u)
        e == DevAddReg(c, d, n, a)
    IN  IF d = 0 \/ e = c THEN c
        ELSE [e EXCEPT !.meas = ModbusMeasurementAdd(@, n)]

MbRegDel(c, n) ==
    IF GetReg(c, n) = 0 THEN c
    ELSE RegDel([c EXCEPT !.meas = MeasurementsDel(@, n)], GetReg(c, n))

\* Mutant: the callback tells the loop to stop after the first register.
MbDevDelFirst(c, n) ==
    LET d == GetDeviceByName(c, n)
        s == SelectSeq(Regs(c, d), LAMBDA r : r = c.block[d].first)
    IN  IF d = 0 THEN c
        ELSE DevDel([c EXCEPT !.meas = MeasurementsDelAll(c, s)], d)

\* The measurement of each register's name goes, whatever it measures.
MbDevDel(c, n) ==
    LET d == GetDeviceByName(c, n)
    IN  IF d = 0 THEN c
        ELSE DevDel([c EXCEPT !.meas = MeasurementsDelAll(c, Regs(c, d))], d)

\* osm_modbus_persist_config_cmp: are two buses taken to differ?  Both
\* lists are followed in the blocks of the one in RAM, so past the first
\* device they are the same; but a walk of every block counts as a
\* difference.
Walked(c) ==
    LET upTo[n \in 0..Len(Devs(c))] ==
            IF n = 0 THEN 0 ELSE upTo[n - 1] + 1 + Len(Regs(c, Devs(c)[n]))
    IN  upTo[Len(Devs(c))]
ConfigCmp(c, saved) ==
    \/ c.first_dev # saved.first_dev
    \/ c.first_free # saved.first_free
    \/ Walked(c) >= Blocks
=============================================================================
