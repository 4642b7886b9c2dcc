---------------------------- MODULE TablesSystem ----------------------------
(***************************************************************************)
(* The tables of Tables while they are edited by commands, saved, reloaded *)
(* and wiped, and while the bus reads the registers: the queue of the      *)
(* master holds pointers to blocks, which a command may free.              *)
(*                                                                         *)
(* The rest of the master is module Modbus.  Here one answer is awaited at *)
(* a time, and a register is not queued while older ones wait for the gap. *)
(***************************************************************************)
EXTENDS Tables, FiniteSets

CONSTANTS
    Faults,       \* what else may happen, see below
    MaxFaults,    \* bound: how many different ones in a behaviour
    MaxCommands,  \* bound: commands that are given
    MaxQueue,     \* bound: registers that are queued
    MaxLost       \* bound: requests given up

(* unit: a second device is added for the unit of another; name: a register *)
(* gets the name of one of another device; taken: a register gets the name *)
(* of a measurement of the model; full: it finds no slot to be measured    *)
(* in; queued: what is deleted is queued; cut: power is lost in a save.    *)
AllFaults == {"unit", "name", "taken", "full", "queued", "cut"}

ASSUME SystemAssumption ==
    /\ Faults \subseteq AllFaults
    /\ Units # {} /\ DevNames # {}
    /\ {MaxFaults, MaxCommands, MaxQueue, MaxLost} \subseteq Nat

VARIABLES
    mem,       \* persist_data's bus and the measurements, see Tables
    flash,     \* the two pages they are saved in, None where one is blank
    queue,     \* _message_queue
    asked,     \* the request whose answer is awaited
    nodev,     \* a device that was not found has been dereferenced
    had,       \* the faults there have been
    commands,  \* how many commands there have been
    lost       \* how many requests have been given up

vars == <<mem, flash, queue, asked, nodev, had, commands, lost>>

Bus(c) == [first_dev |-> c.first_dev, first_free |-> c.first_free,
           block |-> c.block]
Tab(bus, t) == [first_dev |-> bus.first_dev, first_free |-> bus.first_free,
                block |-> bus.block, meas |-> t]
Flash(c) == [bus |-> Bus(c), meas |-> c.meas]

\* osm_persistent_init, osm_modbus_bus_init and osm_measurements_init: a
\* blank page of the one is wiped with the other; no measurements at all
\* are replaced by the defaults.
Load(f) ==
    Tab(IF f.bus = None THEN NewBus ELSE f.bus,
        IF f.bus = None \/ f.meas \in {None, NoMeasurements}
        THEN Defaults ELSE f.meas)

\* The defaults are saved at once.
Saved(f) == IF f.bus = None \/ f.meas \in {None, NoMeasurements}
            THEN Flash(Load(f)) ELSE f

\* A factory new unit, and one that was set up with a device and a register.
Init ==
    /\ LET new == Load([bus |-> None, meas |-> None])
           u == CHOOSE u \in Units : TRUE
           d == CHOOSE d \in DevNames : TRUE
       IN  \E a \in Addrs, r \in RegNames \ Range(BuiltIns) :
              mem \in {new, MbRegAdd(MbDevAdd(new, u, d), u, a, r)}
    /\ flash = Flash(mem)
    /\ queue = <<>> /\ asked = None /\ nodev = FALSE
    /\ had = {} /\ commands = 0 /\ lost = 0
-----------------------------------------------------------------------------
(* The bus.  A block that is no register any more is sent as a request no  *)
(* slave answers.                                                          *)

Junk == [unit |-> 0, addr |-> None]
Request(c, b) == IF c.block[b].kind = "reg"
                 THEN [unit |-> c.block[b].unit, addr |-> c.block[b].addr]
                 ELSE Junk

\* reg->value_state is written, whatever the block is now.
SetState(c, b, s) ==
    IF c.block[b].kind = "reg" THEN [c EXCEPT !.block[b].state = s]
    ELSE IF c.block[b].kind = "dev"
         THEN [c EXCEPT !.block[b].spoilt = (s # "invalid")]
         ELSE c

\* Is a measurement of this name taken of a register?
Taken(c, n) == \E i \in Named(c.meas, n) :
                  c.meas[i].type = "modbus" /\ c.meas[i].interval > 0

\* Mutant: a register that is waiting already is not queued.
SampleOnce(n) ==
    /\ Len(queue) < MaxQueue /\ (queue = <<>> \/ asked # None)
    /\ Taken(mem, n)
    /\ \E r \in {GetReg(mem, n)} \ {0} :
          /\ RegGetDev(mem, r) # 0 /\ mem.block[r].state # "waiting"
          /\ queue' = Append(queue, r)
          /\ mem' = SetState(mem, r, "waiting")
          /\ asked' = IF asked = None THEN Request(mem, r) ELSE asked
    /\ UNCHANGED <<flash, nodev, had, commands, lost>>

\* The init callback of a measurement that is due starts a read.
Sample(n) ==
    /\ Len(queue) < MaxQueue /\ (queue = <<>> \/ asked # None)
    /\ Taken(mem, n)
    /\ \E r \in {GetReg(mem, n)} \ {0} :
          /\ RegGetDev(mem, r) # 0
          /\ queue' = Append(queue, r)
          /\ mem' = SetState(mem, r, "waiting")
          /\ asked' = IF asked = None THEN Request(mem, r) ELSE asked
    /\ UNCHANGED <<flash, nodev, had, commands, lost>>

\* The next of the queue, after the gap, or the same again at a timeout.
SendHead ==
    /\ queue # <<>>
    /\ asked' = Request(mem, queue[1])
    /\ mem' = SetState(mem, queue[1], "waiting")
    /\ UNCHANGED <<flash, queue, nodev, had, commands, lost>>

\* The last timeout: its state stays as it is.
Drop ==
    /\ asked # None
    /\ lost < MaxLost \/ asked = Junk
    /\ queue' = Tail(queue) /\ asked' = None
    /\ lost' = IF asked = Junk THEN lost ELSE lost + 1
    /\ UNCHANGED <<mem, flash, nodev, had, commands>>

\* Where the value of an answer goes: to the register, if the device of its
\* unit sent it and its type takes as many bytes.
Stored(c, b) ==
    LET set == [c EXCEPT !.block[b].state = "ready", !.block[b].from = asked]
    IN  IF RegGetDev(c, b) = 0 \/ c.block[b].unit # asked.unit THEN {c}
        ELSE IF c.block[b].addr = asked.addr THEN {set} ELSE {c, set}

Answer ==
    /\ asked # None /\ asked # Junk
    /\ LET c == SetState(mem, queue[1], "invalid") IN
       \/ mem' = c /\ nodev' = nodev                         \* an exception
       \/ mem' \in Stored(c, queue[1])
          /\ nodev' = (nodev \/ RegGetDev(c, queue[1]) = 0)
    /\ queue' = Tail(queue) /\ asked' = None
    /\ UNCHANGED <<flash, had, commands, lost>>
-----------------------------------------------------------------------------
(* The commands.                                                           *)

With(S) == /\ S \subseteq Faults
           /\ Cardinality(had \cup S) <= MaxFaults
           /\ had' = had \cup S
When(p, f) == IF p THEN {f} ELSE {}
Given == commands < MaxCommands /\ commands' = commands + 1
Edited(c) == mem' = c /\ UNCHANGED <<flash, queue, asked, nodev, lost>>

DevAdd == \E u \in Units, n \in DevNames :
    /\ Given
    /\ With(When(GetDeviceById(mem, u) # 0, "unit"))
    /\ Edited(MbDevAdd(mem, u, n))

RegAdd == \E u \in Units, a \in Addrs, n \in RegNames :
    /\ Given
    /\ LET c == MbRegAdd(mem, u, a, n)
           S == Named(mem.meas, n)
       IN  /\ With(When(c # mem /\ GetReg(mem, n) # 0, "name") \cup
                   When(c # mem /\ \E i \in S : mem.meas[i].type = "builtin",
                        "taken") \cup
                   When(c # mem /\ Named(c.meas, n) = {}, "full"))
           /\ Edited(c)

\* Is a block freed that the queue points to?
FreesQueued(c) == \E i \in DOMAIN queue : c.block[queue[i]].kind = "free"
                                          /\ mem.block[queue[i]].kind # "free"

Delete(c) ==
    /\ Given /\ c # mem
    /\ With(When(FreesQueued(c), "queued"))
    /\ Edited(c)
RegDelete == \E n \in RegNames : Delete(MbRegDel(mem, n))
DevDelete == \E n \in DevNames : Delete(MbDevDel(mem, n))

\* interval, samplecount, is_immediate and repop.
MeasEdit ==
    /\ Given /\ had' = had
    /\ \/ \E n \in Names, v \in Intervals :
             Edited([mem EXCEPT !.meas = SetInterval(@, n, v)])
       \/ \E n \in Names, v \in Counts :
             Edited([mem EXCEPT !.meas = SetSamplecount(@, n, v)])
       \/ \E n \in Names, v \in BOOLEAN :
             Edited([mem EXCEPT !.meas = SetImmediate(@, n, v)])
Repop ==
    /\ Given /\ had' = had
    /\ Edited([mem EXCEPT !.meas = Repopulate(@)])

\* osm_persist_commit writes both pages if one of them is taken to differ.
Differs == ConfigCmp(mem, flash.bus) \/ mem.meas # flash.meas

Save ==
    /\ Given /\ had' = had
    /\ flash' = IF Differs THEN Flash(mem) ELSE flash
    /\ UNCHANGED <<mem, queue, asked, nodev, lost>>

Restart(f) ==
    /\ mem' = Load(f) /\ flash' = Saved(f)
    /\ queue' = <<>> /\ asked' = None
    /\ UNCHANGED <<nodev, lost>>

Reset == Given /\ had' = had /\ Restart(flash)
Wipe  == Given /\ had' = had /\ Restart([bus |-> None, meas |-> None])

\* The pages are erased first, and the bus is written before the
\* measurements.
SaveCut ==
    /\ Given /\ Differs /\ With({"cut"})
    /\ \/ Restart([flash EXCEPT !.bus = None])
       \/ Restart([bus |-> Bus(mem), meas |-> None])

Next == \/ \E n \in RegNames : Sample(n)
        \/ SendHead \/ Drop \/ Answer
        \/ DevAdd \/ RegAdd \/ RegDelete \/ DevDelete
        \/ MeasEdit \/ Repop
        \/ Save \/ Reset \/ Wipe \/ SaveCut

\* The bus is polled by the main loop and gives every request up in the end;
\* measurements are taken again and again, and there is room for them.
Fairness == /\ WF_vars(SendHead /\ asked = None)
            /\ WF_vars(Drop \/ Answer)
            /\ \A n \in RegNames : SF_vars(Sample(n))
Spec == Init /\ [][Next]_vars /\ Fairness
-----------------------------------------------------------------------------
Had(S) == had \cap S # {}
Live(c) == UNION {{d} \cup Range(Regs(c, d)) : d \in Range(Devs(c))}
Registers(c) == {b \in Live(c) : c.block[b].kind = "reg"}
Measured(c) == {c.meas[i].name :
                i \in {j \in 1..Slots : c.meas[j] # None
                                        /\ c.meas[j].type = "modbus"}}

TypeOK ==
    /\ DOMAIN mem.block = 1..Blocks
    /\ \A b \in 1..Blocks : mem.block[b].next \in 0..Blocks
    /\ \A i \in 1..Slots : mem.meas[i] # None =>
          /\ mem.meas[i].name \in Names
          /\ mem.meas[i].count \in Counts \ {0}
    /\ queue \in Seq(1..Blocks) /\ (asked # None => queue # <<>>)
    /\ nodev \in BOOLEAN /\ had \subseteq Faults

\* Every block is in one place: free, a device, or a register of one device.
\* No block is lost or given out twice, whatever is deleted while it is
\* queued, reloaded or written to by a late answer.
ListsSound ==
    LET free  == Chain(mem, mem.first_free)
        devs  == Devs(mem)
        lists == {free, devs} \cup {Regs(mem, d) : d \in Range(devs)}
    IN  /\ UNION {Range(s) : s \in lists} = 1..Blocks
        /\ \A s \in lists : IsInjective(s)
        /\ \A b \in Range(free) : mem.block[b].kind = "free"
        /\ \A d \in Range(devs) :
              /\ mem.block[d].kind = "dev"
              /\ \A r \in Range(Regs(mem, d)) :
                    /\ mem.block[r].kind = "reg"
                    /\ mem.block[r].unit = mem.block[d].unit
              /\ \A e \in Range(devs) \ {d} :
                    Range(Regs(mem, d)) \cap Range(Regs(mem, e)) = {}

\* The registers there are and the Modbus measurements there are have the
\* same names, after any edits, saves and restarts.  It is not so if two
\* devices share a unit id (mb_reg_del looks in the first) or two registers
\* a name, if there was no slot, if a device's unit id was spoilt by what
\* was queued, or if power was lost between the two pages of a save.
RegsMeasured ==
    Had({"unit", "name", "full", "queued", "cut"}) \/
    {mem.block[b].name : b \in Registers(mem)} = Measured(mem)

\* No name is measured twice, and the measurements of the model stay unless
\* a register takes their name, a page of the flash lost in a save included.
BuiltInsStay ==
    /\ \A i, j \in 1..Slots :
          mem.meas[i] # None /\ mem.meas[j] # None
          /\ mem.meas[i].name = mem.meas[j].name => i = j
    /\ Had({"taken"}) \/
       \A n \in Range(BuiltIns) : Named(mem.meas, n) # {}

\* A register that is READY holds what its own unit answered about its own
\* address, and an answer never meets a register without a device, unless
\* something was deleted while it was queued.
AnswersLand ==
    Had({"queued"}) \/
    /\ ~nodev
    /\ \A b \in Registers(mem) : mem.block[b].state = "ready" =>
          mem.block[b].from = Request(mem, b)

\* A register does not stay WAITING while it is measured: one whose request
\* was given up, or that was saved and reloaded so, is read again.
WaitingEnds ==
    \A n \in RegNames :
        LET waits == /\ Taken(mem, n)
                     /\ \E r \in {GetReg(mem, n)} \ {0} :
                           mem.block[r].state = "waiting"
        IN  waits ~> (~waits \/ Had({"queued"}))

\* "Return true if different": after a save the flash holds the devices and
\* registers that are set up (their values and states aside).
Plain(c) == [b \in 1..Blocks |->
    IF c.block[b].kind = "reg"
    THEN [c.block[b] EXCEPT !.state = "invalid", !.from = None]
    ELSE c.block[b]]
SaveSaves == [][Save => Plain(mem) = Plain(flash'.bus)]_vars
=============================================================================
