-------------------------------- MODULE Pins --------------------------------
(***************************************************************************)
(* The input and output pins: what each is used for, which commands change *)
(* it, the interrupts of the pulse counters and of the watched inputs, and *)
(* how it is set up at a start.                                            *)
(*                                                                         *)
(* A command is a list of the steps it makes, and interrupts come between  *)
(* them: an interrupt has the processor until its handler has cleared it.  *)
(* A step is what an interrupt cannot come between without it making a     *)
(* difference.  An edge while a command or the start is at work is a fault *)
(* that has its name; each fault uses up one of MaxFaults.                 *)
(*                                                                         *)
(* A start goes on from the registers it finds.  A restart of the hardware *)
(* has reset them; the commands reset and wipe only jump to the firmware's *)
(* first instruction, and what was enabled stays so.                       *)
(*                                                                         *)
(* One-wire needs no interrupt, and osm_w1_enable does nothing on these    *)
(* boards.  No board sets OSM_IO_DIR_LOCKED.                               *)
(***************************************************************************)
EXTENDS Naturals, Sequences

CONSTANTS
    Pins,           \* the pins
    Table,          \* them in the order of ios_state
    Edges,          \* edges a counter may count on
    Default,        \* IOS_STATE: what each pin is used for
    AtZero,         \* what the words at address 0 say it is used for
    Gpios,          \* directions and pulls io may give
    Commands,       \* commands given, each with the pins it may be given for
    Faults,         \* faults that happen
    MaxFaults,
    MaxCount        \* no more edges come to a counter that has so many

ASSUME PinsAssumption ==
    /\ Table \in Seq(Pins) /\ Table # <<>>
    /\ \A p \in Pins : \E i \in 1 .. Len(Table) : Table[i] = p
    /\ \A i, j \in 1 .. Len(Table) : Table[i] = Table[j] => i = j
    /\ Edges \subseteq {"falling", "rising", "both"}
    /\ Default \in [Pins -> Edges \cup {"w1", "watch"}]
    /\ AtZero \in [Pins -> Edges \cup {"none", "w1", "watch"}]
    /\ Gpios \subseteq [input : BOOLEAN, pull : BOOLEAN]
    /\ DOMAIN Commands \subseteq {"en_w1", "en_pulse", "en_watch", "io", "on", "pulse_dbnc"}
    /\ MaxFaults \in Nat /\ MaxCount \in Nat

First == Table[1]

Specials == Edges \cup {"none", "w1", "watch"}
State == [special : Specials, input : BOOLEAN, on : BOOLEAN, pull : BOOLEAN]
Zero == [special |-> "none", input |-> FALSE, on |-> FALSE, pull |-> FALSE]

VARIABLES
    ios,        \* ios_state, in the persistent configuration's copy in memory
    saved,      \* that in flash
    hw,         \* of each pin: mode, EXTI, NVIC, debounce timer, level
    pulse,      \* of each pin: its entry of _pulsecount_instances
    asked,      \* pins whose measurement has instant_send set
    todo,       \* what is left of the command at work
    faults      \* faults left, those there were, and the pins a start found
                \* listening that its settings do not use so

vars == <<ios, saved, hw, pulse, asked, todo, faults>>

IsPulse(p) == ios[p].special \in Edges
IsWatch(p) == ios[p].special = "watch"
Reset(level) ==
    [input |-> TRUE, exti |-> FALSE, nvic |-> FALSE, pend |-> FALSE, trig |-> "rising",
     tim |-> "off", timIrq |-> FALSE, level |-> level]
NoPulses == [edge |-> "rising", count |-> 0, send |-> 0]

\* An EXTI interrupt asks for the processor; a debounce timer's does.
Raised(p) == hw[p].exti /\ hw[p].nvic /\ hw[p].pend
Due(p) == hw[p].tim = "due" /\ hw[p].timIrq
Quiet == \A p \in Pins : ~Raised(p) /\ ~Due(p)
Had(fs) == faults.had \cap fs # {}
Fault(f) ==
    /\ f \in Faults /\ faults.left > 0
    /\ faults' = [faults EXCEPT !.left = @ - 1, !.had = @ \cup {f}]
-----------------------------------------------------------------------------
(* The steps of commands.                                                  *)

Step(op, p, arg) == [op |-> op, pin |-> p, arg |-> arg]

\* A new use clears the flags; osm_io_enable_w1 leaves the pull as it was.
SetSpecial(p, s, pull) ==
    /\ ios' = [ios EXCEPT ![p] = [special |-> s, input |-> FALSE, on |-> FALSE, pull |-> pull]]
    /\ UNCHANGED <<hw, pulse>>

\* osm_io_configure of a pin in use does no more than end the use.
ClearSpecial(p) ==
    /\ ios' = [ios EXCEPT ![p].special = "none"]
    /\ UNCHANGED <<hw, pulse>>

SetupGpio(p, state) ==
    /\ ios' = [ios EXCEPT ![p] = state]
    /\ hw' = [hw EXCEPT ![p].input = state.input]
    /\ UNCHANGED pulse

IoOn(p, on) ==
    /\ ios' = IF ios[p].input THEN ios ELSE [ios EXCEPT ![p].on = on]
    /\ UNCHANGED <<hw, pulse>>

\* _pulsecount_shutdown_instance: a pin that counts is left alone.
TimerOff(p) ==
    /\ hw' = IF IsPulse(p) THEN hw
             ELSE [hw EXCEPT ![p].timIrq = FALSE,
                             ![p].tim = IF @ = "running" THEN "off" ELSE @]
    /\ UNCHANGED <<ios, pulse>>

PulseOff(p) ==
    /\ IF IsPulse(p) THEN UNCHANGED <<hw, pulse>>
       ELSE /\ hw' = [hw EXCEPT ![p].exti = FALSE, ![p].nvic = FALSE]
            /\ pulse' = [pulse EXCEPT ![p].count = 0, ![p].send = 0]
    /\ UNCHANGED ios

\* _pulsecount_init_instance: up to the counts, and from the timer on.
PulseEdge(p, edge) ==
    /\ pulse' = IF IsPulse(p) THEN [pulse EXCEPT ![p] = [edge |-> edge, count |-> 0, send |-> 0]]
                ELSE [pulse EXCEPT ![p].edge = edge]
    /\ hw' = IF IsPulse(p) THEN [hw EXCEPT ![p].input = TRUE, ![p].trig = edge, ![p].exti = TRUE]
             ELSE hw
    /\ UNCHANGED ios

PulseOn(p) ==
    /\ hw' = IF IsPulse(p)
             THEN [hw EXCEPT ![p].tim = "off", ![p].timIrq = TRUE, ![p].nvic = TRUE]
             ELSE hw
    /\ UNCHANGED <<ios, pulse>>

WatchOff(p) ==
    /\ hw' = [hw EXCEPT ![p].exti = FALSE, ![p].nvic = FALSE]
    /\ UNCHANGED <<ios, pulse>>

WatchOn(p) ==
    /\ hw' = [hw EXCEPT ![p].input = TRUE, ![p].trig = "both",
                        ![p].exti = TRUE, ![p].nvic = TRUE]
    /\ UNCHANGED <<ios, pulse>>

\* An entry of the table at the start: osm_ios_init tests the bits of the use
\* one by one, and "watch" has those of a falling edge.
Counting(p) == IsPulse(p) \/ IsWatch(p)
InitPin(p) ==
    \/ Counting(p) /\ PulseEdge(p, ios[p].special)
    \/ ios[p].special = "none" /\ SetupGpio(p, ios[p])
    \/ ios[p].special = "w1" /\ UNCHANGED <<ios, hw, pulse>>

\* With the first pin's word 0 the whole table is taken to be missing.
Defaults == [p \in Pins |-> [Zero EXCEPT !.special = Default[p]]]
Loaded(flash) == IF flash[First] = Zero THEN Defaults ELSE flash

\* Until then ios_state is NULL, and the words at address 0 are taken for it.
NoTable == [p \in Pins |-> [Zero EXCEPT !.special = AtZero[p]]]

Load ==
    /\ ios' = Loaded(saved)
    /\ UNCHANGED <<hw, pulse>>

InitWatch(p) == IF IsWatch(p) THEN WatchOn(p) ELSE UNCHANGED <<ios, hw, pulse>>

Do(s) ==
    CASE s.op = "load" -> Load
      [] s.op = "init" -> InitPin(s.pin)
      [] s.op = "init watch" -> InitWatch(s.pin)
      [] s.op = "special" -> SetSpecial(s.pin, s.arg.special, s.arg.pull)
      [] s.op = "clear" -> ClearSpecial(s.pin)
      [] s.op = "gpio" -> SetupGpio(s.pin, s.arg)
      [] s.op = "on" -> IoOn(s.pin, s.arg.on)
      [] s.op = "timer off" -> TimerOff(s.pin)
      [] s.op = "pulse off" -> PulseOff(s.pin)
      [] s.op = "pulse edge" -> PulseEdge(s.pin, s.arg.special)
      [] s.op = "pulse on" -> PulseOn(s.pin)
      [] s.op = "watch off" -> WatchOff(s.pin)
      [] s.op = "watch on" -> WatchOn(s.pin)

\* The table is gone through twice.
Entering ==
    [i \in 1 .. 2 * Len(Table) |->
        IF i <= Len(Table) THEN Step("init", Table[i], Zero)
        ELSE Step("init watch", Table[i - Len(Table)], Zero)]

\* What is left once the first step is made: the entries of the table once it
\* is there, and of a counter's entry the second half.
After(steps) ==
    LET s == Head(steps) IN
    CASE s.op = "load" -> Entering
      [] s.op = "init" /\ Counting(s.pin) -> <<Step("pulse on", s.pin, Zero)>> \o Tail(steps)
      [] OTHER -> Tail(steps)

\* osm_io_watch_init looks up every measurement before its first entry.
Watches ==
    \A i \in DOMAIN todo.steps :
        todo.steps[i].op # "load" /\ todo.steps[i] # Step("init watch", First, Zero)
-----------------------------------------------------------------------------
(* The commands, and the start.                                            *)

As(s, pull) == [Zero EXCEPT !.special = s, !.pull = pull]

\* The pull matters only to a pin out of use, and those of counters and
\* watched inputs are none.
EnableW1(p) ==
    {<<Step("special", p, As("w1", ios[p].pull)),
       Step("timer off", p, Zero), Step("pulse off", p, Zero),
       Step("watch off", p, Zero)>>}

EnablePulsecount(p) ==
    {<<Step("special", p, As(edge, FALSE)), Step("watch off", p, Zero),
       Step("pulse edge", p, As(edge, FALSE)), Step("pulse on", p, Zero)>> : edge \in Edges}

EnableWatch(p) ==
    {<<Step("special", p, As("watch", FALSE)),
       Step("timer off", p, Zero), Step("pulse off", p, Zero),
       Step("watch on", p, Zero)>>}

Gpio(p) ==
    {<<Step("gpio", p, [Zero EXCEPT !.input = g.input, !.pull = g.pull])>> : g \in Gpios}

\* Mutant: a pin is taken out of use and its interrupt stays.
ConfigureClears(p) ==
    IF ios[p].special = "none" THEN Gpio(p) ELSE {<<Step("clear", p, Zero)>>}

\* io <pin> : IN|OUT [pull]
Configure(p) ==
    IF ios[p].special = "none" THEN Gpio(p)
    ELSE {<<Step("clear", p, Zero), Step("timer off", p, Zero), Step("pulse off", p, Zero)>>}

\* io <pin> = ON|OFF
OnOff(p) == {<<Step("on", p, [Zero EXCEPT !.on = on])>> : on \in BOOLEAN}

\* pulse_dbnc: the shutdown does nothing, the pin being a counter still.
Debounce(p) ==
    IF IsPulse(p)
    THEN {<<Step("timer off", p, Zero), Step("pulse off", p, Zero),
            Step("pulse edge", p, As(pulse[p].edge, FALSE)), Step("pulse on", p, Zero)>>}
    ELSE {}

Programs(c, p) ==
    CASE c = "en_w1" -> EnableW1(p)
      [] c = "en_pulse" -> EnablePulsecount(p)
      [] c = "en_watch" -> EnableWatch(p)
      [] c = "io" -> Configure(p)
      [] c = "on" -> OnOff(p)
      [] c = "pulse_dbnc" -> Debounce(p)

\* osm_ios_init, and then osm_io_watch_init.
Start == <<Step("load", First, Zero)>>
=============================================================================
