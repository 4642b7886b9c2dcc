----------------------------- MODULE PinsProofs -----------------------------
(***************************************************************************)
(* What holds of the pins whatever the table, the commands and the faults. *)
(*                                                                         *)
(* Handled and SetUp are about the pins between two commands, or with one  *)
(* at work.  The invariant says what a pin's hardware is at every step of  *)
(* every command: Stages, by the step that comes next.  It speaks of one   *)
(* pin's registers h, use sp and counter pu, so that what an interrupt or  *)
(* an edge does to them is a fact about these alone (Move).  A reset       *)
(* starts from registers that were in use: once an edge comes while it is  *)
(* at work no more than Types and Bounded is kept.                         *)
(***************************************************************************)
EXTENDS PinsSystem, SequenceTheorems, TLAPS

-----------------------------------------------------------------------------
(* The invariant.                                                          *)

Kinds == Specials \cup {"falling", "rising", "both"}
Hardware == [input : BOOLEAN, exti : BOOLEAN, nvic : BOOLEAN, pend : BOOLEAN,
             trig : Kinds, tim : {"off", "running", "due"},
             timIrq : BOOLEAN, level : {0, 1}]
Counter == [edge : Kinds, count : Nat, send : Nat]
Ops == {"load", "init", "init watch", "special", "clear", "gpio", "on", "timer off",
        "pulse off", "pulse edge", "pulse on", "watch off", "watch on"}
Args == [special : Kinds, input : BOOLEAN, on : BOOLEAN, pull : BOOLEAN]
StepSet ==
    {s \in [op : Ops, pin : Pins, arg : Args] : s.op # "pulse edge" => s.arg \in State}
ByCommand == {"en_w1", "en_pulse", "en_watch", "io", "on", "pulse_dbnc"}
ByStart == {"boot", "reset"}
FaultRecords ==
    [left : Nat, had : SUBSET (ByCommand \cup ByStart \cup {"restart"}), stale : SUBSET Pins]

Types ==
    /\ ios \in [Pins -> State] /\ saved \in [Pins -> State]
    /\ hw \in [Pins -> Hardware] /\ pulse \in [Pins -> Counter]
    /\ asked \subseteq Measured
    /\ todo \in [by : ByCommand \cup ByStart, steps : Seq(StepSet)]
    /\ faults \in FaultRecords

One(b) == IF b THEN 1 ELSE 0

\* An edge that is not counted yet is at the EXTI or at the timer.
Bounded ==
    \A p \in Pins :
        /\ pulse[p].send <= pulse[p].count
        /\ pulse[p].count + One(hw[p].pend) + One(hw[p].tim # "off") <= MaxCount + 1

\* The table is not there yet.
Loading == todo.by \in ByStart /\ todo.steps = Start

Known ==
    /\ \A p \in Pins : saved[p].special \in Edges => p \in Counters
    /\ ~Loading => \A p \in Pins : ios[p].special \in Edges => p \in Counters

\* A pin no step is at work on, by its registers h, its use sp, its counter pu
\* and whether a start found it listening (st); Loose is what it is then, and
\* what it is when its use has been taken away and its timer not yet stopped.
Unused(h) == ~h.exti /\ ~h.nvic /\ ~h.pend /\ h.tim = "off"
Loose(h) == (h.pend => h.exti) /\ (h.tim # "off" => h.timIrq) /\ (h.nvic \/ Unused(h))
Counted(h, sp, pu) == h.nvic /\ h.timIrq /\ h.input /\ h.trig = sp /\ pu.edge = sp
Watched(h, st) ==
    /\ h.exti /\ h.nvic /\ h.input /\ h.trig = "both"
    /\ IF st THEN h.tim # "off" => h.timIrq ELSE h.tim = "off"
Rests(h, sp, pu, st) ==
    /\ h.pend => h.exti
    /\ sp \in Edges => Counted(h, sp, pu)
    /\ sp = "watch" => Watched(h, st)
    /\ sp \in {"none", "w1"} => IF st THEN Loose(h) ELSE Unused(h)
Listens(h, sp) == sp \in Edges => h.exti # (h.tim # "off")

\* One whose timer has been stopped; one that is about to be set up as a
\* counter, the same once it is masked, and once its EXTI is set up and its
\* timer is not.
Stilled(h) == (h.pend => h.exti) /\ h.tim = "off" /\ (h.nvic \/ Unused(h))
Open(h) == (h.pend => h.exti) /\ (h.nvic \/ Unused(h))
Masked(h, c) == (h.pend => h.exti) /\ ~h.nvic /\ (Had({c}) \/ ~h.pend)
Half(h, sp, pu, c) ==
    /\ Masked(h, c)
    /\ h.input /\ h.trig = sp /\ pu.edge = sp
    /\ Deafened \/ h.exti
\* One that is set up again while it listens.
Again(h, sp, pu) ==
    /\ Rests(h, sp, pu, FALSE)
    /\ Had({"pulse_dbnc"}) \/ (h.exti /\ ~h.pend)

AtRest(p) ==
    /\ Rests(hw[p], ios[p].special, pulse[p], p \in faults.stale)
    /\ Deafened \/ Listens(hw[p], ios[p].special)

\* What is left of the command at work on pin p, and what p is then.
Uses(p, use, pull) == Step("special", p, As(use, pull))
Clears(p) == Step("clear", p, Zero)
SetsGpio(p, g) == Step("gpio", p, g)
Sets(p, g) == Step("on", p, g)
StopsTimer(p) == Step("timer off", p, Zero)
StopsPulse(p) == Step("pulse off", p, Zero)
StopsWatch(p) == Step("watch off", p, Zero)
SetsEdge(p, edge) == Step("pulse edge", p, As(edge, FALSE))
StartsPulse(p) == Step("pulse on", p, Zero)
StartsWatch(p) == Step("watch on", p, Zero)

InEnW1(p, s) ==
    \/ \E pull \in BOOLEAN :
           s = <<Uses(p, "w1", pull), StopsTimer(p), StopsPulse(p), StopsWatch(p)>> /\ AtRest(p)
    \/ /\ ios[p].special = "w1"
       /\ \/ s = <<StopsTimer(p), StopsPulse(p), StopsWatch(p)>> /\ Loose(hw[p])
          \/ s = <<StopsPulse(p), StopsWatch(p)>> /\ Stilled(hw[p])
          \/ s = <<StopsWatch(p)>> /\ Unused(hw[p])

InEnWatch(p, s) ==
    \/ s = <<Uses(p, "watch", FALSE), StopsTimer(p), StopsPulse(p), StartsWatch(p)>> /\ AtRest(p)
    \/ /\ ios[p].special = "watch"
       /\ \/ s = <<StopsTimer(p), StopsPulse(p), StartsWatch(p)>> /\ Loose(hw[p])
          \/ s = <<StopsPulse(p), StartsWatch(p)>> /\ Stilled(hw[p])
          \/ s = <<StartsWatch(p)>> /\ Unused(hw[p])

InIo(p, s) ==
    \/ /\ s = <<Clears(p), StopsTimer(p), StopsPulse(p)>>
       /\ AtRest(p)
    \/ /\ ios[p].special = "none"
       /\ \/ \E g \in State : s = <<SetsGpio(p, g)>> /\ g.special = "none" /\ AtRest(p)
          \/ s = <<StopsTimer(p), StopsPulse(p)>> /\ Loose(hw[p])
          \/ s = <<StopsPulse(p)>> /\ Stilled(hw[p])

InOn(p, s) == \E g \in State : s = <<Sets(p, g)>> /\ AtRest(p)

InEnPulse(p, s) ==
    /\ p \in Counters
    /\ \E e \in Edges :
        \/ s = <<Uses(p, e, FALSE), StopsWatch(p), SetsEdge(p, e), StartsPulse(p)>> /\ AtRest(p)
        \/ /\ ios[p].special = e
           /\ \/ s = <<StopsWatch(p), SetsEdge(p, e), StartsPulse(p)>> /\ Open(hw[p])
              \/ s = <<SetsEdge(p, e), StartsPulse(p)>>
                     /\ Masked(hw[p], "en_pulse")
              \/ s = <<StartsPulse(p)>> /\ Half(hw[p], e, pulse[p], "en_pulse")

InDebounce(p, s) ==
    \E e \in Edges :
        /\ ios[p].special = e
        /\ \/ s = <<StopsTimer(p), StopsPulse(p), SetsEdge(p, e), StartsPulse(p)>> /\ AtRest(p)
           \/ s = <<StopsPulse(p), SetsEdge(p, e), StartsPulse(p)>> /\ AtRest(p)
           \/ s = <<SetsEdge(p, e), StartsPulse(p)>> /\ AtRest(p)
           \/ s = <<StartsPulse(p)>> /\ Again(hw[p], e, pulse[p])

InCommand(p) ==
    \/ todo.by = "en_w1" /\ InEnW1(p, todo.steps)
    \/ todo.by = "en_watch" /\ InEnWatch(p, todo.steps)
    \/ todo.by = "io" /\ InIo(p, todo.steps)
    \/ todo.by = "on" /\ InOn(p, todo.steps)
    \/ todo.by = "en_pulse" /\ InEnPulse(p, todo.steps)
    \/ todo.by = "pulse_dbnc" /\ InDebounce(p, todo.steps)

\* The start: each entry comes once, and the second half of a counter's next.
Has(s, op, p) == \E i \in 1 .. Len(s) : s[i].op = op /\ s[i].pin = p
Left(op, p) == Has(todo.steps, op, p)
Entries(s) ==
    /\ \A i \in 1 .. Len(s) :
           /\ s[i] = Step(s[i].op, s[i].pin, Zero)
           /\ s[i].op \in {"init", "init watch"} \/ (i = 1 /\ s[i].op = "pulse on")
    /\ \A i, j \in 1 .. Len(s) : s[i] = s[j] => i = j
    /\ \A i, j \in 1 .. Len(s) :
           s[i].op = "pulse on" /\ s[j].op = "init" => s[i].pin # s[j].pin
\* Registers that are as at power on, or of which no edge has been taken since
\* the reset; and the same with the EXTI of a counter set up.
Fresh(p) == Loose(hw[p]) /\ ~hw[p].pend /\ (todo.by = "boot" => Unused(hw[p]))
Made(h, sp, pu) == ~h.pend /\ h.exti /\ h.input /\ h.trig = sp /\ pu.edge = sp
HalfStarted(p) ==
    IF todo.by = "boot" THEN Half(hw[p], ios[p].special, pulse[p], "boot")
    ELSE Made(hw[p], ios[p].special, pulse[p])
NoTimer(p) == p \in faults.stale \/ hw[p].tim = "off"
Ready(p) ==
    LET sp == Loaded(saved)[p].special IN
    /\ Fresh(p)
    /\ sp = "watch" => NoTimer(p)
    /\ sp \in {"none", "w1"} => p \in faults.stale \/ Unused(hw[p])
Starting(p) ==
    LET sp == ios[p].special IN
    IF sp \in Edges /\ Left("init", p) THEN Fresh(p)
    ELSE IF sp \in Edges /\ Left("pulse on", p) THEN HalfStarted(p)
    ELSE IF sp = "watch" /\ Left("init watch", p) THEN Fresh(p) /\ NoTimer(p)
    ELSE AtRest(p)

Stages ==
    \/ Idle /\ \A p \in Pins : AtRest(p)
    \/ Loading /\ \A p \in Pins : Ready(p)
    \/ ~Idle /\ todo.by \in ByStart /\ Entries(todo.steps) /\ \A p \in Pins : Starting(p)
    \/ ~Idle /\ \E p \in Pins : InCommand(p) /\ \A q \in Pins \ {p} : AtRest(q)

\* A pin without a handler has no interrupt waiting.
Still ==
    \/ Had({"en_w1", "io"})
    \/ \A p \in Pins \ faults.stale : ios[p].special \in {"none", "w1"} => ~hw[p].pend

IInv == Types /\ Bounded /\ (Had({"reset"}) \/ (Known /\ Stages /\ Still))
-----------------------------------------------------------------------------
(* What happens to the pins while main makes no step.                      *)

\* What an edge or an interrupt does to one pin: an edge may be kept, a timer
\* runs out, a pulse is timed, a counter's edge is taken by its own interrupt
\* or another's, and a watched input's is noted.
Move(p) ==
    LET h == hw[p]
        g == hw'[p] IN
    /\ g.input = h.input /\ g.nvic = h.nvic /\ g.trig = h.trig /\ g.timIrq = h.timIrq
    /\ g.pend => h.pend \/ Idle \/ todo.by \in faults'.had
    /\ \/ g.exti = h.exti /\ g.tim = h.tim /\ (g.pend => h.pend \/ h.exti)
       \/ g.exti = h.exti /\ g.pend = h.pend /\ h.tim = "running" /\ g.tim = "due"
       \/ g.exti /\ g.pend = h.pend /\ h.tim = "due" /\ h.timIrq /\ g.tim = "off"
       \/ /\ ios[p].special \in Edges
          /\ h.pend /\ ~g.pend /\ ~g.exti
          /\ g.tim = IF h.tim = "off" THEN "running" ELSE h.tim
          /\ \E q \in Pins : ios[q].special \in Edges /\ hw[q].nvic

Env ==
    /\ UNCHANGED <<ios, todo>>
    /\ \A p \in Pins : pulse'[p].edge = pulse[p].edge
    /\ faults.had \subseteq faults'.had /\ faults'.stale = faults.stale
    /\ \A p \in Pins : Move(p)

LEMMA HadGrows ==
    ASSUME faults.had \subseteq faults'.had, NEW fs
    PROVE  Had(fs) => Had(fs)'
  BY DEF Had

LEMMA DeafenedGrows ==
    ASSUME faults.had \subseteq faults'.had
    PROVE  Deafened => Deafened'
  BY HadGrows DEF Deafened

LEMMA RestsMoved ==
    ASSUME Types, Types', NEW p \in Pins, Move(p), UNCHANGED ios,
           pulse'[p].edge = pulse[p].edge, NEW st \in BOOLEAN
    PROVE  /\ Rests(hw[p], ios[p].special, pulse[p], st)
                  => Rests(hw'[p], ios'[p].special, pulse'[p], st)
           /\ Rests(hw[p], ios[p].special, pulse[p], st) /\ Listens(hw[p], ios[p].special)
                  => Listens(hw[p], ios[p].special)'
<1> DEFINE sp == ios[p].special
           h == hw[p]
           g == hw'[p]
<1>s. ios'[p].special = sp /\ sp \in Specials /\ h \in Hardware /\ g \in Hardware
  BY DEF Types, State
<1>m. /\ g.input = h.input /\ g.nvic = h.nvic /\ g.trig = h.trig /\ g.timIrq = h.timIrq
      /\ \/ g.exti = h.exti /\ g.tim = h.tim /\ (g.pend => h.pend \/ h.exti)
         \/ g.exti = h.exti /\ g.pend = h.pend /\ h.tim = "running" /\ g.tim = "due"
         \/ g.exti /\ g.pend = h.pend /\ h.tim = "due" /\ h.timIrq /\ g.tim = "off"
         \/ /\ sp \in Edges /\ h.pend /\ ~g.pend /\ ~g.exti
            /\ g.tim = IF h.tim = "off" THEN "running" ELSE h.tim
  BY DEF Move
<1>e. /\ sp \in Edges \/ sp = "watch" \/ sp \in {"none", "w1"}
      /\ ~(sp \in Edges /\ (sp = "watch" \/ sp \in {"none", "w1"}))
      /\ ~(sp = "watch" /\ sp \in {"none", "w1"})
  BY <1>s, PinsAssumption DEF Specials
<1> HIDE DEF sp, h, g
<1>1. Rests(h, sp, pulse[p], st) => Rests(g, sp, pulse'[p], st)
  <2>1. CASE sp \in Edges
    BY <1>e, <1>s, <1>m, <2>1 DEF Rests, Counted, Hardware
  <2>2. CASE sp = "watch"
    BY <1>e, <1>s, <1>m, <2>2 DEF Rests, Watched, Hardware
  <2>3. CASE sp \in {"none", "w1"}
    BY <1>e, <1>s, <1>m, <2>3 DEF Rests, Loose, Unused, Hardware
  <2> QED
    BY <1>e, <2>1, <2>2, <2>3
<1>2. Rests(h, sp, pulse[p], st) /\ Listens(h, sp) => Listens(g, sp)
  BY <1>e, <1>s, <1>m DEF Rests, Listens, Counted, Hardware
<1> QED
  BY <1>s, <1>1, <1>2 DEF sp, h, g

LEMMA LooseMoved ==
    ASSUME Types, Types', NEW p \in Pins, Move(p)
    PROVE  /\ Unused(hw[p]) => Unused(hw[p])'
           /\ Open(hw[p]) => Open(hw[p])'
           /\ Loose(hw[p]) /\ ios[p].special \notin Edges => Loose(hw[p])'
           /\ Stilled(hw[p]) /\ ios[p].special \notin Edges => Stilled(hw[p])'
           /\ Loose(hw[p]) /\ ~hw[p].pend => Loose(hw[p])'
  BY DEF Types, Hardware, Move, Unused, Open, Loose, Stilled

LEMMA MaskedMoved ==
    ASSUME Types, Types', NEW p \in Pins, Move(p), ~Idle,
           UNCHANGED todo, faults.had \subseteq faults'.had
    PROVE  Masked(hw[p], todo.by) => Masked(hw[p], todo.by)'
  BY HadGrows DEF Types, Hardware, Move, Masked, Had

LEMMA AtRestMoved ==
    ASSUME Types, Types', Env, NEW p \in Pins
    PROVE  AtRest(p) => AtRest(p)'
<1>1. /\ Move(p) /\ UNCHANGED ios /\ pulse'[p].edge = pulse[p].edge
      /\ faults'.stale = faults.stale /\ faults.had \subseteq faults'.had
  BY DEF Env
<1>2. (p \in faults.stale) \in BOOLEAN
  OBVIOUS
<1>3. AtRest(p) => Rests(hw'[p], ios'[p].special, pulse'[p], p \in faults.stale)
  BY <1>1, <1>2, RestsMoved DEF AtRest
<1>4. AtRest(p) => Deafened' \/ Listens(hw[p], ios[p].special)'
  BY <1>1, <1>2, RestsMoved, DeafenedGrows DEF AtRest
<1> QED
  BY <1>1, <1>3, <1>4 DEF AtRest

\* A counter that is half set up is deaf only where Deafened says so.
LEMMA HalfMoved ==
    ASSUME Types, Types', Known, ~Loading, Env, ~Idle, todo.by \in {"boot", "en_pulse"},
           NEW p \in Pins, ios[p].special \in Edges,
           Half(hw[p], ios[p].special, pulse[p], todo.by)
    PROVE  Half(hw[p], ios[p].special, pulse[p], todo.by)'
<1> Move(p) /\ UNCHANGED <<ios, todo>> /\ pulse'[p].edge = pulse[p].edge
      /\ faults.had \subseteq faults'.had
  BY DEF Env
<1>1. Masked(hw[p], todo.by)'
  BY MaskedMoved DEF Half
<1>2. Deafened' \/ hw'[p].exti
  <2> SUFFICES ASSUME ~Deafened' PROVE hw'[p].exti
    OBVIOUS
  <2>1. ~Deafened /\ hw[p].exti
    BY DeafenedGrows DEF Half
  <2>2. Alone \/ ~hw[p].pend
    BY <2>1 DEF Half, Masked, Deafened, Had
  <2>3. ~hw[p].nvic
    BY DEF Half, Masked
  <2>4. ASSUME Alone, NEW q \in Pins, ios[q].special \in Edges, hw[q].nvic PROVE FALSE
    BY <2>3, <2>4 DEF Alone, Known
  <2> QED
    BY <2>1, <2>2, <2>4 DEF Move
<1>3. (hw[p].input /\ hw[p].trig = ios[p].special /\ pulse[p].edge = ios[p].special)'
  BY DEF Half, Move
<1> QED
  BY <1>1, <1>2, <1>3 DEF Half

LEMMA AgainMoved ==
    ASSUME Types, Types', Env, ~Idle, todo.by = "pulse_dbnc",
           NEW p \in Pins, Again(hw[p], ios[p].special, pulse[p])
    PROVE  Again(hw[p], ios[p].special, pulse[p])'
<1> Move(p) /\ UNCHANGED <<ios, todo>> /\ pulse'[p].edge = pulse[p].edge
      /\ faults.had \subseteq faults'.had
  BY DEF Env
<1>1. Rests(hw'[p], ios'[p].special, pulse'[p], FALSE)
  BY RestsMoved DEF Again
<1>2. ASSUME ~Had({"pulse_dbnc"})' PROVE hw'[p].exti /\ ~hw'[p].pend
  BY <1>2 DEF Again, Move, Had, Types, Hardware
<1> QED
  BY <1>1, <1>2 DEF Again

\* What is left of a command, and what its pin is then, stays so.
LEMMA InCommandMoved ==
    ASSUME Types, Types', Known, Env, ~Idle, NEW p \in Pins, InCommand(p)
    PROVE  InCommand(p)'
<1> Move(p) /\ UNCHANGED <<ios, todo>>
  BY DEF Env
<1>a. AtRest(p) => AtRest(p)'
  BY AtRestMoved
<1>l. /\ Unused(hw[p]) => Unused(hw[p])'
      /\ Open(hw[p]) => Open(hw[p])'
      /\ ios[p].special \notin Edges => (Loose(hw[p]) => Loose(hw[p])')
      /\ ios[p].special \notin Edges => (Stilled(hw[p]) => Stilled(hw[p])')
  BY LooseMoved
<1>e. "w1" \notin Edges /\ "none" \notin Edges /\ "watch" \notin Edges
  BY PinsAssumption
<1>1. CASE todo.by = "en_w1" /\ InEnW1(p, todo.steps)
  BY <1>a, <1>l, <1>e, <1>1 DEF InEnW1, InCommand
<1>2. CASE todo.by = "en_watch" /\ InEnWatch(p, todo.steps)
  BY <1>a, <1>l, <1>e, <1>2 DEF InEnWatch, InCommand
<1>3. CASE todo.by = "io" /\ InIo(p, todo.steps)
  BY <1>a, <1>l, <1>e, <1>3 DEF InIo, InCommand
<1>4. CASE todo.by = "on" /\ InOn(p, todo.steps)
  BY <1>a, <1>4 DEF InOn, InCommand
<1>5. CASE todo.by = "en_pulse" /\ InEnPulse(p, todo.steps)
  <2>1. ~Loading
    BY <1>5 DEF Loading, ByStart
  <2> QED
    BY <1>a, <1>l, <1>5, <2>1, HalfMoved, MaskedMoved DEF InEnPulse, InCommand, Env
<1>6. CASE todo.by = "pulse_dbnc" /\ InDebounce(p, todo.steps)
  BY <1>a, <1>6, AgainMoved DEF InDebounce, InCommand
<1> QED
  BY <1>1, <1>2, <1>3, <1>4, <1>5, <1>6 DEF InCommand

\* While a start is at work no edge comes to a pin that is as at power on, nor
\* to any while a reset has no fault.
LEMMA FreshMoved ==
    ASSUME Types, Types', Env, ~Idle, todo.by \in ByStart, ~Had({"reset"})', NEW p \in Pins
    PROVE  /\ Fresh(p) => Fresh(p)'
           /\ ~hw[p].pend /\ NoTimer(p) => NoTimer(p)'
           /\ todo.by = "reset" /\ Made(hw[p], ios[p].special, pulse[p])
                  => Made(hw[p], ios[p].special, pulse[p])'
<1>1. /\ Move(p) /\ UNCHANGED <<ios, todo>> /\ pulse'[p].edge = pulse[p].edge
      /\ faults'.stale = faults.stale
  BY DEF Env
<1>2. todo.by = "reset" => (hw'[p].pend => hw[p].pend)
  BY <1>1 DEF Move, Had
<1>3. todo.by = "boot" \/ todo.by = "reset"
  BY DEF ByStart
<1>4. Unused(hw[p]) => Unused(hw[p])' /\ ~hw'[p].pend
  BY <1>1, LooseMoved DEF Unused
<1>5. Fresh(p) => Fresh(p)'
  BY <1>1, <1>2, <1>3, <1>4, LooseMoved DEF Fresh
<1>6. ~hw[p].pend /\ NoTimer(p) => NoTimer(p)'
  BY <1>1 DEF NoTimer, Move
<1>7. todo.by = "reset" /\ Made(hw[p], ios[p].special, pulse[p])
          => Made(hw[p], ios[p].special, pulse[p])'
  BY <1>1, <1>2 DEF Made, Move
<1> QED
  BY <1>5, <1>6, <1>7

LEMMA StartHead ==
    /\ Start # <<>> /\ ~Entries(Start)
    /\ Start = <<Step("load", First, Zero)>> /\ Step("load", First, Zero).op = "load"
<1> DEFINE a == Step("load", First, Zero)
<1>1. Start = <<a>> /\ a.op = "load"
  BY DEF Start, Step
<1> HIDE DEF a
<1>2. Start # <<>> /\ 1 \in 1 .. Len(Start) /\ Start[1] = a
  BY <1>1
<1>3. ~Entries(Start)
  BY <1>1, <1>2 DEF Entries
<1> QED
  BY <1>1, <1>2, <1>3 DEF a

LEMMA StagesMoved ==
    ASSUME Types, Types', Known, Stages, Env, ~Had({"reset"})', saved' = saved \/ Idle
    PROVE  Stages'
<1>a. \A p \in Pins : AtRest(p) => AtRest(p)'
  BY AtRestMoved
<1>i. UNCHANGED <<ios, todo>> /\ (Idle' <=> Idle) /\ (Loading' <=> Loading)
      /\ faults'.stale = faults.stale
  BY DEF Env, Idle, Loading, Start
<1>1. CASE Idle /\ \A p \in Pins : AtRest(p)
  BY <1>a, <1>i, <1>1 DEF Stages
<1>2. CASE Loading /\ \A p \in Pins : Ready(p)
  <2>0. ~Idle /\ todo.by \in ByStart /\ saved' = saved
    BY <1>2, StartHead DEF Loading, Idle
  <2>1. ASSUME NEW p \in Pins PROVE Ready(p)'
    <3>1. Ready(p) /\ (Unused(hw[p]) => Unused(hw[p])')
      BY <1>2, LooseMoved DEF Env
    <3>2. /\ Fresh(p) => Fresh(p)'
          /\ ~hw[p].pend /\ NoTimer(p) => NoTimer(p)'
      BY <2>0, FreshMoved
    <3>3. Loaded(saved)'[p] = Loaded(saved)[p]
      BY <2>0 DEF Loaded, Defaults
    <3> QED
      BY <1>i, <3>1, <3>2, <3>3 DEF Ready, Fresh
  <2> QED
    BY <1>2, <1>i, <2>1 DEF Stages
<1>3. CASE ~Idle /\ todo.by \in ByStart /\ Entries(todo.steps) /\ \A p \in Pins : Starting(p)
  <2>0. ~Loading
    BY <1>3, StartHead DEF Loading
  <2>1. ASSUME NEW p \in Pins PROVE Starting(p)'
    <3>1. Starting(p)
      BY <1>3
    <3>2. /\ Fresh(p) => Fresh(p)'
          /\ Fresh(p) /\ NoTimer(p) => NoTimer(p)'
      BY <1>3, FreshMoved DEF Fresh
    <3>3. ios[p].special \in Edges /\ HalfStarted(p) => HalfStarted(p)'
      <4>1. CASE todo.by = "boot"
        BY <1>3, <1>i, <2>0, <4>1, HalfMoved DEF HalfStarted
      <4>2. CASE todo.by = "reset"
        BY <1>3, <1>i, <4>2, FreshMoved DEF HalfStarted
      <4> QED
        BY <1>3, <4>1, <4>2 DEF ByStart
    <3>4. \A op : Left(op, p)' <=> Left(op, p)
      BY <1>i DEF Left
    <3> QED
      BY <1>a, <1>i, <3>1, <3>2, <3>3, <3>4 DEF Starting
  <2>2. ~Idle' /\ todo'.by \in ByStart /\ Entries(todo.steps)'
    <3>1. todo' = todo
      BY <1>i
    <3>2. Entries(todo'.steps)
      BY <1>3, <3>1
    <3> QED
      BY <1>3, <1>i, <3>1, <3>2
  <2> QED
    BY <2>1, <2>2 DEF Stages
<1>4. CASE ~Idle /\ \E p \in Pins : InCommand(p) /\ \A q \in Pins \ {p} : AtRest(q)
  <2>1. PICK p \in Pins : InCommand(p) /\ \A q \in Pins \ {p} : AtRest(q)
    BY <1>4
  <2>2. InCommand(p)' /\ (\A q \in Pins \ {p} : AtRest(q)') /\ ~Idle'
    BY <1>a, <1>i, <1>4, <2>1, InCommandMoved
  <2> QED
    BY <2>2 DEF Stages
<1>s. \/ Idle /\ \A p \in Pins : AtRest(p)
      \/ Loading /\ \A p \in Pins : Ready(p)
      \/ ~Idle /\ todo.by \in ByStart /\ Entries(todo.steps) /\ \A p \in Pins : Starting(p)
      \/ ~Idle /\ \E p \in Pins : InCommand(p) /\ \A q \in Pins \ {p} : AtRest(q)
  BY DEF Stages
<1> QED
  BY <1>s, <1>1, <1>2, <1>3, <1>4

LEMMA KindsAre ==
    Specials \subseteq Kinds /\ Edges \subseteq Kinds /\ {"falling", "rising", "both"} \subseteq Kinds
  BY DEF Kinds, Specials

LEMMA Registers ==
    ASSUME NEW h \in Hardware, NEW b \in BOOLEAN, NEW c \in BOOLEAN,
           NEW t \in {"off", "running", "due"}, NEW l \in {0, 1}
    PROVE  /\ [h EXCEPT !.pend = b] \in Hardware
           /\ [h EXCEPT !.level = l, !.pend = b] \in Hardware
           /\ [h EXCEPT !.pend = b, !.exti = c, !.tim = t] \in Hardware
           /\ [h EXCEPT !.tim = t] \in Hardware
           /\ [h EXCEPT !.tim = t, !.exti = b] \in Hardware
           /\ [h EXCEPT !.timIrq = b, !.tim = t] \in Hardware
           /\ [h EXCEPT !.exti = b, !.nvic = b] \in Hardware
           /\ \A e \in Kinds : [h EXCEPT !.input = b, !.trig = e, !.exti = c] \in Hardware
           /\ [h EXCEPT !.tim = t, !.timIrq = b, !.nvic = c] \in Hardware
           /\ [h EXCEPT !.input = TRUE, !.trig = "both", !.exti = TRUE, !.nvic = TRUE] \in Hardware
           /\ [h EXCEPT !.input = b] \in Hardware
  BY KindsAre DEF Hardware

LEMMA CounterOf ==
    ASSUME NEW u \in Counter, NEW m \in Nat, NEW n \in Nat
    PROVE  /\ [u EXCEPT !.count = m] \in Counter /\ [u EXCEPT !.count = m].edge = u.edge
           /\ [u EXCEPT !.send = n] \in Counter /\ [u EXCEPT !.send = n].edge = u.edge
           /\ [u EXCEPT !.count = m, !.send = n] \in Counter
           /\ [u EXCEPT !.count = m, !.send = n].edge = u.edge
           /\ \A e \in Kinds : [u EXCEPT !.edge = e] \in Counter
           /\ \A e \in Kinds : [edge |-> e, count |-> m, send |-> n] \in Counter
  BY DEF Counter

LEMMA EdgeMoves ==
    ASSUME Types, NEW r \in Pins, Edge(r)
    PROVE  Env /\ Types'
<1> DEFINE h == hw[r]
           g == [h EXCEPT !.level = 1 - @, !.pend = @ \/ (h.exti /\ h.trig \in Turns(r))]
<1>1. hw' = [hw EXCEPT ![r] = g]
  BY DEF Edge
<1>2. h \in Hardware /\ g \in Hardware
  <2>1. h \in Hardware
    BY DEF Types
  <2>2. 1 - h.level \in {0, 1} /\ (h.pend \/ (h.exti /\ h.trig \in Turns(r))) \in BOOLEAN
    BY <2>1 DEF Hardware
  <2> QED
    BY <2>1, <2>2, Registers
<1>3. /\ faults.had \subseteq faults'.had /\ (Idle \/ todo.by \in faults'.had)
      /\ faults'.stale = faults.stale /\ faults' \in FaultRecords
  <2>1. CASE Idle
    BY <2>1 DEF Edge, Types
  <2>2. CASE ~Idle
    <3>0. Fault(todo.by)
      BY <2>2 DEF Edge
    <3> DEFINE l == faults.left - 1
               d == faults.had \cup {todo.by}
    <3>1. faults \in FaultRecords /\ todo.by \in ByCommand \cup ByStart
      BY DEF Types
    <3>2. l \in Nat /\ d \in SUBSET (ByCommand \cup ByStart \cup {"restart"})
      <4>1. faults.left \in Nat /\ faults.left > 0
        BY <3>0, <3>1 DEF Fault, FaultRecords
      <4>2. l \in Nat
        BY <4>1
      <4> QED
        BY <3>1, <4>2 DEF FaultRecords
    <3>3. faults' = [faults EXCEPT !.left = l, !.had = d]
      BY <3>0 DEF Fault
    <3> HIDE DEF l
    <3>4. /\ faults' \in FaultRecords /\ faults'.had = d /\ faults'.stale = faults.stale
      BY <3>1, <3>2, <3>3 DEF FaultRecords
    <3> QED
      BY <3>4
  <2> QED
    BY <2>1, <2>2
<1>4. ASSUME NEW p \in Pins PROVE Move(p)
  BY <1>1, <1>2, <1>3, <1>4 DEF Move, Types, Hardware
<1>5. Types'
  BY <1>1, <1>2, <1>3 DEF Edge, Types
<1> QED
  BY <1>3, <1>4, <1>5 DEF Edge, Env

LEMMA PulseIsrMoves ==
    ASSUME Types, NEW r \in Pins, PulseIsr(r)
    PROVE  Env /\ Types'
<1> DEFINE G(h) == [h EXCEPT !.pend = FALSE, !.exti = FALSE,
                             !.tim = IF @ = "off" THEN "running" ELSE @]
<1>1. /\ hw' = [q \in Pins |-> IF IsPulse(q) /\ hw[q].pend THEN G(hw[q]) ELSE hw[q]]
      /\ UNCHANGED <<ios, saved, pulse, asked, todo, faults>>
      /\ hw[r].nvic /\ IsPulse(r)
  BY DEF PulseIsr, Raised
<1>2. \A q \in Pins : G(hw[q]) \in Hardware
  <2> SUFFICES ASSUME NEW h \in Hardware PROVE G(h) \in Hardware
    BY DEF Types
  <2>1. (IF h.tim = "off" THEN "running" ELSE h.tim) \in {"off", "running", "due"}
    BY DEF Hardware
  <2> QED
    BY <2>1, Registers
<1>3. Types'
  BY <1>1, <1>2 DEF Types
<1>4. ASSUME NEW p \in Pins PROVE Move(p)
  BY <1>1, <1>4 DEF Move, Types, Hardware, IsPulse
<1> QED
  BY <1>1, <1>3, <1>4 DEF Env

LEMMA WatchIsrMoves ==
    ASSUME Types, NEW r \in Pins, WatchIsr(r)
    PROVE  Env /\ Types'
<1> DEFINE G(h) == [h EXCEPT !.pend = FALSE]
           seen == {q \in Pins : IsWatch(q) /\ hw[q].pend}
<1>1. /\ hw' = [q \in Pins |-> IF q \in seen THEN G(hw[q]) ELSE hw[q]]
      /\ asked' = asked \cup (seen \cap Measured) \/ asked' = asked
      /\ UNCHANGED <<ios, saved, pulse, todo, faults>>
  BY DEF WatchIsr
<1>2. \A q \in Pins : G(hw[q]) \in Hardware
  BY Registers DEF Types
<1>3. Types'
  BY <1>1, <1>2 DEF Types
<1>4. ASSUME NEW p \in Pins PROVE Move(p)
  BY <1>1, <1>4 DEF Move, Types, Hardware, IsWatch
<1> QED
  BY <1>1, <1>3, <1>4 DEF Env

LEMMA TimerMoves ==
    ASSUME Types, NEW r \in Pins, TimerEnds(r) \/ DebounceIsr(r)
    PROVE  Env /\ Types'
<1> DEFINE Later == [hw[r] EXCEPT !.tim = "due"]
           Heard == [hw[r] EXCEPT !.tim = "off", !.exti = TRUE]
           More  == [pulse[r] EXCEPT !.count = @ + 1]
<1>1. Later \in Hardware /\ Heard \in Hardware /\ More \in Counter
  <2>1. hw[r] \in Hardware /\ pulse[r] \in Counter /\ pulse[r].count + 1 \in Nat
    BY DEF Types, Counter
  <2> QED
    BY <2>1, Registers, CounterOf
<1>2. CASE TimerEnds(r)
  <2>1. hw' = [hw EXCEPT ![r] = Later] /\ hw[r].tim = "running"
        /\ UNCHANGED <<ios, saved, pulse, asked, todo, faults>>
    BY <1>2 DEF TimerEnds
  <2>2. ASSUME NEW p \in Pins PROVE Move(p)
    BY <2>1, <2>2 DEF Move, Types, Hardware
  <2> QED
    BY <1>1, <2>1, <2>2 DEF Types, Env
<1>3. CASE DebounceIsr(r)
  <2>1. /\ hw' = [hw EXCEPT ![r] = Heard] /\ hw[r].tim = "due" /\ hw[r].timIrq
        /\ pulse' = IF Counts(r) THEN [pulse EXCEPT ![r] = More] ELSE pulse
        /\ UNCHANGED <<ios, saved, asked, todo, faults>>
    BY <1>3 DEF DebounceIsr, Due
  <2>2. ASSUME NEW p \in Pins PROVE Move(p)
    BY <2>1, <2>2 DEF Move, Types, Hardware
  <2>3. pulse' \in [Pins -> Counter] /\ \A p \in Pins : pulse'[p].edge = pulse[p].edge
    <3>1. More.edge = pulse[r].edge
      BY DEF Types, Counter
    <3> QED
      BY <1>1, <2>1, <3>1 DEF Types
  <2> QED
    BY <1>1, <2>1, <2>2, <2>3 DEF Types, Env
<1> QED
  BY <1>2, <1>3

\* What the measurements do, and the save, leave the pins alone.
LEMMA MeasureMoves ==
    ASSUME Types, Bounded,
           Save \/ \E r \in Pins : Get(r) \/ Ack(r) \/ Answer(r)
    PROVE  Env /\ Types'
<1>1. UNCHANGED <<ios, hw, todo, faults>>
  BY DEF Save, Get, Ack, Answer
<1>2. \A p \in Pins : Move(p)
  BY <1>1 DEF Move
<1>3. saved' \in [Pins -> State] /\ asked' \subseteq Measured
  BY DEF Types, Save, Get, Ack, Answer
<1>4. pulse' \in [Pins -> Counter] /\ \A p \in Pins : pulse'[p].edge = pulse[p].edge
  <2> DEFINE Kept == pulse' \in [Pins -> Counter] /\ \A p \in Pins : pulse'[p].edge = pulse[p].edge
  <2>t. \A r \in Pins : /\ pulse[r] \in Counter /\ pulse[r].count \in Nat
                        /\ pulse[r].count - pulse[r].send \in Nat
    <3>1. \A r \in Pins : pulse[r] \in Counter
      BY DEF Types
    <3>2. \A r \in Pins : pulse[r].count \in Nat /\ pulse[r].send \in Nat
      BY <3>1 DEF Counter
    <3>3. \A r \in Pins : pulse[r].send <= pulse[r].count
      BY DEF Bounded
    <3>4. ASSUME NEW r \in Pins PROVE pulse[r].count - pulse[r].send \in Nat
      BY <3>2, <3>3
    <3> QED
      BY <3>1, <3>2, <3>4
  <2>1. CASE UNCHANGED pulse
    BY <2>1 DEF Types
  <2>2. ASSUME NEW r \in Pins, NEW u \in Counter, u.edge = pulse[r].edge,
               pulse' = [pulse EXCEPT ![r] = u]
        PROVE  Kept
    BY <2>2 DEF Types
  <2>3. ASSUME NEW r \in Pins, Get(r) PROVE Kept
    <3> DEFINE u == [pulse[r] EXCEPT !.send = pulse[r].count]
    <3>1. pulse' = [pulse EXCEPT ![r] = u]
      BY <2>3 DEF Get
    <3>2. u \in Counter /\ u.edge = pulse[r].edge
      BY <2>t, CounterOf
    <3> HIDE DEF u
    <3> QED
      BY <2>2, <3>1, <3>2
  <2>4. ASSUME NEW r \in Pins, Ack(r) PROVE Kept
    <3> DEFINE m == pulse[r].count - pulse[r].send
               u == [pulse[r] EXCEPT !.count = m, !.send = 0]
    <3>1. pulse' = [pulse EXCEPT ![r] = u]
      BY <2>4 DEF Ack
    <3>2. m \in Nat /\ 0 \in Nat /\ pulse[r] \in Counter
      BY <2>t
    <3> HIDE DEF m
    <3>3. u \in Counter /\ u.edge = pulse[r].edge
      BY <3>2, CounterOf
    <3> HIDE DEF u
    <3> QED
      BY <2>2, <3>1, <3>3
  <2>5. Save \/ (\E r \in Pins : Answer(r)) => UNCHANGED pulse
    BY DEF Save, Answer
  <2> QED
    BY <2>1, <2>3, <2>4, <2>5
<1> QED
  BY <1>1, <1>2, <1>3, <1>4 DEF Types, Env

LEMMA OneIs ==
    /\ \A b : One(b) \in {0, 1}
    /\ One(TRUE) = 1 /\ One(FALSE) = 0
  BY DEF One

\* The bound of one pin.
Fits(h, u) ==
    /\ u.send <= u.count
    /\ u.count + One(h.pend) + One(h.tim # "off") <= MaxCount + 1

LEMMA Room ==
    /\ \A c, m \in Nat, a, b \in {0, 1} : c < m => c + a + b <= m + 1
    /\ \A c, m \in Nat, a, b, x, y \in {0, 1} :
           c + a + b <= m + 1 /\ x + y <= a + b => c + x + y <= m + 1
    /\ \A c, m \in Nat, a \in {0, 1} :
           c + a + 1 <= m + 1 => c + a + 0 <= m + 1 /\ (c + 1) + a + 0 <= m + 1
    /\ \A c, m, s \in Nat, a, b \in {0, 1} :
           c + a + b <= m + 1 /\ s <= c => (c - s) + a + b <= m + 1 /\ 0 <= c - s
  OBVIOUS

LEMMA NumbersOf ==
    ASSUME Types, Bounded, NEW p \in Pins
    PROVE  /\ pulse[p].count \in Nat /\ pulse[p].send \in Nat
           /\ One(hw[p].pend) \in {0, 1} /\ One(hw[p].tim # "off") \in {0, 1}
           /\ pulse[p].send <= pulse[p].count
           /\ pulse[p].count + One(hw[p].pend) + One(hw[p].tim # "off") <= MaxCount + 1
  BY OneIs DEF Types, Counter, Bounded

LEMMA EdgeFits ==
    ASSUME Types, Bounded, NEW r \in Pins, Edge(r)
    PROVE  Bounded'
<1>1. UNCHANGED pulse /\ pulse[r].count < MaxCount
      /\ \A p \in Pins \ {r} : hw'[p] = hw[p]
  BY DEF Edge, Types
<1>2. Fits(hw[r], pulse[r])'
  <2>1. One(hw'[r].pend) \in {0, 1} /\ One(hw'[r].tim # "off") \in {0, 1}
    BY OneIs
  <2>2. pulse[r].count + One(hw'[r].pend) + One(hw'[r].tim # "off") <= MaxCount + 1
    BY <1>1, <2>1, NumbersOf, PinsAssumption, Room
  <2> QED
    BY <1>1, <2>2, NumbersOf DEF Fits
<1> QED
  BY <1>1, <1>2 DEF Bounded, Fits

\* An interrupt counts what it takes from the EXTI or the timer.
LEMMA IsrFits ==
    ASSUME Types, Bounded, NEW r \in Pins,
           PulseIsr(r) \/ WatchIsr(r) \/ TimerEnds(r) \/ DebounceIsr(r)
    PROVE  Bounded'
<1>1. CASE PulseIsr(r) \/ WatchIsr(r)
  <2> SUFFICES ASSUME NEW p \in Pins PROVE Fits(hw[p], pulse[p])'
    BY DEF Bounded, Fits
  <2>1. UNCHANGED pulse
    BY <1>1 DEF PulseIsr, WatchIsr
  <2>2. hw'[p] = hw[p] \/ (hw[p].pend /\ ~hw'[p].pend /\ (hw'[p].tim = hw[p].tim \/ hw[p].tim = "off"))
    <3>1. CASE PulseIsr(r)
      <4>1. hw'[p] = IF IsPulse(p) /\ hw[p].pend
                     THEN [hw[p] EXCEPT !.pend = FALSE, !.exti = FALSE,
                                        !.tim = IF @ = "off" THEN "running" ELSE @]
                     ELSE hw[p]
        BY <3>1 DEF PulseIsr
      <4>2. hw[p] \in Hardware
        BY DEF Types
      <4> QED
        BY <4>1, <4>2 DEF Hardware
    <3>2. CASE WatchIsr(r)
      <4>1. hw'[p] = hw[p] \/ (hw[p].pend /\ hw'[p] = [hw[p] EXCEPT !.pend = FALSE])
        BY <3>2 DEF WatchIsr
      <4>2. hw[p] \in Hardware
        BY DEF Types
      <4> QED
        BY <4>1, <4>2 DEF Hardware
    <3> QED
      BY <1>1, <3>1, <3>2
  <2>3. One(hw'[p].pend) + One(hw'[p].tim # "off") <= One(hw[p].pend) + One(hw[p].tim # "off")
    BY <2>2 DEF One
  <2>4. /\ One(hw'[p].pend) \in {0, 1} /\ One(hw'[p].tim # "off") \in {0, 1}
    BY OneIs
  <2>5. pulse[p].count + One(hw'[p].pend) + One(hw'[p].tim # "off") <= MaxCount + 1
    BY <2>3, <2>4, NumbersOf, PinsAssumption, Room
  <2> QED
    BY <2>1, <2>5, NumbersOf DEF Fits
<1>2. CASE TimerEnds(r)
  <2>1. UNCHANGED pulse /\ \A p \in Pins : hw'[p].pend = hw[p].pend
        /\ ((hw'[p].tim # "off") = (hw[p].tim # "off"))
    BY <1>2 DEF TimerEnds, Types, Hardware
  <2> QED
    BY <2>1 DEF Bounded
<1>3. CASE DebounceIsr(r)
  <2>1. \A p \in Pins \ {r} : hw'[p] = hw[p] /\ pulse'[p] = pulse[p]
    BY <1>3 DEF DebounceIsr, Types
  <2>2. hw'[r].pend = hw[r].pend /\ hw'[r].tim = "off" /\ hw[r].tim = "due"
    BY <1>3 DEF DebounceIsr, Due, Types, Hardware
  <2>3. pulse'[r].send = pulse[r].send
        /\ (pulse'[r].count = pulse[r].count \/ pulse'[r].count = pulse[r].count + 1)
    BY <1>3 DEF DebounceIsr, Types, Counter
  <2>4. One(hw'[r].tim # "off") = 0 /\ One(hw[r].tim # "off") = 1
    BY <2>2 DEF One
  <2>5. Fits(hw[r], pulse[r])'
    <3>1. pulse'[r].send <= pulse'[r].count
      BY <2>3, NumbersOf
    <3>2. pulse[r].count + One(hw[r].pend) + 1 <= MaxCount + 1
      BY <2>4, NumbersOf
    <3>3. pulse'[r].count + One(hw[r].pend) + 0 <= MaxCount + 1
      BY <2>3, <3>2, NumbersOf, PinsAssumption, Room
    <3> QED
      BY <2>2, <2>4, <3>1, <3>3 DEF Fits
  <2> QED
    BY <2>1, <2>5 DEF Bounded, Fits
<1> QED
  BY <1>1, <1>2, <1>3

LEMMA MeasureFits ==
    ASSUME Types, Bounded,
           Save \/ \E r \in Pins : Get(r) \/ Ack(r) \/ Answer(r)
    PROVE  Bounded'
<1>1. UNCHANGED hw
  BY DEF Save, Get, Ack, Answer
<1>2. ASSUME NEW r \in Pins, Get(r) PROVE Bounded'
  <2>1. /\ \A p \in Pins \ {r} : pulse'[p] = pulse[p]
        /\ pulse'[r].count = pulse[r].count /\ pulse'[r].send = pulse[r].count
    BY <1>2 DEF Get, Types, Counter
  <2>2. Fits(hw[r], pulse[r])'
    BY <1>1, <2>1, NumbersOf DEF Fits
  <2> QED
    BY <1>1, <2>1, <2>2 DEF Bounded, Fits
<1>3. ASSUME NEW r \in Pins, Ack(r) PROVE Bounded'
  <2>1. /\ \A p \in Pins \ {r} : pulse'[p] = pulse[p]
        /\ pulse'[r].count = pulse[r].count - pulse[r].send /\ pulse'[r].send = 0
    BY <1>3 DEF Ack, Types, Counter
  <2>2. Fits(hw[r], pulse[r])'
    <3>1. /\ (pulse[r].count - pulse[r].send) + One(hw[r].pend) + One(hw[r].tim # "off")
                  <= MaxCount + 1
          /\ 0 <= pulse[r].count - pulse[r].send
      BY NumbersOf, PinsAssumption, Room
    <3> QED
      BY <1>1, <2>1, <3>1 DEF Fits
  <2> QED
    BY <1>1, <2>1, <2>2 DEF Bounded, Fits
<1>4. Save \/ (\E r \in Pins : Answer(r)) => UNCHANGED pulse
  BY DEF Save, Answer
<1> QED
  BY <1>1, <1>2, <1>3, <1>4 DEF Bounded

\* Only en_w1, io and a reset leave a pin listening that nobody handles.
LEMMA UnusedOrTaken ==
    ASSUME Types, Stages, NEW p \in Pins \ faults.stale,
           ios[p].special \in {"none", "w1"}, hw[p].exti
    PROVE  ~Idle /\ todo.by \in {"en_w1", "io", "reset"}
<1>1. ~AtRest(p)
  BY DEF AtRest, Rests, Unused
<1>2. ios[p].special \notin Edges /\ ios[p].special # "watch"
  BY PinsAssumption
<1>3. ~Starting(p)
  BY <1>1, <1>2 DEF Starting
<1>4. CASE Loading /\ \A q \in Pins : Ready(q)
  BY <1>4, StartHead DEF Ready, Fresh, Unused, Loading, Idle, ByStart
<1>5. CASE ~Idle /\ \E q \in Pins : InCommand(q) /\ \A r \in Pins \ {q} : AtRest(r)
  <2>1. PICK q \in Pins : ~Idle /\ InCommand(q) /\ \A r \in Pins \ {q} : AtRest(r)
    BY <1>5
  <2>2. q = p
    BY <1>1, <2>1
  <2> QED
    BY <1>1, <1>2, <2>1, <2>2
    DEF InCommand, InEnWatch, InOn, InEnPulse, InDebounce
<1> QED
  BY <1>1, <1>3, <1>4, <1>5 DEF Stages

LEMMA StillMoved ==
    ASSUME Types, Stages, Still, Env, ~Had({"reset"})'
    PROVE  Still'
<1> SUFFICES ASSUME ~Had({"en_w1", "io"})', NEW p \in Pins \ faults.stale,
                    ios[p].special \in {"none", "w1"}, hw'[p].pend
             PROVE  FALSE
  BY DEF Still, Env
<1>1. ~Had({"en_w1", "io"}) /\ todo.by \notin faults'.had \cap {"en_w1", "io", "reset"}
  BY HadGrows DEF Env, Had
<1>2. ~hw[p].pend
  BY <1>1 DEF Still
<1>3. hw[p].exti /\ (Idle \/ todo.by \in faults'.had)
  BY <1>2, PinsAssumption DEF Env, Move
<1> QED
  BY <1>1, <1>3, UnusedOrTaken

-----------------------------------------------------------------------------
(* What one step of main does to its pin.                                  *)

Typed == ios' \in [Pins -> State] /\ hw' \in [Pins -> Hardware] /\ pulse' \in [Pins -> Counter]
Others(p) ==
    \A q \in Pins \ {p} : ios'[q] = ios[q] /\ hw'[q] = hw[q] /\ pulse'[q] = pulse[q]
\* No edge comes and no count grows.
Shrinks(p) ==
    /\ hw'[p].pend = hw[p].pend
    /\ hw'[p].tim = hw[p].tim \/ hw'[p].tim = "off"
    /\ \/ pulse'[p].count = pulse[p].count /\ pulse'[p].send = pulse[p].send
       \/ pulse'[p].count = 0 /\ pulse'[p].send = 0
Effect(p) == Typed /\ Others(p) /\ Shrinks(p)

LEMMA EffectOf ==
    ASSUME Types, NEW p \in Pins, NEW i \in State, NEW h \in Hardware, NEW u \in Counter,
           ios' = [ios EXCEPT ![p] = i], hw' = [hw EXCEPT ![p] = h],
           pulse' = [pulse EXCEPT ![p] = u],
           h.pend = hw[p].pend, h.tim = hw[p].tim \/ h.tim = "off",
           (u.count = pulse[p].count /\ u.send = pulse[p].send) \/ (u.count = 0 /\ u.send = 0)
    PROVE  Effect(p) /\ ios'[p] = i /\ hw'[p] = h /\ pulse'[p] = u
<1>1. Typed /\ Others(p)
  BY DEF Types, Typed, Others
<1>2. ios'[p] = i /\ hw'[p] = h /\ pulse'[p] = u
  BY DEF Types
<1> QED
  BY <1>1, <1>2 DEF Effect, Shrinks

LEMMA Same ==
    ASSUME Types, NEW p \in Pins
    PROVE  /\ ios[p] \in State /\ hw[p] \in Hardware /\ pulse[p] \in Counter
           /\ ios = [ios EXCEPT ![p] = ios[p]] /\ hw = [hw EXCEPT ![p] = hw[p]]
           /\ pulse = [pulse EXCEPT ![p] = pulse[p]]
  BY DEF Types

LEMMA UseOf ==
    ASSUME Types, NEW p \in Pins, NEW i \in State,
           ios' = [ios EXCEPT ![p] = i], UNCHANGED <<hw, pulse>>
    PROVE  Effect(p) /\ ios'[p] = i /\ hw'[p] = hw[p] /\ pulse'[p] = pulse[p]
<1>1. Typed /\ Others(p) /\ ios'[p] = i
  BY DEF Types, Typed, Others
<1> QED
  BY <1>1 DEF Effect, Shrinks

LEMMA HwOf ==
    ASSUME Types, NEW p \in Pins, NEW h \in Hardware,
           hw' = [hw EXCEPT ![p] = h], UNCHANGED <<ios, pulse>>,
           h.pend = hw[p].pend, h.tim = hw[p].tim \/ h.tim = "off"
    PROVE  Effect(p) /\ ios'[p] = ios[p] /\ hw'[p] = h /\ pulse'[p] = pulse[p]
<1>1. Typed /\ Others(p) /\ hw'[p] = h
  BY DEF Types, Typed, Others
<1> QED
  BY <1>1 DEF Effect, Shrinks

LEMMA NoEffect ==
    ASSUME Types, NEW p \in Pins, UNCHANGED <<ios, hw, pulse>>
    PROVE  Effect(p) /\ ios'[p] = ios[p] /\ hw'[p] = hw[p] /\ pulse'[p] = pulse[p]
  BY DEF Types, Typed, Others, Effect, Shrinks

LEMMA DoSpecial ==
    ASSUME Types, NEW p \in Pins, NEW s \in Specials, NEW b \in BOOLEAN, SetSpecial(p, s, b)
    PROVE  Effect(p) /\ ios'[p].special = s /\ hw'[p] = hw[p] /\ pulse'[p] = pulse[p]
<1> DEFINE i == [special |-> s, input |-> FALSE, on |-> FALSE, pull |-> b]
<1>1. i \in State /\ i.special = s
  BY DEF State
<1>2. ios' = [ios EXCEPT ![p] = i] /\ UNCHANGED <<hw, pulse>>
  BY DEF SetSpecial
<1> HIDE DEF i
<1> QED
  BY <1>1, <1>2, UseOf

LEMMA DoClear ==
    ASSUME Types, NEW p \in Pins, ClearSpecial(p)
    PROVE  Effect(p) /\ ios'[p].special = "none" /\ hw'[p] = hw[p] /\ pulse'[p] = pulse[p]
<1> DEFINE i == [ios[p] EXCEPT !.special = "none"]
<1>1. i \in State /\ i.special = "none"
  BY Same DEF State, Specials
<1>2. ios' = [ios EXCEPT ![p] = i] /\ UNCHANGED <<hw, pulse>>
  BY DEF ClearSpecial
<1> HIDE DEF i
<1> QED
  BY <1>1, <1>2, UseOf

LEMMA DoGpio ==
    ASSUME Types, NEW p \in Pins, NEW g \in State, SetupGpio(p, g)
    PROVE  /\ Effect(p) /\ ios'[p] = g /\ pulse'[p] = pulse[p]
           /\ Unused(hw[p]) => Unused(hw[p])'
           /\ Loose(hw[p]) => Loose(hw[p])'
<1> DEFINE h == [hw[p] EXCEPT !.input = g.input]
<1>1. g.input \in BOOLEAN
  BY DEF State
<1>2. h \in Hardware
  BY <1>1, Same, Registers
<1>3. /\ h.pend = hw[p].pend /\ h.tim = hw[p].tim
      /\ Unused(hw[p]) => Unused(h)
      /\ Loose(hw[p]) => Loose(h)
  BY Same DEF Hardware, Unused, Loose
<1>4. ios' = [ios EXCEPT ![p] = g] /\ hw' = [hw EXCEPT ![p] = h] /\ UNCHANGED pulse
  BY DEF SetupGpio
<1> HIDE DEF h
<1>5. Effect(p) /\ ios'[p] = g /\ hw'[p] = h /\ pulse'[p] = pulse[p]
  BY <1>2, <1>3, <1>4, EffectOf, Same
<1> QED
  BY <1>3, <1>5 DEF Unused, Loose

LEMMA DoOn ==
    ASSUME Types, NEW p \in Pins, NEW b \in BOOLEAN, IoOn(p, b)
    PROVE  Effect(p) /\ ios'[p].special = ios[p].special /\ hw'[p] = hw[p] /\ pulse'[p] = pulse[p]
<1> DEFINE i == IF ios[p].input THEN ios[p] ELSE [ios[p] EXCEPT !.on = b]
<1>1. i \in State /\ i.special = ios[p].special
  BY Same DEF State
<1>2. ios' = [ios EXCEPT ![p] = i] /\ UNCHANGED <<hw, pulse>>
  BY Same DEF IoOn
<1> HIDE DEF i
<1> QED
  BY <1>1, <1>2, UseOf

\* A pin that does not count has its timer stopped and its EXTI masked.
LEMMA DoTimerOff ==
    ASSUME Types, NEW p \in Pins, TimerOff(p), Quiet
    PROVE  /\ Effect(p) /\ ios'[p] = ios[p] /\ pulse'[p] = pulse[p]
           /\ ios[p].special \in Edges => hw'[p] = hw[p]
           /\ ios[p].special \notin Edges /\ Loose(hw[p]) => Stilled(hw[p])'
<1>1. CASE ios[p].special \in Edges
  <2>1. UNCHANGED <<ios, hw, pulse>>
    BY <1>1 DEF TimerOff, IsPulse
  <2> QED
    BY <1>1, <2>1, NoEffect
<1>2. CASE ios[p].special \notin Edges
  <2> DEFINE t == IF hw[p].tim = "running" THEN "off" ELSE hw[p].tim
             h == [hw[p] EXCEPT !.timIrq = FALSE, !.tim = t]
  <2>1. hw' = [hw EXCEPT ![p] = h] /\ UNCHANGED <<ios, pulse>>
    BY <1>2 DEF TimerOff, IsPulse
  <2>2. t \in {"off", "running", "due"} /\ (t = hw[p].tim \/ t = "off")
    BY Same DEF Hardware
  <2>3. hw[p].tim = "due" => ~hw[p].timIrq
    BY DEF Quiet, Due
  <2>4. Loose(hw[p]) => t = "off"
    BY <2>3, Same DEF Loose, Hardware
  <2> HIDE DEF t
  <2>5. h \in Hardware /\ h.pend = hw[p].pend /\ h.tim = t /\ h.exti = hw[p].exti /\ h.nvic = hw[p].nvic
    <3>1. h \in Hardware
      BY <2>2, Same, Registers
    <3> QED
      BY <3>1, Same DEF Hardware
  <2> HIDE DEF h
  <2>6. Effect(p) /\ ios'[p] = ios[p] /\ hw'[p] = h /\ pulse'[p] = pulse[p]
    BY <2>1, <2>2, <2>5, HwOf
  <2> QED
    BY <1>2, <2>4, <2>5, <2>6 DEF Loose, Stilled, Unused
<1> QED
  BY <1>1, <1>2

LEMMA QuietPin ==
    ASSUME Quiet, NEW p \in Pins
    PROVE  hw[p].exti /\ hw[p].nvic => ~hw[p].pend
  BY DEF Quiet, Raised

LEMMA DoPulseOff ==
    ASSUME Types, NEW p \in Pins, PulseOff(p), Quiet
    PROVE  /\ Effect(p) /\ ios'[p] = ios[p] /\ pulse'[p].edge = pulse[p].edge
           /\ ios[p].special \in Edges => hw'[p] = hw[p]
           /\ ios[p].special \notin Edges /\ Stilled(hw[p]) => Unused(hw[p])'
<1>1. CASE ios[p].special \in Edges
  <2>1. UNCHANGED <<ios, hw, pulse>>
    BY <1>1 DEF PulseOff, IsPulse
  <2> QED
    BY <1>1, <2>1, NoEffect
<1>2. CASE ios[p].special \notin Edges
  <2> DEFINE h == [hw[p] EXCEPT !.exti = FALSE, !.nvic = FALSE]
             u == [pulse[p] EXCEPT !.count = 0, !.send = 0]
  <2>1. hw' = [hw EXCEPT ![p] = h] /\ pulse' = [pulse EXCEPT ![p] = u] /\ UNCHANGED ios
    BY <1>2 DEF PulseOff, IsPulse
  <2>2. h \in Hardware /\ h.pend = hw[p].pend /\ h.tim = hw[p].tim /\ ~h.exti /\ ~h.nvic
    <3>1. h \in Hardware
      BY Same, Registers
    <3> QED
      BY <3>1, Same DEF Hardware
  <2>3. u \in Counter /\ u.edge = pulse[p].edge /\ u.count = 0 /\ u.send = 0
    BY Same, CounterOf DEF Counter
  <2> HIDE DEF h, u
  <2>i. ios' = [ios EXCEPT ![p] = ios[p]] /\ ios[p] \in State
    BY <2>1, Same
  <2>4. Effect(p) /\ ios'[p] = ios[p] /\ hw'[p] = h /\ pulse'[p] = u
    BY <2>1, <2>2, <2>3, <2>i, EffectOf
  <2>5. Stilled(hw[p]) => ~hw[p].pend /\ hw[p].tim = "off"
    BY QuietPin DEF Stilled, Unused
  <2> QED
    BY <1>2, <2>2, <2>3, <2>4, <2>5 DEF Unused
<1> QED
  BY <1>1, <1>2

LEMMA DoWatchOff ==
    ASSUME Types, NEW p \in Pins, WatchOff(p), Quiet
    PROVE  /\ Effect(p) /\ ios'[p] = ios[p] /\ pulse'[p] = pulse[p]
           /\ Unused(hw[p]) => Unused(hw[p])'
           /\ Open(hw[p]) => ~hw'[p].pend /\ ~hw'[p].nvic
<1> DEFINE h == [hw[p] EXCEPT !.exti = FALSE, !.nvic = FALSE]
<1>1. hw' = [hw EXCEPT ![p] = h] /\ UNCHANGED <<ios, pulse>>
  BY DEF WatchOff
<1>2. h \in Hardware /\ h.pend = hw[p].pend /\ h.tim = hw[p].tim /\ ~h.exti /\ ~h.nvic
  <2>1. h \in Hardware
    BY Same, Registers
  <2> QED
    BY <2>1, Same DEF Hardware
<1> HIDE DEF h
<1>3. Effect(p) /\ ios'[p] = ios[p] /\ hw'[p] = h /\ pulse'[p] = pulse[p]
  BY <1>1, <1>2, HwOf
<1>4. Open(hw[p]) => ~hw[p].pend
  BY QuietPin DEF Open, Unused
<1> QED
  BY <1>2, <1>3, <1>4 DEF Unused

LEMMA DoWatchOn ==
    ASSUME Types, NEW p \in Pins, WatchOn(p)
    PROVE  /\ Effect(p) /\ ios'[p] = ios[p] /\ pulse'[p] = pulse[p]
           /\ hw[p].tim = "off" => Watched(hw'[p], FALSE)
           /\ (hw[p].tim # "off" => hw[p].timIrq) => Watched(hw'[p], TRUE)
<1> DEFINE h == [hw[p] EXCEPT !.input = TRUE, !.trig = "both", !.exti = TRUE, !.nvic = TRUE]
<1>1. hw' = [hw EXCEPT ![p] = h] /\ UNCHANGED <<ios, pulse>>
  BY DEF WatchOn
<1>2. /\ h \in Hardware /\ h.pend = hw[p].pend /\ h.tim = hw[p].tim
      /\ h.timIrq = hw[p].timIrq
      /\ h.input /\ h.trig = "both" /\ h.exti /\ h.nvic
  <2>1. h \in Hardware
    BY Same, Registers
  <2> QED
    BY <2>1, Same DEF Hardware
<1> HIDE DEF h
<1>3. Effect(p) /\ ios'[p] = ios[p] /\ hw'[p] = h /\ pulse'[p] = pulse[p]
  BY <1>1, <1>2, HwOf
<1> QED
  BY <1>2, <1>3 DEF Watched

LEMMA DoPulseEdge ==
    ASSUME Types, NEW p \in Pins, NEW e \in Kinds, PulseEdge(p, e)
    PROVE  /\ Effect(p) /\ ios'[p] = ios[p]
           /\ ios[p].special \notin Edges => hw'[p] = hw[p]
           /\ ios[p].special \in Edges =>
                  /\ hw'[p].input /\ hw'[p].trig = e /\ hw'[p].exti /\ pulse'[p].edge = e
                  /\ hw'[p].nvic = hw[p].nvic /\ hw'[p].timIrq = hw[p].timIrq
                  /\ hw'[p].pend = hw[p].pend /\ hw'[p].tim = hw[p].tim
<1>1. CASE ios[p].special \in Edges
  <2> DEFINE h == [hw[p] EXCEPT !.input = TRUE, !.trig = e, !.exti = TRUE]
             u == [edge |-> e, count |-> 0, send |-> 0]
  <2>1. hw' = [hw EXCEPT ![p] = h] /\ pulse' = [pulse EXCEPT ![p] = u] /\ UNCHANGED ios
    BY <1>1 DEF PulseEdge, IsPulse
  <2>2. u \in Counter /\ u.edge = e /\ u.count = 0 /\ u.send = 0
    BY DEF Counter
  <2>3. /\ h.input /\ h.trig = e /\ h.exti /\ h.pend = hw[p].pend /\ h.tim = hw[p].tim
        /\ h.nvic = hw[p].nvic /\ h.timIrq = hw[p].timIrq
    BY Same DEF Hardware
  <2>4. h \in Hardware
    BY Same, Registers
  <2> HIDE DEF h, u
  <2>5. ios' = [ios EXCEPT ![p] = ios[p]] /\ ios[p] \in State
    BY <2>1, Same
  <2>6. Effect(p) /\ ios'[p] = ios[p] /\ hw'[p] = h /\ pulse'[p] = u
    BY <2>1, <2>2, <2>3, <2>4, <2>5, EffectOf
  <2> QED
    BY <1>1, <2>2, <2>3, <2>6
<1>2. CASE ios[p].special \notin Edges
  <2> DEFINE u == [pulse[p] EXCEPT !.edge = e]
  <2>1. UNCHANGED <<ios, hw>> /\ pulse' = [pulse EXCEPT ![p] = u]
    BY <1>2 DEF PulseEdge, IsPulse
  <2>2. u \in Counter /\ u.count = pulse[p].count /\ u.send = pulse[p].send
    BY Same, CounterOf DEF Counter
  <2> HIDE DEF u
  <2>3. hw' = [hw EXCEPT ![p] = hw[p]] /\ ios' = [ios EXCEPT ![p] = ios[p]]
    BY <2>1, Same
  <2>4. Effect(p) /\ ios'[p] = ios[p] /\ hw'[p] = hw[p]
    BY <2>1, <2>2, <2>3, EffectOf, Same
  <2> QED
    BY <1>2, <2>4
<1> QED
  BY <1>1, <1>2

LEMMA DoPulseOn ==
    ASSUME Types, NEW p \in Pins, PulseOn(p)
    PROVE  /\ Effect(p) /\ ios'[p] = ios[p] /\ pulse'[p] = pulse[p]
           /\ ios[p].special \notin Edges => hw'[p] = hw[p]
           /\ ios[p].special \in Edges =>
                  /\ hw'[p].tim = "off" /\ hw'[p].timIrq /\ hw'[p].nvic
                  /\ hw'[p].exti = hw[p].exti /\ hw'[p].input = hw[p].input
                  /\ hw'[p].trig = hw[p].trig /\ hw'[p].pend = hw[p].pend
<1>1. CASE ios[p].special \in Edges
  <2> DEFINE h == [hw[p] EXCEPT !.tim = "off", !.timIrq = TRUE, !.nvic = TRUE]
  <2>1. hw' = [hw EXCEPT ![p] = h] /\ UNCHANGED <<ios, pulse>>
    BY <1>1 DEF PulseOn, IsPulse
  <2>2. /\ h \in Hardware /\ h.tim = "off" /\ h.timIrq /\ h.nvic
        /\ h.exti = hw[p].exti /\ h.input = hw[p].input
        /\ h.trig = hw[p].trig /\ h.pend = hw[p].pend
    <3>1. h \in Hardware
      BY Same, Registers
    <3> QED
      BY <3>1, Same DEF Hardware
  <2> HIDE DEF h
  <2>3. Effect(p) /\ ios'[p] = ios[p] /\ hw'[p] = h /\ pulse'[p] = pulse[p]
    BY <2>1, <2>2, HwOf
  <2> QED
    BY <1>1, <2>2, <2>3
<1>2. CASE ios[p].special \notin Edges
  <2>1. UNCHANGED <<ios, hw, pulse>>
    BY <1>2 DEF PulseOn, IsPulse
  <2> QED
    BY <1>2, <2>1, NoEffect
<1> QED
  BY <1>1, <1>2

LEMMA Tuples ==
    ASSUME NEW a, NEW b, NEW c, NEW d
    PROVE  /\ Head(<<a, b, c, d>>) = a /\ Tail(<<a, b, c, d>>) = <<b, c, d>>
           /\ Head(<<a, b, c>>) = a /\ Tail(<<a, b, c>>) = <<b, c>>
           /\ Head(<<a, b>>) = a /\ Tail(<<a, b>>) = <<b>>
           /\ Head(<<a>>) = a /\ Tail(<<a>>) = <<>>
           /\ <<b, c, d>> # <<>> /\ <<b, c>> # <<>> /\ <<b>> # <<>>
  OBVIOUS

\* A step of main, by the entry a that is its next and the rest r.
Next_(a, r) == Head(todo.steps) = a /\ Tail(todo.steps) = r
Popped(r) ==
    /\ todo'.steps = r /\ todo'.by = todo.by
    /\ UNCHANGED <<saved, asked, faults>>

LEMMA NextIs ==
    ASSUME NEW a, NEW b, NEW c, NEW d
    PROVE  /\ todo.steps = <<a, b, c, d>> => Next_(a, <<b, c, d>>)
           /\ todo.steps = <<a, b, c>> => Next_(a, <<b, c>>)
           /\ todo.steps = <<a, b>> => Next_(a, <<b>>)
           /\ todo.steps = <<a>> => Next_(a, <<>>)
<1>1. todo.steps = <<a, b, c, d>> => Next_(a, <<b, c, d>>)
  BY DEF Next_
<1>2. todo.steps = <<a, b, c>> => Next_(a, <<b, c>>)
  BY DEF Next_
<1>3. todo.steps = <<a, b>> => Next_(a, <<b>>)
  BY DEF Next_
<1>4. todo.steps = <<a>> => Next_(a, <<>>)
  BY DEF Next_
<1> QED
  BY <1>1, <1>2, <1>3, <1>4

LEMMA Does ==
    ASSUME Types, MainStep, NEW a, NEW r, Next_(a, r)
    PROVE  Do(a) /\ Quiet /\ (a.op \notin {"init", "load"} => Popped(r))
<1>1. Do(a) /\ todo' = [todo EXCEPT !.steps = After(@)]
      /\ UNCHANGED <<saved, asked, faults>> /\ Quiet
  BY DEF MainStep, Next_
<1>2. a.op \notin {"init", "load"} => After(todo.steps) = r
  BY DEF After, Next_
<1>3. todo'.steps = After(todo.steps) /\ todo'.by = todo.by
  BY <1>1 DEF Types
<1> QED
  BY <1>1, <1>2, <1>3 DEF Popped

LEMMA UsesNext ==
    ASSUME Types, MainStep, NEW p, NEW use, NEW pull, NEW r, Next_(Uses(p, use, pull), r)
    PROVE  SetSpecial(p, use, pull) /\ Popped(r)
<1> DEFINE a == Uses(p, use, pull)
<1>1. a.op \notin {"init", "load"}
  BY DEF Uses, Step
<1> HIDE DEF a
<1>2. Next_(a, r)
  BY DEF a
<1>3. Do(a) /\ Popped(r)
  BY <1>1, <1>2, Does
<1>4. SetSpecial(p, use, pull)
  BY <1>3 DEF a, Do, Uses, Step, As, Zero, SetSpecial
<1> QED
  BY <1>3, <1>4

LEMMA ClearsNext ==
    ASSUME Types, MainStep, NEW p, NEW r, Next_(Clears(p), r)
    PROVE  ClearSpecial(p) /\ Popped(r)
<1> DEFINE a == Clears(p)
<1>1. a.op \notin {"init", "load"}
  BY DEF Clears, Step
<1> HIDE DEF a
<1>2. Next_(a, r)
  BY DEF a
<1>3. Do(a) /\ Popped(r)
  BY <1>1, <1>2, Does
<1>4. ClearSpecial(p)
  BY <1>3 DEF a, Do, Clears, Step, ClearSpecial
<1> QED
  BY <1>3, <1>4

LEMMA SetsGpioNext ==
    ASSUME Types, MainStep, NEW p, NEW g, NEW r, Next_(SetsGpio(p, g), r)
    PROVE  SetupGpio(p, g) /\ Popped(r)
<1> DEFINE a == SetsGpio(p, g)
<1>1. a.op \notin {"init", "load"}
  BY DEF SetsGpio, Step
<1> HIDE DEF a
<1>2. Next_(a, r)
  BY DEF a
<1>3. Do(a) /\ Popped(r)
  BY <1>1, <1>2, Does
<1>4. SetupGpio(p, g)
  BY <1>3 DEF a, Do, SetsGpio, Step, SetupGpio
<1> QED
  BY <1>3, <1>4

LEMMA SetsNext ==
    ASSUME Types, MainStep, NEW p, NEW g, NEW r, Next_(Sets(p, g), r)
    PROVE  IoOn(p, g.on) /\ Popped(r)
<1> DEFINE a == Sets(p, g)
<1>1. a.op \notin {"init", "load"}
  BY DEF Sets, Step
<1> HIDE DEF a
<1>2. Next_(a, r)
  BY DEF a
<1>3. Do(a) /\ Popped(r)
  BY <1>1, <1>2, Does
<1>4. IoOn(p, g.on)
  BY <1>3 DEF a, Do, Sets, Step, IoOn
<1> QED
  BY <1>3, <1>4

LEMMA StopsTimerNext ==
    ASSUME Types, MainStep, NEW p, NEW r, Next_(StopsTimer(p), r)
    PROVE  TimerOff(p) /\ Popped(r)
<1> DEFINE a == StopsTimer(p)
<1>1. a.op \notin {"init", "load"}
  BY DEF StopsTimer, Step
<1> HIDE DEF a
<1>2. Next_(a, r)
  BY DEF a
<1>3. Do(a) /\ Popped(r)
  BY <1>1, <1>2, Does
<1>4. TimerOff(p)
  BY <1>3 DEF a, Do, StopsTimer, Step, TimerOff
<1> QED
  BY <1>3, <1>4

LEMMA StopsPulseNext ==
    ASSUME Types, MainStep, NEW p, NEW r, Next_(StopsPulse(p), r)
    PROVE  PulseOff(p) /\ Popped(r)
<1> DEFINE a == StopsPulse(p)
<1>1. a.op \notin {"init", "load"}
  BY DEF StopsPulse, Step
<1> HIDE DEF a
<1>2. Next_(a, r)
  BY DEF a
<1>3. Do(a) /\ Popped(r)
  BY <1>1, <1>2, Does
<1>4. PulseOff(p)
  BY <1>3 DEF a, Do, StopsPulse, Step, PulseOff
<1> QED
  BY <1>3, <1>4

LEMMA StopsWatchNext ==
    ASSUME Types, MainStep, NEW p, NEW r, Next_(StopsWatch(p), r)
    PROVE  WatchOff(p) /\ Popped(r)
<1> DEFINE a == StopsWatch(p)
<1>1. a.op \notin {"init", "load"}
  BY DEF StopsWatch, Step
<1> HIDE DEF a
<1>2. Next_(a, r)
  BY DEF a
<1>3. Do(a) /\ Popped(r)
  BY <1>1, <1>2, Does
<1>4. WatchOff(p)
  BY <1>3 DEF a, Do, StopsWatch, Step, WatchOff
<1> QED
  BY <1>3, <1>4

LEMMA SetsEdgeNext ==
    ASSUME Types, MainStep, NEW p, NEW edge, NEW r, Next_(SetsEdge(p, edge), r)
    PROVE  PulseEdge(p, edge) /\ Popped(r)
<1> DEFINE a == SetsEdge(p, edge)
<1>1. a.op \notin {"init", "load"}
  BY DEF SetsEdge, Step
<1> HIDE DEF a
<1>2. Next_(a, r)
  BY DEF a
<1>3. Do(a) /\ Popped(r)
  BY <1>1, <1>2, Does
<1>4. PulseEdge(p, edge)
  BY <1>3 DEF a, Do, SetsEdge, Step, As, Zero, PulseEdge
<1> QED
  BY <1>3, <1>4

LEMMA StartsPulseNext ==
    ASSUME Types, MainStep, NEW p, NEW r, Next_(StartsPulse(p), r)
    PROVE  PulseOn(p) /\ Popped(r)
<1> DEFINE a == StartsPulse(p)
<1>1. a.op \notin {"init", "load"}
  BY DEF StartsPulse, Step
<1> HIDE DEF a
<1>2. Next_(a, r)
  BY DEF a
<1>3. Do(a) /\ Popped(r)
  BY <1>1, <1>2, Does
<1>4. PulseOn(p)
  BY <1>3 DEF a, Do, StartsPulse, Step, PulseOn
<1> QED
  BY <1>3, <1>4

LEMMA StartsWatchNext ==
    ASSUME Types, MainStep, NEW p, NEW r, Next_(StartsWatch(p), r)
    PROVE  WatchOn(p) /\ Popped(r)
<1> DEFINE a == StartsWatch(p)
<1>1. a.op \notin {"init", "load"}
  BY DEF StartsWatch, Step
<1> HIDE DEF a
<1>2. Next_(a, r)
  BY DEF a
<1>3. Do(a) /\ Popped(r)
  BY <1>1, <1>2, Does
<1>4. WatchOn(p)
  BY <1>3 DEF a, Do, StartsWatch, Step, WatchOn
<1> QED
  BY <1>3, <1>4

LEMMA RestIs ==
    ASSUME Types, NEW p \in Pins, AtRest(p), Quiet
    PROVE  Loose(hw[p]) /\ Open(hw[p]) /\ ~hw[p].pend
<1>1. ios[p].special \in Specials /\ hw[p] \in Hardware
  BY DEF Types, State
<1>2. hw[p].exti /\ hw[p].nvic => ~hw[p].pend
  BY QuietPin
<1> QED
  <2>1. CASE ios[p].special \in Edges
    BY <1>1, <1>2, <2>1 DEF AtRest, Rests, Counted, Unused, Loose, Open, Hardware
  <2>2. CASE ios[p].special = "watch"
    BY <1>1, <1>2, <2>2 DEF AtRest, Rests, Watched, Unused, Loose, Open, Hardware
  <2>3. CASE ios[p].special \in {"none", "w1"}
    BY <1>1, <1>2, <2>3 DEF AtRest, Rests, Unused, Loose, Open, Hardware
  <2> QED
    BY <1>1, <2>1, <2>2, <2>3 DEF Specials

LEMMA UnusedRests ==
    ASSUME NEW h, NEW pu, NEW sp, NEW st, sp \in {"none", "w1"}, Unused(h)
    PROVE  Rests(h, sp, pu, st) /\ Listens(h, sp)
  BY PinsAssumption DEF Rests, Listens, Unused, Loose

LEMMA WatchedRests ==
    ASSUME NEW h, NEW pu, NEW st, Watched(h, FALSE) \/ (st /\ Watched(h, TRUE))
    PROVE  Rests(h, "watch", pu, st) /\ Listens(h, "watch")
  BY PinsAssumption DEF Rests, Listens, Watched

LEMMA CountedRests ==
    ASSUME NEW h, NEW pu, NEW sp \in Edges, h.pend => h.exti, Counted(h, sp, pu)
    PROVE  \A st : Rests(h, sp, pu, st)
  BY PinsAssumption DEF Rests

LEMMA SameDeafened ==
    ASSUME UNCHANGED faults
    PROVE  (Deafened' <=> Deafened) /\ \A fs : Had(fs)' <=> Had(fs)
  BY DEF Deafened, Had

Good(p) ==
    /\ Effect(p)
    /\ ios'[p].special \in Edges => ios[p].special \in Edges \/ p \in Counters
    /\ ios'[p].special \in {"none", "w1"} => ios[p].special \in {"none", "w1"} \/ ~hw[p].pend
Onward(p) ==
    /\ todo'.by = todo.by
    /\ (todo'.steps = <<>> /\ AtRest(p)') \/ (todo'.steps # <<>> /\ InCommand(p)')

LEMMA EnW1Step ==
    ASSUME Types, MainStep, NEW p \in Pins, todo.by = "en_w1", InEnW1(p, todo.steps)
    PROVE  Good(p) /\ Onward(p)
<1>e. "w1" \in Specials \ Edges /\ Quiet
  BY PinsAssumption DEF Specials, MainStep
<1> DEFINE to == StopsTimer(p)
           po == StopsPulse(p)
           wo == StopsWatch(p)
<1>0. ASSUME todo'.steps # <<>>, todo'.by = todo.by, InEnW1(p, todo.steps)' PROVE Onward(p)
  BY <1>0 DEF Onward, InCommand
<1>1. ASSUME NEW pull \in BOOLEAN, todo.steps = <<Uses(p, "w1", pull), to, po, wo>>, AtRest(p)
      PROVE  Good(p) /\ Onward(p)
  <2>1. SetSpecial(p, "w1", pull) /\ Popped(<<to, po, wo>>)
    BY <1>1, NextIs, UsesNext
  <2>2. Effect(p) /\ ios'[p].special = "w1" /\ hw'[p] = hw[p]
    BY <1>e, <2>1, DoSpecial
  <2>3. Loose(hw[p])' /\ ~hw[p].pend
    BY <1>1, <1>e, <2>2, RestIs DEF Loose, Unused
  <2>4. InEnW1(p, todo.steps)' /\ todo'.steps # <<>>
    BY <2>1, <2>2, <2>3, Tuples DEF InEnW1, Popped
  <2>5. Good(p)
    BY <1>e, <2>2, <2>3 DEF Good
  <2> QED
    BY <1>0, <2>1, <2>4, <2>5 DEF Popped
<1>2. ASSUME ios[p].special = "w1", todo.steps = <<to, po, wo>>, Loose(hw[p])
      PROVE  Good(p) /\ Onward(p)
  <2>1. TimerOff(p) /\ Popped(<<po, wo>>)
    BY <1>2, NextIs, StopsTimerNext
  <2>2. Effect(p) /\ ios'[p] = ios[p] /\ Stilled(hw[p])'
    BY <1>e, <1>2, <2>1, DoTimerOff
  <2>3. InEnW1(p, todo.steps)' /\ todo'.steps # <<>>
    BY <1>2, <2>1, <2>2, Tuples DEF InEnW1, Popped
  <2>4. Good(p)
    BY <2>2 DEF Good
  <2> QED
    BY <1>0, <2>1, <2>3, <2>4 DEF Popped
<1>3. ASSUME ios[p].special = "w1", todo.steps = <<po, wo>>, Stilled(hw[p])
      PROVE  Good(p) /\ Onward(p)
  <2>1. PulseOff(p) /\ Popped(<<wo>>)
    BY <1>3, NextIs, StopsPulseNext
  <2>2. Effect(p) /\ ios'[p] = ios[p] /\ Unused(hw[p])'
    BY <1>e, <1>3, <2>1, DoPulseOff
  <2>3. InEnW1(p, todo.steps)' /\ todo'.steps # <<>>
    BY <1>3, <2>1, <2>2, Tuples DEF InEnW1, Popped
  <2>4. Good(p)
    BY <2>2 DEF Good
  <2> QED
    BY <1>0, <2>1, <2>3, <2>4 DEF Popped
<1>4. ASSUME ios[p].special = "w1", todo.steps = <<wo>>, Unused(hw[p])
      PROVE  Good(p) /\ Onward(p)
  <2>1. WatchOff(p) /\ Popped(<<>>)
    BY <1>4, NextIs, StopsWatchNext
  <2>2. Effect(p) /\ ios'[p] = ios[p] /\ Unused(hw[p])'
    BY <1>e, <1>4, <2>1, DoWatchOff
  <2>3. AtRest(p)'
    BY <1>4, <2>2, UnusedRests DEF AtRest
  <2>4. Good(p)
    BY <2>2 DEF Good
  <2> QED
    BY <2>1, <2>3, <2>4 DEF Popped, Onward
<1> QED
  BY <1>1, <1>2, <1>3, <1>4 DEF InEnW1

LEMMA EnWatchStep ==
    ASSUME Types, MainStep, NEW p \in Pins, todo.by = "en_watch", InEnWatch(p, todo.steps)
    PROVE  Good(p) /\ Onward(p)
<1>e. "watch" \in Specials \ Edges /\ Quiet
  BY PinsAssumption DEF Specials, MainStep
<1> DEFINE to == StopsTimer(p)
           po == StopsPulse(p)
           wn == StartsWatch(p)
<1>0. ASSUME todo'.steps # <<>>, todo'.by = todo.by, InEnWatch(p, todo.steps)' PROVE Onward(p)
  BY <1>0 DEF Onward, InCommand
<1>1. ASSUME todo.steps = <<Uses(p, "watch", FALSE), to, po, wn>>, AtRest(p)
      PROVE  Good(p) /\ Onward(p)
  <2>1. SetSpecial(p, "watch", FALSE) /\ Popped(<<to, po, wn>>)
    BY <1>1, NextIs, UsesNext
  <2>2. Effect(p) /\ ios'[p].special = "watch" /\ hw'[p] = hw[p]
    BY <1>e, <2>1, DoSpecial
  <2>3. Loose(hw[p])'
    BY <1>1, <1>e, <2>2, RestIs DEF Loose, Unused
  <2>4. InEnWatch(p, todo.steps)' /\ todo'.steps # <<>>
    BY <2>1, <2>2, <2>3, Tuples DEF InEnWatch, Popped
  <2>5. Good(p)
    BY <1>e, <2>2 DEF Good
  <2> QED
    BY <1>0, <2>1, <2>4, <2>5 DEF Popped
<1>2. ASSUME ios[p].special = "watch", todo.steps = <<to, po, wn>>, Loose(hw[p])
      PROVE  Good(p) /\ Onward(p)
  <2>1. TimerOff(p) /\ Popped(<<po, wn>>)
    BY <1>2, NextIs, StopsTimerNext
  <2>2. Effect(p) /\ ios'[p] = ios[p] /\ Stilled(hw[p])'
    BY <1>e, <1>2, <2>1, DoTimerOff
  <2>3. InEnWatch(p, todo.steps)' /\ todo'.steps # <<>>
    BY <1>2, <2>1, <2>2, Tuples DEF InEnWatch, Popped
  <2>4. Good(p)
    BY <2>2 DEF Good
  <2> QED
    BY <1>0, <2>1, <2>3, <2>4 DEF Popped
<1>3. ASSUME ios[p].special = "watch", todo.steps = <<po, wn>>, Stilled(hw[p])
      PROVE  Good(p) /\ Onward(p)
  <2>1. PulseOff(p) /\ Popped(<<wn>>)
    BY <1>3, NextIs, StopsPulseNext
  <2>2. Effect(p) /\ ios'[p] = ios[p] /\ Unused(hw[p])'
    BY <1>e, <1>3, <2>1, DoPulseOff
  <2>3. InEnWatch(p, todo.steps)' /\ todo'.steps # <<>>
    BY <1>3, <2>1, <2>2, Tuples DEF InEnWatch, Popped
  <2>4. Good(p)
    BY <2>2 DEF Good
  <2> QED
    BY <1>0, <2>1, <2>3, <2>4 DEF Popped
<1>4. ASSUME ios[p].special = "watch", todo.steps = <<wn>>, Unused(hw[p])
      PROVE  Good(p) /\ Onward(p)
  <2>1. WatchOn(p) /\ Popped(<<>>)
    BY <1>4, NextIs, StartsWatchNext
  <2>2. Effect(p) /\ ios'[p] = ios[p] /\ Watched(hw'[p], FALSE)
    BY <1>4, <2>1, DoWatchOn DEF Unused
  <2>3. AtRest(p)'
    BY <1>4, <2>2, WatchedRests DEF AtRest
  <2>4. Good(p)
    BY <2>2 DEF Good
  <2> QED
    BY <2>1, <2>3, <2>4 DEF Popped, Onward
<1> QED
  BY <1>1, <1>2, <1>3, <1>4 DEF InEnWatch

LEMMA IoStep ==
    ASSUME Types, MainStep, NEW p \in Pins, todo.by = "io", InIo(p, todo.steps)
    PROVE  Good(p) /\ Onward(p)
<1>e. "none" \in Specials \ Edges /\ Quiet
  BY PinsAssumption DEF Specials, MainStep
<1> DEFINE to == StopsTimer(p)
           po == StopsPulse(p)
<1>0. ASSUME todo'.steps # <<>>, todo'.by = todo.by, InIo(p, todo.steps)' PROVE Onward(p)
  BY <1>0 DEF Onward, InCommand
<1>1. ASSUME todo.steps = <<Clears(p), to, po>>, AtRest(p)
      PROVE  Good(p) /\ Onward(p)
  <2>1. ClearSpecial(p) /\ Popped(<<to, po>>)
    BY <1>1, NextIs, ClearsNext
  <2>2. Effect(p) /\ ios'[p].special = "none" /\ hw'[p] = hw[p]
    BY <1>e, <2>1, DoClear
  <2>3. Loose(hw[p])' /\ ~hw[p].pend
    BY <1>1, <1>e, <2>2, RestIs DEF Loose, Unused
  <2>4. InIo(p, todo.steps)' /\ todo'.steps # <<>>
    BY <2>1, <2>2, <2>3, Tuples DEF InIo, Popped
  <2>5. Good(p)
    BY <1>e, <2>2, <2>3 DEF Good
  <2> QED
    BY <1>0, <2>1, <2>4, <2>5 DEF Popped
<1>2. ASSUME ios[p].special = "none", todo.steps = <<to, po>>, Loose(hw[p])
      PROVE  Good(p) /\ Onward(p)
  <2>1. TimerOff(p) /\ Popped(<<po>>)
    BY <1>2, NextIs, StopsTimerNext
  <2>2. Effect(p) /\ ios'[p] = ios[p] /\ Stilled(hw[p])'
    BY <1>e, <1>2, <2>1, DoTimerOff
  <2>3. InIo(p, todo.steps)' /\ todo'.steps # <<>>
    BY <1>2, <2>1, <2>2, Tuples DEF InIo, Popped
  <2>4. Good(p)
    BY <2>2 DEF Good
  <2> QED
    BY <1>0, <2>1, <2>3, <2>4 DEF Popped
<1>3. ASSUME ios[p].special = "none", todo.steps = <<po>>, Stilled(hw[p])
      PROVE  Good(p) /\ Onward(p)
  <2>1. PulseOff(p) /\ Popped(<<>>)
    BY <1>3, NextIs, StopsPulseNext
  <2>2. Effect(p) /\ ios'[p] = ios[p] /\ Unused(hw[p])'
    BY <1>e, <1>3, <2>1, DoPulseOff
  <2>3. AtRest(p)'
    BY <1>3, <2>2, UnusedRests DEF AtRest
  <2>4. Good(p)
    BY <2>2 DEF Good
  <2> QED
    BY <2>1, <2>3, <2>4 DEF Popped, Onward
<1>4. ASSUME NEW g \in State, ios[p].special = "none", todo.steps = <<SetsGpio(p, g)>>,
             g.special = "none", AtRest(p)
      PROVE  Good(p) /\ Onward(p)
  <2>1. SetupGpio(p, g) /\ Popped(<<>>)
    BY <1>4, NextIs, SetsGpioNext
  <2>2. /\ Effect(p) /\ ios'[p] = g
        /\ Unused(hw[p]) => Unused(hw[p])'
        /\ Loose(hw[p]) => Loose(hw[p])'
    BY <2>1, DoGpio
  <2>3. IF p \in faults.stale THEN Loose(hw[p])' ELSE Unused(hw[p])'
    BY <1>4, <2>2 DEF AtRest, Rests
  <2>4. AtRest(p)'
    BY <1>e, <1>4, <2>1, <2>2, <2>3 DEF AtRest, Rests, Listens, Unused, Loose, Popped
  <2>5. Good(p)
    BY <1>e, <1>4, <2>2 DEF Good
  <2> QED
    BY <2>1, <2>4, <2>5 DEF Popped, Onward
<1> QED
  BY <1>1, <1>2, <1>3, <1>4 DEF InIo

LEMMA RestSame ==
    ASSUME UNCHANGED faults, NEW p \in Pins, ios'[p].special = ios[p].special,
           hw'[p] = hw[p], pulse'[p].edge = pulse[p].edge
    PROVE  AtRest(p) => AtRest(p)'
<1>1. \A st : Rests(hw[p], ios[p].special, pulse[p], st)
                 => Rests(hw'[p], ios'[p].special, pulse'[p], st)
  BY DEF Rests, Counted, Watched, Unused, Loose
<1>2. Listens(hw[p], ios[p].special) => Listens(hw'[p], ios'[p].special)
  BY DEF Listens
<1> QED
  BY <1>1, <1>2, SameDeafened DEF AtRest

LEMMA OnStep ==
    ASSUME Types, MainStep, NEW p \in Pins, todo.by = "on", InOn(p, todo.steps)
    PROVE  Good(p) /\ Onward(p)
<1>1. PICK g \in State : todo.steps = <<Sets(p, g)>> /\ AtRest(p)
  BY DEF InOn
<1>2. IoOn(p, g.on) /\ Popped(<<>>) /\ g.on \in BOOLEAN
  BY <1>1, NextIs, SetsNext DEF State
<1>3. Effect(p) /\ ios'[p].special = ios[p].special /\ hw'[p] = hw[p] /\ pulse'[p] = pulse[p]
  BY <1>2, DoOn
<1>4. AtRest(p)'
  BY <1>1, <1>2, <1>3, RestSame DEF Popped
<1> QED
  BY <1>2, <1>3, <1>4 DEF Popped, Onward, Good

\* The second half of a counter's setting up, of the start or of a command.
LEMMA HalfDone ==
    ASSUME Types, UNCHANGED faults, NEW p \in Pins, ios[p].special \in Edges,
           hw[p].pend => hw[p].exti, hw[p].input, hw[p].trig = ios[p].special,
           pulse[p].edge = ios[p].special, Deafened \/ hw[p].exti, PulseOn(p)
    PROVE  AtRest(p)'
<1> DEFINE e == ios[p].special
<1>1. /\ Effect(p) /\ ios'[p] = ios[p] /\ pulse'[p] = pulse[p]
      /\ hw'[p].tim = "off" /\ hw'[p].timIrq /\ hw'[p].nvic
      /\ hw'[p].exti = hw[p].exti /\ hw'[p].input = hw[p].input
      /\ hw'[p].trig = hw[p].trig /\ hw'[p].pend = hw[p].pend
  BY DoPulseOn
<1>2. \A st : Rests(hw'[p], e, pulse'[p], st)
  BY <1>1, CountedRests DEF Counted
<1>3. (Deafened \/ Listens(hw[p], ios[p].special))'
  <2>1. hw'[p].exti \in BOOLEAN
    BY <1>1 DEF Effect, Typed, Hardware
  <2> QED
    BY <1>1, <2>1, SameDeafened DEF Listens
<1> QED
  BY <1>1, <1>2, <1>3 DEF AtRest

LEMMA HalfMade ==
    ASSUME Types, UNCHANGED faults, NEW p \in Pins, NEW c,
           ios[p].special \in Edges, Masked(hw[p], c), PulseEdge(p, ios[p].special)
    PROVE  Half(hw[p], ios[p].special, pulse[p], c)'
<1>1. ios[p].special \in Specials
  BY DEF Types, State
<1>2. /\ ios'[p] = ios[p]
      /\ hw'[p].input /\ hw'[p].trig = ios[p].special /\ hw'[p].exti
      /\ pulse'[p].edge = ios[p].special
      /\ hw'[p].nvic = hw[p].nvic /\ hw'[p].pend = hw[p].pend
  BY <1>1, DoPulseEdge, KindsAre
<1> QED
  BY <1>2, SameDeafened DEF Half, Masked

LEMMA EnPulseStep ==
    ASSUME Types, MainStep, NEW p \in Pins, todo.by = "en_pulse",
           InEnPulse(p, todo.steps)
    PROVE  Good(p) /\ Onward(p)
<1>p. PICK e \in Edges :
          \/ /\ todo.steps = <<Uses(p, e, FALSE), StopsWatch(p), SetsEdge(p, e), StartsPulse(p)>>
             /\ AtRest(p)
          \/ /\ ios[p].special = e
             /\ \/ todo.steps = <<StopsWatch(p), SetsEdge(p, e), StartsPulse(p)>> /\ Open(hw[p])
                \/ todo.steps = <<SetsEdge(p, e), StartsPulse(p)>> /\ Masked(hw[p], "en_pulse")
                \/ todo.steps = <<StartsPulse(p)>> /\ Half(hw[p], e, pulse[p], "en_pulse")
  BY DEF InEnPulse
<1>e. e \in Specials \ {"none", "w1", "watch"} /\ Quiet /\ p \in Counters
  BY PinsAssumption DEF Specials, MainStep, InEnPulse
<1> DEFINE wo == StopsWatch(p)
           pe == SetsEdge(p, e)
           pn == StartsPulse(p)
<1>0. ASSUME todo'.steps # <<>>, todo'.by = todo.by, InEnPulse(p, todo.steps)' PROVE Onward(p)
  BY <1>0 DEF Onward, InCommand
<1>1. ASSUME todo.steps = <<Uses(p, e, FALSE), wo, pe, pn>>, AtRest(p)
      PROVE  Good(p) /\ Onward(p)
  <2>1. SetSpecial(p, e, FALSE) /\ Popped(<<wo, pe, pn>>)
    BY <1>1, NextIs, UsesNext
  <2>2. Effect(p) /\ ios'[p].special = e /\ hw'[p] = hw[p]
    BY <1>e, <2>1, DoSpecial
  <2>3. Open(hw[p])'
    BY <1>1, <1>e, <2>2, RestIs DEF Open, Unused
  <2>4. InEnPulse(p, todo.steps)' /\ todo'.steps # <<>>
    BY <1>e, <2>1, <2>2, <2>3, Tuples DEF InEnPulse, Popped
  <2>5. Good(p)
    BY <1>e, <2>2 DEF Good
  <2> QED
    BY <1>0, <2>1, <2>4, <2>5 DEF Popped
<1>2. ASSUME ios[p].special = e, todo.steps = <<wo, pe, pn>>, Open(hw[p])
      PROVE  Good(p) /\ Onward(p)
  <2>1. WatchOff(p) /\ Popped(<<pe, pn>>)
    BY <1>2, NextIs, StopsWatchNext
  <2>2. Effect(p) /\ ios'[p] = ios[p] /\ ~hw'[p].pend /\ ~hw'[p].nvic
    BY <1>e, <1>2, <2>1, DoWatchOff
  <2>3. Masked(hw[p], "en_pulse")'
    BY <2>2 DEF Masked
  <2>4. InEnPulse(p, todo.steps)' /\ todo'.steps # <<>>
    BY <1>e, <1>2, <2>1, <2>2, <2>3, Tuples DEF InEnPulse, Popped
  <2>5. Good(p)
    BY <2>2 DEF Good
  <2> QED
    BY <1>0, <2>1, <2>4, <2>5 DEF Popped
<1>3. ASSUME ios[p].special = e, todo.steps = <<pe, pn>>, Masked(hw[p], "en_pulse")
      PROVE  Good(p) /\ Onward(p)
  <2>1. PulseEdge(p, e) /\ Popped(<<pn>>)
    BY <1>3, NextIs, SetsEdgeNext
  <2>2. Effect(p) /\ ios'[p] = ios[p]
    BY <1>e, <1>3, <2>1, DoPulseEdge, KindsAre
  <2>3. UNCHANGED faults /\ PulseEdge(p, ios[p].special)
    BY <1>3, <2>1 DEF Popped
  <2>4. Half(hw[p], e, pulse[p], "en_pulse")'
    BY <1>3, <2>2, <2>3, HalfMade DEF Half
  <2>5. InEnPulse(p, todo.steps)' /\ todo'.steps # <<>>
    BY <1>e, <1>3, <2>1, <2>2, <2>4, Tuples DEF InEnPulse, Popped
  <2>6. Good(p)
    BY <2>2 DEF Good
  <2> QED
    BY <1>0, <2>1, <2>5, <2>6 DEF Popped
<1>4. ASSUME ios[p].special = e, todo.steps = <<pn>>, Half(hw[p], e, pulse[p], "en_pulse")
      PROVE  Good(p) /\ Onward(p)
  <2>1. PulseOn(p) /\ Popped(<<>>)
    BY <1>4, NextIs, StartsPulseNext
  <2>2. Effect(p) /\ ios'[p] = ios[p]
    BY <2>1, DoPulseOn
  <2>3. AtRest(p)'
    BY <1>4, <2>1, HalfDone DEF Popped, Half, Masked
  <2>4. Good(p)
    BY <2>2 DEF Good
  <2> QED
    BY <2>1, <2>3, <2>4 DEF Popped, Onward
<1> QED
  BY <1>p, <1>1, <1>2, <1>3, <1>4

LEMMA DebounceStep ==
    ASSUME Types, MainStep, NEW p \in Pins, todo.by = "pulse_dbnc",
           InDebounce(p, todo.steps)
    PROVE  Good(p) /\ Onward(p)
<1>p. PICK e \in Edges :
          /\ ios[p].special = e
          /\ \/ todo.steps = <<StopsTimer(p), StopsPulse(p), SetsEdge(p, e), StartsPulse(p)>>
                /\ AtRest(p)
             \/ todo.steps = <<StopsPulse(p), SetsEdge(p, e), StartsPulse(p)>> /\ AtRest(p)
             \/ todo.steps = <<SetsEdge(p, e), StartsPulse(p)>> /\ AtRest(p)
             \/ todo.steps = <<StartsPulse(p)>> /\ Again(hw[p], e, pulse[p])
  BY DEF InDebounce
<1>e. e \in Specials \ {"none", "w1", "watch"} /\ Quiet
  BY PinsAssumption DEF Specials, MainStep
<1> DEFINE to == StopsTimer(p)
           po == StopsPulse(p)
           pe == SetsEdge(p, e)
           pn == StartsPulse(p)
<1>0. ASSUME todo'.steps # <<>>, todo'.by = todo.by, InDebounce(p, todo.steps)' PROVE Onward(p)
  BY <1>0 DEF Onward, InCommand
<1>1. ASSUME todo.steps = <<to, po, pe, pn>>, AtRest(p)
      PROVE  Good(p) /\ Onward(p)
  <2>1. TimerOff(p) /\ Popped(<<po, pe, pn>>)
    BY <1>1, NextIs, StopsTimerNext
  <2>2. Effect(p) /\ ios'[p] = ios[p] /\ hw'[p] = hw[p] /\ pulse'[p] = pulse[p]
    BY <1>e, <1>p, <2>1, DoTimerOff
  <2>3. AtRest(p)'
    BY <1>1, <2>1, <2>2, RestSame DEF Popped
  <2>4. InDebounce(p, todo.steps)' /\ todo'.steps # <<>>
    BY <1>p, <2>1, <2>2, <2>3, Tuples DEF InDebounce, Popped
  <2>5. Good(p)
    BY <2>2 DEF Good
  <2> QED
    BY <1>0, <2>1, <2>4, <2>5 DEF Popped
<1>2. ASSUME todo.steps = <<po, pe, pn>>, AtRest(p)
      PROVE  Good(p) /\ Onward(p)
  <2>1. PulseOff(p) /\ Popped(<<pe, pn>>)
    BY <1>2, NextIs, StopsPulseNext
  <2>2. Effect(p) /\ ios'[p] = ios[p] /\ hw'[p] = hw[p] /\ pulse'[p].edge = pulse[p].edge
    BY <1>e, <1>p, <2>1, DoPulseOff
  <2>3. AtRest(p)'
    BY <1>2, <2>1, <2>2, RestSame DEF Popped
  <2>4. InDebounce(p, todo.steps)' /\ todo'.steps # <<>>
    BY <1>p, <2>1, <2>2, <2>3, Tuples DEF InDebounce, Popped
  <2>5. Good(p)
    BY <2>2 DEF Good
  <2> QED
    BY <1>0, <2>1, <2>4, <2>5 DEF Popped
<1>3. ASSUME todo.steps = <<pe, pn>>, AtRest(p)
      PROVE  Good(p) /\ Onward(p)
  <2>1. PulseEdge(p, e) /\ Popped(<<pn>>)
    BY <1>3, NextIs, SetsEdgeNext
  <2>2. /\ Effect(p) /\ ios'[p] = ios[p]
        /\ hw'[p].input /\ hw'[p].trig = e /\ hw'[p].exti /\ pulse'[p].edge = e
        /\ hw'[p].nvic = hw[p].nvic /\ hw'[p].timIrq = hw[p].timIrq /\ hw'[p].pend = hw[p].pend
    BY <1>e, <1>p, <2>1, DoPulseEdge, KindsAre
  <2>3. ~hw[p].pend /\ hw[p].nvic /\ hw[p].timIrq
    BY <1>3, <1>e, <1>p, RestIs DEF AtRest, Rests, Counted
  <2>4. Again(hw[p], e, pulse[p])'
    <3>1. \A st : Rests(hw'[p], e, pulse'[p], st)
      BY <2>2, <2>3, CountedRests DEF Counted
    <3> QED
      BY <2>2, <2>3, <3>1 DEF Again
  <2>5. InDebounce(p, todo.steps)' /\ todo'.steps # <<>>
    BY <1>p, <2>1, <2>2, <2>4, Tuples DEF InDebounce, Popped
  <2>6. Good(p)
    BY <2>2 DEF Good
  <2> QED
    BY <1>0, <2>1, <2>5, <2>6 DEF Popped
<1>4. ASSUME todo.steps = <<pn>>, Again(hw[p], e, pulse[p])
      PROVE  Good(p) /\ Onward(p)
  <2>1. PulseOn(p) /\ Popped(<<>>)
    BY <1>4, NextIs, StartsPulseNext
  <2>2. /\ Effect(p) /\ ios'[p] = ios[p] /\ pulse'[p] = pulse[p]
        /\ hw'[p].tim = "off" /\ hw'[p].timIrq /\ hw'[p].nvic
        /\ hw'[p].exti = hw[p].exti /\ hw'[p].input = hw[p].input
        /\ hw'[p].trig = hw[p].trig /\ hw'[p].pend = hw[p].pend
    BY <1>p, <2>1, DoPulseOn
  <2>3. \A st : Rests(hw'[p], e, pulse'[p], st)
    BY <1>4, <1>p, <2>2, CountedRests DEF Again, Rests, Counted
  <2>4. (Deafened \/ Listens(hw[p], ios[p].special))'
    <3>1. hw'[p].exti \in BOOLEAN
      BY <2>2 DEF Effect, Typed, Hardware
    <3>2. Deafened \/ hw[p].exti
      BY <1>4 DEF Again, Deafened
    <3> QED
      BY <2>1, <2>2, <3>1, <3>2, SameDeafened DEF Listens, Popped
  <2>5. Good(p)
    BY <2>2 DEF Good
  <2>6. AtRest(p)'
    BY <1>p, <2>2, <2>3, <2>4 DEF AtRest
  <2> QED
    BY <2>1, <2>5, <2>6 DEF Popped, Onward
<1> QED
  BY <1>p, <1>1, <1>2, <1>3, <1>4

-----------------------------------------------------------------------------
(* The start.                                                              *)

LEMMA Rest ==
    ASSUME NEW S, NEW m \in Seq(S), m # <<>>
    PROVE  /\ Len(m) \in Nat \ {0} /\ Head(m) = m[1] /\ m[1] \in S
           /\ Tail(m) \in Seq(S) /\ Len(Tail(m)) = Len(m) - 1
           /\ \A i \in 1..(Len(m) - 1) : Tail(m)[i] = m[i + 1]
<1>1. Len(m) \in Nat \ {0}
  BY EmptySeq, LenProperties
<1>2. Head(m) = m[1] /\ m[1] \in S
  BY <1>1, ElementOfSeq
<1> QED
  BY <1>1, <1>2, HeadTailProperties

\* t is the sequence r with a before it.
Before(a, r, t) ==
    /\ Len(t) = Len(r) + 1 /\ t[1] = a
    /\ \A k \in 2 .. Len(t) : t[k] = r[k - 1] /\ k - 1 \in 1 .. Len(r)
    /\ \A i \in 1 .. Len(r) : t[i + 1] = r[i] /\ i + 1 \in 2 .. Len(t)

LEMMA Front ==
    ASSUME NEW S, NEW a \in S, NEW r \in Seq(S)
    PROVE  <<a>> \o r \in Seq(S) /\ Before(a, r, <<a>> \o r)
<1> DEFINE t == <<a>> \o r
<1>1. <<a>> \in Seq(S) /\ Len(<<a>>) = 1 /\ <<a>>[1] = a
  OBVIOUS
<1>2. /\ t \in Seq(S) /\ Len(t) = 1 + Len(r) /\ Len(r) \in Nat
      /\ \A k \in 1 .. 1 + Len(r) : t[k] = IF k <= 1 THEN <<a>>[k] ELSE r[k - 1]
  BY <1>1, ConcatProperties, LenProperties
<1> QED
  BY <1>1, <1>2 DEF Before

LEMMA OneMore ==
    ASSUME NEW n \in Nat
    PROVE  /\ \A k \in 1 .. n + 1 : k = 1 \/ k \in 2 .. n + 1
           /\ 1 \in 1 .. n + 1 /\ \A k \in 2 .. n + 1 : k \in 1 .. n + 1
           /\ \A i, j \in 2 .. n + 1 : i - 1 = j - 1 => i = j
           /\ n + 1 # 0
  OBVIOUS

LEMMA StepOf ==
    /\ Zero \in State
    /\ \A op \in Ops, p \in Pins, g \in State : Step(op, p, g) \in StepSet
    /\ \A p \in Pins, e \in Kinds : SetsEdge(p, e) \in StepSet
<1>1. Zero \in State /\ State \subseteq Args
  BY DEF Zero, State, Specials, Args, Kinds
<1>2. \A op \in Ops, p \in Pins, g \in State : Step(op, p, g) \in StepSet
  BY <1>1 DEF Step, StepSet
<1>3. ASSUME NEW p \in Pins, NEW e \in Kinds PROVE SetsEdge(p, e) \in StepSet
  <2>1. As(e, FALSE) \in Args
    BY DEF As, Zero, Args
  <2>2. "pulse edge" \in Ops
    BY DEF Ops
  <2> QED
    BY <2>1, <2>2 DEF SetsEdge, Step, StepSet
<1> QED
  BY <1>1, <1>2, <1>3

LEMMA EntriesLeft ==
    ASSUME NEW s \in Seq(StepSet), s # <<>>, Entries(s)
    PROVE  /\ Head(s) = Step(Head(s).op, Head(s).pin, Zero)
           /\ Head(s).op \in {"init", "init watch", "pulse on"} /\ Head(s).pin \in Pins
           /\ Tail(s) \in Seq(StepSet) /\ Entries(Tail(s))
           /\ \A i \in 1 .. Len(Tail(s)) : Tail(s)[i].op \in {"init", "init watch"}
           /\ \A op, q : Has(Tail(s), op, q) =>
                             Has(s, op, q) /\ ~(Head(s).op = op /\ Head(s).pin = q)
           /\ \A op, q : Has(s, op, q) =>
                             Has(Tail(s), op, q) \/ (Head(s).op = op /\ Head(s).pin = q)
           /\ Has(s, Head(s).op, Head(s).pin)
           /\ Head(s).op = "pulse on" => ~Has(s, "init", Head(s).pin)
<1> DEFINE t == Tail(s)
           a == Head(s)
<1>1. /\ Len(s) \in Nat \ {0} /\ a = s[1] /\ a \in StepSet /\ t \in Seq(StepSet)
      /\ Len(t) = Len(s) - 1 /\ \A i \in 1 .. Len(t) : t[i] = s[i + 1]
  BY Rest
<1> HIDE DEF t, a
<1>2. 1 \in 1 .. Len(s) /\ \A i \in 1 .. Len(t) : i + 1 \in 2 .. Len(s) /\ i + 1 \in 1 .. Len(s)
  BY <1>1
<1>3. \A k \in 2 .. Len(s) : k - 1 \in 1 .. Len(t) /\ t[k - 1] = s[k]
  BY <1>1
<1>4. a = Step(a.op, a.pin, Zero) /\ a.op \in {"init", "init watch", "pulse on"} /\ a.pin \in Pins
  BY <1>1, <1>2 DEF Entries, StepSet
<1>5. \A i \in 1 .. Len(t) : /\ t[i] = Step(t[i].op, t[i].pin, Zero)
                              /\ t[i].op \in {"init", "init watch"}
  <2>1. \A k \in 2 .. Len(s) : k \in 1 .. Len(s) /\ k # 1
    OBVIOUS
  <2>2. \A k \in 2 .. Len(s) : /\ s[k] = Step(s[k].op, s[k].pin, Zero)
                                /\ s[k].op \in {"init", "init watch"}
    BY <2>1 DEF Entries
  <2> QED
    BY <1>1, <1>2, <2>2
<1>6. \A i, j \in 1 .. Len(t) : t[i] = t[j] => i = j
  <2> SUFFICES ASSUME NEW i \in 1 .. Len(t), NEW j \in 1 .. Len(t), t[i] = t[j] PROVE i = j
    OBVIOUS
  <2>1. s[i + 1] = s[j + 1] /\ i + 1 \in 1 .. Len(s) /\ j + 1 \in 1 .. Len(s)
    BY <1>1, <1>2
  <2>2. i + 1 = j + 1
    BY <2>1 DEF Entries
  <2> QED
    BY <1>1, <2>2
<1>7. Entries(t)
  BY <1>5, <1>6 DEF Entries
<1>8. \A op, q : Has(t, op, q) => Has(s, op, q) /\ ~(a.op = op /\ a.pin = q)
  <2> SUFFICES ASSUME NEW op, NEW q, NEW i \in 1 .. Len(t), t[i].op = op, t[i].pin = q
               PROVE  Has(s, op, q) /\ ~(a.op = op /\ a.pin = q)
    BY DEF Has
  <2>1. s[i + 1] = t[i] /\ i + 1 \in 1 .. Len(s) /\ i + 1 # 1
    BY <1>1, <1>2
  <2>2. s[1] # s[i + 1]
    BY <1>2, <2>1 DEF Entries
  <2> QED
    BY <1>1, <1>4, <1>5, <2>1, <2>2 DEF Has
<1>9. \A op, q : Has(s, op, q) => Has(t, op, q) \/ (a.op = op /\ a.pin = q)
  <2> SUFFICES ASSUME NEW op, NEW q, NEW k \in 1 .. Len(s), s[k].op = op, s[k].pin = q, k # 1
               PROVE  Has(t, op, q)
    BY <1>1 DEF Has
  <2>1. k - 1 \in 1 .. Len(t) /\ t[k - 1] = s[k]
    BY <1>1, <1>3
  <2> QED
    BY <2>1 DEF Has
<1>10. Has(s, a.op, a.pin)
  BY <1>1, <1>2 DEF Has
<1>11. a.op = "pulse on" => ~Has(s, "init", a.pin)
  BY <1>1, <1>2 DEF Entries, Has
<1> QED
  BY <1>1, <1>4, <1>5, <1>7, <1>8, <1>9, <1>10, <1>11 DEF t, a

LEMMA EntriesPushed ==
    ASSUME NEW r \in Seq(StepSet), Entries(r), NEW p \in Pins, ~Has(r, "init", p),
           \A i \in 1 .. Len(r) : r[i].op \in {"init", "init watch"},
           NEW t \in Seq(StepSet), Before(Step("pulse on", p, Zero), r, t)
    PROVE  /\ t # <<>> /\ Entries(t)
           /\ \A op, q : Has(t, op, q) <=> Has(r, op, q) \/ (op = "pulse on" /\ q = p)
<1> DEFINE a == Step("pulse on", p, Zero)
<1>1. a.op = "pulse on" /\ a.pin = p
  BY DEF Step
<1>2. a = Step(a.op, a.pin, Zero)
  BY DEF Step
<1> HIDE DEF a
<1>4. /\ t \in Seq(StepSet) /\ Len(r) \in Nat /\ Len(t) = Len(r) + 1 /\ t[1] = a
      /\ \A k \in 2 .. Len(t) : t[k] = r[k - 1] /\ k - 1 \in 1 .. Len(r)
      /\ \A i \in 1 .. Len(r) : t[i + 1] = r[i] /\ i + 1 \in 2 .. Len(t)
  BY LenProperties DEF Before, a
<1>5. /\ \A k \in 1 .. Len(t) : k = 1 \/ k \in 2 .. Len(t)
      /\ 1 \in 1 .. Len(t) /\ \A k \in 2 .. Len(t) : k \in 1 .. Len(t)
      /\ \A i, j \in 2 .. Len(t) : i - 1 = j - 1 => i = j
  BY <1>4, OneMore
<1>6. \A k \in 1 .. Len(t) : /\ t[k] = Step(t[k].op, t[k].pin, Zero)
                             /\ t[k].op \in {"init", "init watch"} \/ (k = 1 /\ t[k].op = "pulse on")
  <2>1. \A i \in 1 .. Len(r) : /\ r[i] = Step(r[i].op, r[i].pin, Zero)
                                /\ r[i].op \in {"init", "init watch"}
    BY DEF Entries
  <2>2. \A k \in 2 .. Len(t) : /\ t[k] = Step(t[k].op, t[k].pin, Zero)
                                /\ t[k].op \in {"init", "init watch"}
    BY <1>4, <2>1
  <2>3. t[1] = Step(t[1].op, t[1].pin, Zero) /\ t[1].op = "pulse on"
    BY <1>1, <1>2, <1>4
  <2> QED
    BY <1>5, <2>2, <2>3
<1>7. \A i, j \in 1 .. Len(t) : t[i] = t[j] => i = j
  <2>1. \A k \in 2 .. Len(t) : t[k].op # "pulse on"
    BY <1>4
  <2>a. t[1].op = "pulse on"
    BY <1>1, <1>4
  <2>2. ASSUME NEW i \in 2 .. Len(t), NEW j \in 2 .. Len(t), t[i] = t[j] PROVE i = j
    <3>1. r[i - 1] = r[j - 1] /\ i - 1 \in 1 .. Len(r) /\ j - 1 \in 1 .. Len(r)
      BY <1>4, <2>2
    <3>2. i - 1 = j - 1
      BY <3>1 DEF Entries
    <3> QED
      BY <1>5, <3>2
  <2> QED
    BY <1>5, <2>a, <2>1, <2>2
<1>8. \A i, j \in 1 .. Len(t) :
          t[i].op = "pulse on" /\ t[j].op = "init" => t[i].pin # t[j].pin
  <2>1. \A k \in 2 .. Len(t) : t[k].op # "pulse on"
    BY <1>4
  <2>2. \A k \in 2 .. Len(t) : t[k].op = "init" => t[k].pin # p
    <3>1. \A i \in 1 .. Len(r) : r[i].op = "init" => r[i].pin # p
      BY DEF Has
    <3> QED
      BY <1>4, <3>1
  <2>3. t[1].op = "pulse on" /\ t[1].pin = p
    BY <1>1, <1>4
  <2> QED
    BY <1>5, <2>1, <2>2, <2>3
<1>9. \A op, q : Has(t, op, q) <=> Has(r, op, q) \/ (op = "pulse on" /\ q = p)
  <2>1. ASSUME NEW op, NEW q, Has(t, op, q) PROVE Has(r, op, q) \/ (op = "pulse on" /\ q = p)
    <3>1. PICK k \in 1 .. Len(t) : t[k].op = op /\ t[k].pin = q
      BY <2>1 DEF Has
    <3>2. CASE k = 1
      BY <1>1, <1>4, <3>1, <3>2
    <3>3. CASE k \in 2 .. Len(t)
      BY <1>4, <3>1, <3>3 DEF Has
    <3> QED
      BY <1>5, <3>2, <3>3
  <2>2. ASSUME NEW op, NEW q, Has(r, op, q) PROVE Has(t, op, q)
    <3>1. PICK i \in 1 .. Len(r) : r[i].op = op /\ r[i].pin = q
      BY <2>2 DEF Has
    <3>2. i + 1 \in 1 .. Len(t) /\ t[i + 1] = r[i]
      BY <1>4, <1>5
    <3> QED
      BY <3>1, <3>2 DEF Has
  <2>3. Has(t, "pulse on", p)
    <3>1. 1 \in 1 .. Len(t) /\ t[1].op = "pulse on" /\ t[1].pin = p
      BY <1>1, <1>4, <1>5
    <3> QED
      BY <3>1 DEF Has
  <2> QED
    BY <2>1, <2>2, <2>3
<1> QED
  <2>1. t # <<>>
    <3>1. Len(<<>>) = 0
      OBVIOUS
    <3>2. Len(t) # 0
      BY <1>4, OneMore
    <3> QED
      BY <3>1, <3>2
  <2> QED
    BY <1>4, <1>6, <1>7, <1>8, <1>9, <2>1 DEF Entries

\* What the pins of the other entries are at the start does not change.
LEMMA StartSame ==
    ASSUME UNCHANGED faults, todo'.by = todo.by, NEW q \in Pins,
           ios'[q] = ios[q], hw'[q] = hw[q], pulse'[q].edge = pulse[q].edge
    PROVE  /\ AtRest(q) => AtRest(q)'
           /\ Fresh(q) => Fresh(q)'
           /\ NoTimer(q) => NoTimer(q)'
           /\ HalfStarted(q) => HalfStarted(q)'
<1>1. AtRest(q) => AtRest(q)'
  BY RestSame
<1>2. Fresh(q) => Fresh(q)'
  BY DEF Fresh, Loose, Unused
<1>3. NoTimer(q) => NoTimer(q)'
  BY DEF NoTimer
<1>4. HalfStarted(q) => HalfStarted(q)'
  <2>1. Half(hw[q], ios[q].special, pulse[q], "boot")
            => Half(hw[q], ios[q].special, pulse[q], "boot")'
    BY SameDeafened DEF Half, Masked
  <2>2. Made(hw[q], ios[q].special, pulse[q]) => Made(hw[q], ios[q].special, pulse[q])'
    BY DEF Made
  <2> QED
    BY <2>1, <2>2 DEF HalfStarted
<1> QED
  BY <1>1, <1>2, <1>3, <1>4

LEMMA OtherStarts ==
    ASSUME UNCHANGED faults, todo'.by = todo.by, NEW q \in Pins, Starting(q),
           ios'[q] = ios[q], hw'[q] = hw[q], pulse'[q] = pulse[q],
           \A op \in {"init", "pulse on", "init watch"} : Left(op, q)' <=> Left(op, q)
    PROVE  Starting(q)'
  BY StartSame DEF Starting

\* The pin of the entry that is next, by the entry.
LEMMA PulseOnStarts ==
    ASSUME Types, UNCHANGED faults, todo'.by = todo.by, NEW p \in Pins, Starting(p), PulseOn(p),
           Left("pulse on", p), ~Left("init", p),
           ~Left("pulse on", p)', ~Left("init", p)',
           Left("init watch", p)' <=> Left("init watch", p)
    PROVE  Good(p) /\ Starting(p)'
<1>1. Effect(p) /\ ios'[p] = ios[p] /\ pulse'[p] = pulse[p]
      /\ (ios[p].special \notin Edges => hw'[p] = hw[p])
  BY DoPulseOn
<1>2. CASE ios[p].special \in Edges
  <2>1. HalfStarted(p)
    BY <1>2 DEF Starting
  <2>a. /\ hw[p].pend => hw[p].exti
        /\ hw[p].input /\ hw[p].trig = ios[p].special /\ pulse[p].edge = ios[p].special
        /\ Deafened \/ hw[p].exti
    BY <2>1 DEF HalfStarted, Half, Masked, Made
  <2>2. AtRest(p)'
    BY <1>2, <2>a, HalfDone
  <2>3. ios[p].special # "watch"
    BY <1>2, PinsAssumption
  <2> QED
    BY <1>1, <1>2, <2>2, <2>3 DEF Good, Starting
<1>3. CASE ios[p].special \notin Edges
  <2>1. (AtRest(p) => AtRest(p)') /\ (Fresh(p) => Fresh(p)') /\ (NoTimer(p) => NoTimer(p)')
    BY <1>1, <1>3, StartSame
  <2> QED
    BY <1>1, <1>3, <2>1 DEF Good, Starting
<1> QED
  BY <1>2, <1>3

LEMMA InitWatchStarts ==
    ASSUME Types, UNCHANGED faults, todo'.by = todo.by, NEW p \in Pins, Starting(p), InitWatch(p),
           Left("init watch", p), ~Left("init watch", p)',
           Left("init", p)' <=> Left("init", p), Left("pulse on", p)' <=> Left("pulse on", p)
    PROVE  Good(p) /\ Starting(p)'
<1>e. "watch" \notin Edges
  BY PinsAssumption
<1>1. CASE ios[p].special = "watch"
  <2>1. Fresh(p) /\ NoTimer(p) /\ WatchOn(p)
    BY <1>e, <1>1 DEF Starting, InitWatch, IsWatch
  <2>2. /\ Effect(p) /\ ios'[p] = ios[p]
        /\ Watched(hw'[p], FALSE) \/ (p \in faults.stale /\ Watched(hw'[p], TRUE))
    BY <2>1, DoWatchOn DEF Fresh, NoTimer, Loose
  <2>3. AtRest(p)'
    BY <1>1, <2>2, WatchedRests DEF AtRest
  <2> QED
    BY <1>e, <1>1, <2>2, <2>3 DEF Good, Starting
<1>2. CASE ios[p].special # "watch"
  <2>1. UNCHANGED <<ios, hw, pulse>>
    BY <1>2 DEF InitWatch, IsWatch
  <2>2. Effect(p) /\ ios'[p] = ios[p] /\ hw'[p] = hw[p] /\ pulse'[p] = pulse[p]
    BY <2>1, NoEffect
  <2> QED
    BY <1>2, <2>2, StartSame DEF Good, Starting
<1> QED
  BY <1>1, <1>2

\* An entry of osm_ios_init: a pin that is no counter has nothing to come, and
\* one that is has its second half next.
LEMMA InitStarts ==
    ASSUME Types, UNCHANGED faults, todo.by \in ByStart, todo'.by = todo.by,
           NEW p \in Pins, Starting(p), InitPin(p),
           Left("init", p), ~Left("init", p)', ~Left("pulse on", p),
           Left("pulse on", p)' <=> Counting(p),
           Left("init watch", p)' <=> Left("init watch", p)
    PROVE  Good(p) /\ Starting(p)'
<1>s. ios[p] \in State /\ ios[p].special \in Specials
  BY DEF Types, State
<1>e. {"watch", "none", "w1"} \cap Edges = {}
  BY PinsAssumption
<1>1. CASE ios[p].special \in Edges
  <2>1. Fresh(p) /\ PulseEdge(p, ios[p].special) /\ Counting(p)
    BY <1>e, <1>1 DEF Starting, InitPin, Counting, IsPulse
  <2>2. /\ Effect(p) /\ ios'[p] = ios[p]
        /\ hw'[p].input /\ hw'[p].trig = ios[p].special /\ hw'[p].exti
        /\ pulse'[p].edge = ios[p].special /\ hw'[p].pend = hw[p].pend
    BY <1>1, <1>s, <2>1, DoPulseEdge, KindsAre
  <2>3. ASSUME todo.by = "boot" PROVE HalfStarted(p)'
    <3>1. Masked(hw[p], "boot")
      BY <2>1, <2>3 DEF Fresh, Masked, Unused
    <3> QED
      BY <1>1, <2>1, <2>3, <3>1, HalfMade DEF HalfStarted
  <2>a. ASSUME todo.by = "reset" PROVE HalfStarted(p)'
    BY <2>1, <2>2, <2>a DEF Fresh, Made, HalfStarted
  <2>4. HalfStarted(p)'
    BY <2>3, <2>a DEF ByStart
  <2> QED
    BY <1>1, <2>1, <2>2, <2>4 DEF Good, Starting
<1>2. CASE ios[p].special = "watch"
  <2>1. PulseEdge(p, ios[p].special)
    BY <1>e, <1>2 DEF InitPin
  <2>2. Effect(p) /\ ios'[p] = ios[p] /\ hw'[p] = hw[p]
    BY <1>e, <1>2, <1>s, <2>1, DoPulseEdge, KindsAre
  <2>3. AtRest(p) => AtRest(p)'
    BY <1>e, <1>2, <2>2, SameDeafened DEF AtRest, Rests, Listens, Watched
  <2>4. (Fresh(p) => Fresh(p)') /\ (NoTimer(p) => NoTimer(p)')
    BY <2>2 DEF Fresh, NoTimer, Loose, Unused
  <2> QED
    BY <1>e, <1>2, <2>2, <2>3, <2>4 DEF Good, Starting
<1>3. CASE ios[p].special = "none"
  <2>1. SetupGpio(p, ios[p]) /\ (IF p \in faults.stale THEN Loose(hw[p]) ELSE Unused(hw[p]))
    BY <1>e, <1>3 DEF InitPin, Counting, IsPulse, IsWatch, Starting, AtRest, Rests
  <2>2. /\ Effect(p) /\ ios'[p] = ios[p]
        /\ IF p \in faults.stale THEN Loose(hw[p])' ELSE Unused(hw[p])'
    BY <1>s, <2>1, DoGpio
  <2>3. AtRest(p)'
    BY <1>e, <1>3, <2>2 DEF AtRest, Rests, Listens, Unused, Loose
  <2> QED
    BY <1>e, <1>3, <2>2, <2>3 DEF Good, Starting
<1>4. CASE ios[p].special = "w1"
  <2>1. UNCHANGED <<ios, hw, pulse>>
    BY <1>e, <1>4 DEF InitPin, Counting, IsPulse, IsWatch
  <2>2. Effect(p) /\ ios'[p] = ios[p] /\ hw'[p] = hw[p] /\ pulse'[p] = pulse[p]
    BY <2>1, NoEffect
  <2>3. AtRest(p) => AtRest(p)'
    BY <2>2, RestSame
  <2> QED
    BY <1>e, <1>4, <2>2, <2>3 DEF Good, Starting
<1> QED
  BY <1>s, <1>1, <1>2, <1>3, <1>4 DEF Specials

LEMMA InitWatchNext ==
    ASSUME Types, MainStep, NEW p, NEW r, Next_(Step("init watch", p, Zero), r)
    PROVE  InitWatch(p) /\ Popped(r)
<1> DEFINE a == Step("init watch", p, Zero)
<1>1. a.op \notin {"init", "load"}
  BY DEF Step
<1> HIDE DEF a
<1>2. Next_(a, r)
  BY DEF a
<1>3. Do(a) /\ Popped(r)
  BY <1>1, <1>2, Does
<1>4. InitWatch(p)
  BY <1>3 DEF a, Do, Step, InitWatch
<1> QED
  BY <1>3, <1>4

LEMMA InitNext ==
    ASSUME Types, MainStep, NEW p, NEW r, Next_(Step("init", p, Zero), r)
    PROVE  /\ InitPin(p) /\ todo'.by = todo.by /\ UNCHANGED <<saved, asked, faults>>
           /\ Counting(p) => todo'.steps = <<Step("pulse on", p, Zero)>> \o r
           /\ ~Counting(p) => todo'.steps = r
<1> DEFINE a == Step("init", p, Zero)
<1>1. a.op = "init" /\ a.pin = p
  BY DEF Step
<1> HIDE DEF a
<1>2. Head(todo.steps) = a /\ Tail(todo.steps) = r
  BY DEF a, Next_
<1>3. Do(a) /\ todo' = [todo EXCEPT !.steps = After(@)]
      /\ UNCHANGED <<saved, asked, faults>>
  BY <1>2 DEF MainStep
<1>4. InitPin(p)
  BY <1>3 DEF a, Do, Step, InitPin
<1>5. todo'.steps = After(todo.steps) /\ todo'.by = todo.by
  BY <1>3 DEF Types
<1>6. /\ Counting(p) => After(todo.steps) = <<Step("pulse on", p, Zero)>> \o r
      /\ ~Counting(p) => After(todo.steps) = r
  BY <1>1, <1>2 DEF After
<1> QED
  BY <1>3, <1>4, <1>5, <1>6

LEMMA StartStep ==
    ASSUME Types, MainStep, todo.by \in ByStart, Entries(todo.steps),
           \A p \in Pins : Starting(p)
    PROVE  /\ \E p \in Pins : Good(p)
           /\ todo'.steps \in Seq(StepSet) /\ todo'.by = todo.by
           /\ Entries(todo'.steps) /\ \A p \in Pins : Starting(p)'
           /\ UNCHANGED <<saved, asked, faults>>
<1>1. todo.steps \in Seq(StepSet) /\ todo.steps # <<>>
  BY DEF Types, MainStep, Idle
<1>2. PICK op \in {"init", "init watch", "pulse on"}, p \in Pins :
          op = Head(todo.steps).op /\ p = Head(todo.steps).pin
  BY <1>1, EntriesLeft
<1>3. PICK r \in Seq(StepSet) : r = Tail(todo.steps)
  BY <1>1, EntriesLeft
<1>4. Head(todo.steps) = Step(op, p, Zero)
  BY <1>1, <1>2, EntriesLeft
<1>5. /\ Entries(r) /\ \A i \in 1 .. Len(r) : r[i].op \in {"init", "init watch"}
      /\ \A o, q : Has(r, o, q) => Left(o, q) /\ ~(op = o /\ p = q)
      /\ \A o, q : Left(o, q) => Has(r, o, q) \/ (op = o /\ p = q)
      /\ Left(op, p)
      /\ op = "pulse on" => ~Left("init", p)
  <2>1. /\ Entries(Tail(todo.steps))
        /\ \A i \in 1 .. Len(Tail(todo.steps)) : Tail(todo.steps)[i].op \in {"init", "init watch"}
    BY <1>1, EntriesLeft
  <2>2. \A o, q : Has(Tail(todo.steps), o, q) =>
                     Left(o, q) /\ ~(Head(todo.steps).op = o /\ Head(todo.steps).pin = q)
    BY <1>1, EntriesLeft DEF Left
  <2>3. \A o, q : Left(o, q) =>
                     \/ Has(Tail(todo.steps), o, q)
                     \/ Head(todo.steps).op = o /\ Head(todo.steps).pin = q
    BY <1>1, EntriesLeft DEF Left
  <2>4. Left(Head(todo.steps).op, Head(todo.steps).pin)
    BY <1>1, EntriesLeft DEF Left
  <2>5. Head(todo.steps).op = "pulse on" => ~Left("init", Head(todo.steps).pin)
    BY <1>1, EntriesLeft DEF Left
  <2> QED
    BY <1>2, <1>3, <2>1, <2>2, <2>3, <2>4, <2>5
<1>6. \A q : ~Has(r, "pulse on", q)
  BY <1>5 DEF Has
<1>7. Next_(Step(op, p, Zero), r)
  BY <1>3, <1>4 DEF Next_
<1>8. CASE op = "pulse on"
  <2>1. PulseOn(p) /\ Popped(r)
    BY <1>7, <1>8, StartsPulseNext DEF StartsPulse
  <2>2. \A o, q : Left(o, q)' <=> Has(r, o, q)
    BY <2>1 DEF Left, Popped
  <2>3. Good(p) /\ Starting(p)'
    BY <1>5, <1>6, <1>8, <2>1, <2>2, PulseOnStarts DEF Popped
  <2>4. ASSUME NEW q \in Pins \ {p} PROVE Starting(q)'
    BY <1>5, <2>1, <2>2, <2>3, OtherStarts DEF Good, Effect, Others, Popped
  <2> QED
    BY <1>5, <2>1, <2>3, <2>4 DEF Popped
<1>9. CASE op = "init watch"
  <2>1. InitWatch(p) /\ Popped(r)
    BY <1>7, <1>9, InitWatchNext
  <2>2. \A o, q : Left(o, q)' <=> Has(r, o, q)
    BY <2>1 DEF Left, Popped
  <2>3. Good(p) /\ Starting(p)'
    <3>1. UNCHANGED faults /\ todo'.by = todo.by /\ InitWatch(p) /\ Starting(p)
      BY <2>1 DEF Popped
    <3>2. Left("init watch", p) /\ ~Left("init watch", p)'
      BY <1>5, <1>9, <2>2
    <3>a. op # "init" /\ op # "pulse on"
      BY <1>9
    <3>b. Has(r, "init", p) <=> Left("init", p)
      BY <1>5, <3>a
    <3>c. Has(r, "pulse on", p) <=> Left("pulse on", p)
      BY <1>5, <3>a
    <3>3. Left("init", p)' <=> Left("init", p)
      BY <3>b, <2>2
    <3>4. Left("pulse on", p)' <=> Left("pulse on", p)
      BY <3>c, <2>2
    <3> QED
      BY <3>1, <3>2, <3>3, <3>4, InitWatchStarts
  <2>4. ASSUME NEW q \in Pins \ {p} PROVE Starting(q)'
    BY <1>5, <2>1, <2>2, <2>3, OtherStarts DEF Good, Effect, Others, Popped
  <2> QED
    BY <1>5, <2>1, <2>3, <2>4 DEF Popped
<1>10. CASE op = "init"
  <2>1. /\ InitPin(p) /\ todo'.by = todo.by /\ UNCHANGED <<saved, asked, faults>>
        /\ Counting(p) => todo'.steps = <<Step("pulse on", p, Zero)>> \o r
        /\ ~Counting(p) => todo'.steps = r
    <3>1. Next_(Step("init", p, Zero), r)
      BY <1>7, <1>10
    <3> QED
      BY <3>1, InitNext
  <2>2. ~Has(r, "init", p)
    BY <1>5, <1>10
  <2>3. /\ todo'.steps \in Seq(StepSet) /\ Entries(todo'.steps)
        /\ \A o, q : Left(o, q)' <=> Has(r, o, q) \/ (Counting(p) /\ o = "pulse on" /\ q = p)
    <3>1. CASE ~Counting(p)
      BY <1>5, <2>1, <3>1 DEF Left
    <3>2. CASE Counting(p)
      <4>1. PICK a \in StepSet : a = Step("pulse on", p, Zero)
        BY StepOf DEF Ops
      <4>2. PICK t \in Seq(StepSet) : t = <<a>> \o r /\ Before(a, r, t)
        BY Front
      <4>3. todo'.steps = t
        BY <2>1, <3>2, <4>1, <4>2
      <4>4. /\ Entries(t)
            /\ \A o, q : Has(t, o, q) <=> Has(r, o, q) \/ (o = "pulse on" /\ q = p)
        <5>1. Before(Step("pulse on", p, Zero), r, t)
          BY <4>1, <4>2
        <5>2. Entries(r) /\ \A i \in 1 .. Len(r) : r[i].op \in {"init", "init watch"}
          BY <1>5
        <5> QED
          BY <5>1, <5>2, <2>2, EntriesPushed
      <4>5. todo'.steps \in Seq(StepSet) /\ Entries(todo'.steps)
        BY <4>3, <4>4
      <4>6. \A o, q : Left(o, q)' <=> Has(t, o, q)
        BY <4>3 DEF Left
      <4>7. \A o, q : Left(o, q)' <=> Has(r, o, q) \/ (Counting(p) /\ o = "pulse on" /\ q = p)
        <5> HIDE DEF Counting
        <5>1. \A o, q : Left(o, q)' <=> Has(r, o, q) \/ (o = "pulse on" /\ q = p)
          BY <4>4, <4>6
        <5> QED
          BY <3>2, <5>1
      <4> QED
        BY <4>5, <4>7
    <3> QED
      BY <3>1, <3>2
  <2>4. Good(p) /\ Starting(p)'
    BY <1>5, <1>6, <1>10, <2>1, <2>2, <2>3, InitStarts
  <2>5. ASSUME NEW q \in Pins \ {p} PROVE Starting(q)'
    BY <1>5, <1>10, <2>1, <2>3, <2>4, OtherStarts DEF Good, Effect, Others
  <2> QED
    BY <2>1, <2>3, <2>4, <2>5
<1> QED
  BY <1>2, <1>8, <1>9, <1>10

\* The table, once it is loaded, and its entries.
LEMMA Twofold ==
    ASSUME NEW n \in Nat
    PROVE  /\ \A k \in 1 .. n + n : k \in 1 .. n \/ \E i \in 1 .. n : k = n + i
           /\ \A k \in 1 .. n + n : IF k <= n THEN k \in 1 .. n ELSE k - n \in 1 .. n
           /\ \A i \in 1 .. n : i \in 1 .. n + n /\ n + i \in 1 .. n + n
<1>1. \A k \in 1 .. n + n : k \in 1 .. n \/ (k - n \in 1 .. n /\ k = n + (k - n))
  OBVIOUS
<1> QED
  BY <1>1

LEMMA StepIs ==
    ASSUME NEW s, NEW op, NEW q, s = Step(op, q, Zero)
    PROVE  s.op = op /\ s.pin = q /\ s = Step(s.op, s.pin, Zero)
  BY DEF Step

\* Entries that go through the table T twice come once each.
LEMMA EntriesOf ==
    ASSUME NEW n \in Nat, NEW T, NEW st \in Seq(StepSet), Len(st) = n + n,
           \A i, j \in 1 .. n : T[i] = T[j] => i = j,
           \A i \in 1 .. n : /\ st[i] = Step("init", T[i], Zero)
                             /\ st[n + i] = Step("init watch", T[i], Zero)
    PROVE  /\ Entries(st)
           /\ \A i \in 1 .. n : Has(st, "init", T[i]) /\ Has(st, "init watch", T[i])
<1>1. /\ \A k \in 1 .. n + n : k \in 1 .. n \/ \E i \in 1 .. n : k = n + i
      /\ \A i \in 1 .. n : i \in 1 .. n + n /\ n + i \in 1 .. n + n
  BY Twofold
<1>2. \A i \in 1 .. n : /\ st[i] = Step(st[i].op, st[i].pin, Zero)
                         /\ st[i].op = "init" /\ st[i].pin = T[i]
                         /\ st[n + i] = Step(st[n + i].op, st[n + i].pin, Zero)
                         /\ st[n + i].op = "init watch" /\ st[n + i].pin = T[i]
  <2>1. ASSUME NEW i \in 1 .. n
        PROVE  /\ st[i].op = "init" /\ st[i].pin = T[i]
               /\ st[i] = Step(st[i].op, st[i].pin, Zero)
    BY StepIs
  <2>2. ASSUME NEW i \in 1 .. n
        PROVE  /\ st[n + i].op = "init watch" /\ st[n + i].pin = T[i]
               /\ st[n + i] = Step(st[n + i].op, st[n + i].pin, Zero)
    BY StepIs
  <2> QED
    BY <2>1, <2>2
<1>3. ASSUME NEW k \in 1 .. n + n
      PROVE  st[k] = Step(st[k].op, st[k].pin, Zero) /\ st[k].op \in {"init", "init watch"}
  <2>1. CASE k \in 1 .. n
    BY <1>2, <2>1
  <2>2. ASSUME NEW i \in 1 .. n, k = n + i
        PROVE  st[k] = Step(st[k].op, st[k].pin, Zero) /\ st[k].op \in {"init", "init watch"}
    BY <1>2, <2>2
  <2> QED
    BY <1>1, <2>1, <2>2
<1>4. ASSUME NEW k \in 1 .. n + n, NEW l \in 1 .. n + n, st[k] = st[l] PROVE k = l
  <2>1. CASE k \in 1 .. n /\ l \in 1 .. n
    <3>1. T[k] = T[l]
      BY <1>2, <1>4, <2>1
    <3> QED
      BY <2>1, <3>1
  <2>2. ASSUME NEW i \in 1 .. n, NEW j \in 1 .. n, k = n + i, l = n + j PROVE k = l
    <3>1. T[i] = T[j]
      BY <1>2, <1>4, <2>2
    <3>2. i = j
      BY <3>1
    <3> QED
      BY <2>2, <3>2
  <2>3. ASSUME NEW i \in 1 .. n, NEW j \in 1 .. n PROVE st[i] # st[n + j]
    BY <1>2, <2>3
  <2>4. ASSUME NEW i \in 1 .. n, k \in 1 .. n, l = n + i PROVE FALSE
    BY <1>4, <2>3, <2>4
  <2>5. ASSUME NEW i \in 1 .. n, l \in 1 .. n, k = n + i PROVE FALSE
    BY <1>4, <2>3, <2>5
  <2>6. k \in 1 .. n \/ \E i \in 1 .. n : k = n + i
    BY <1>1
  <2>7. l \in 1 .. n \/ \E i \in 1 .. n : l = n + i
    BY <1>1
  <2> QED
    BY <2>1, <2>2, <2>4, <2>5, <2>6, <2>7
<1>5. Entries(st)
  BY <1>3, <1>4 DEF Entries
<1>6. ASSUME NEW i \in 1 .. n PROVE Has(st, "init", T[i]) /\ Has(st, "init watch", T[i])
  BY <1>1, <1>2, <1>6 DEF Has
<1> QED
  BY <1>5, <1>6

\* The table is gone through twice, each pin once.
LEMMA EnteringIs ==
    /\ Entering \in Seq(StepSet) /\ Entering # <<>> /\ Entries(Entering)
    /\ \A p \in Pins : Has(Entering, "init", p) /\ Has(Entering, "init watch", p)
<1>1. PICK n \in Nat \ {0} : n = Len(Table)
  BY PinsAssumption, EmptySeq, LenProperties
<1>2. \A i \in 1 .. n : Table[i] \in Pins
  BY <1>1, PinsAssumption, ElementOfSeq
<1>3. PICK st : st = Entering
  OBVIOUS
<1>4. st = [i \in 1 .. n + n |-> IF i <= n THEN Step("init", Table[i], Zero)
                                ELSE Step("init watch", Table[i - n], Zero)]
  <2>1. 2 * Len(Table) = n + n
    BY <1>1
  <2> QED
    BY <1>1, <1>3, <2>1 DEF Entering
<1>5. \A p \in Pins : /\ Step("init", p, Zero) \in StepSet
                       /\ Step("init watch", p, Zero) \in StepSet
  BY StepOf DEF Ops
<1>6. st \in Seq(StepSet) /\ Len(st) = n + n
  <2>2. st \in [1 .. n + n -> StepSet]
    <3>1. ASSUME NEW i \in 1 .. n + n
          PROVE  (IF i <= n THEN Step("init", Table[i], Zero)
                  ELSE Step("init watch", Table[i - n], Zero)) \in StepSet
      <4>1. CASE i <= n
        <5>0. i \in 1 .. n
          BY <4>1, Twofold
        <5>1. Step("init", Table[i], Zero) \in StepSet
          BY <1>2, <1>5, <5>0
        <5> QED
          BY <4>1, <5>1
      <4>2. CASE ~(i <= n)
        <5>1. i - n \in 1 .. n
          BY <4>2, Twofold
        <5>2. Step("init watch", Table[i - n], Zero) \in StepSet
          BY <1>2, <1>5, <5>1
        <5> QED
          BY <4>2, <5>2
      <4> QED
        BY <4>1, <4>2
    <3> QED
      BY <1>4, <3>1
  <2>3. n + n \in Nat
    OBVIOUS
  <2>4. st \in Seq(StepSet)
    BY <2>2, <2>3, IsASeq
  <2>5. DOMAIN st = 1 .. n + n
    BY <2>2
  <2> QED
    BY <2>3, <2>4, <2>5, LenProperties
<1>7. \A i \in 1 .. n : /\ st[i] = Step("init", Table[i], Zero)
                         /\ st[n + i] = Step("init watch", Table[i], Zero)
  <2>1. ASSUME NEW i \in 1 .. n
        PROVE  i \in 1 .. n + n /\ i <= n /\ n + i \in 1 .. n + n /\ ~(n + i <= n) /\ (n + i) - n = i
    OBVIOUS
  <2>2. ASSUME NEW i \in 1 .. n PROVE st[i] = Step("init", Table[i], Zero)
    BY <1>4, <2>1
  <2>3. ASSUME NEW i \in 1 .. n PROVE st[n + i] = Step("init watch", Table[i], Zero)
    <3>1. st[n + i] = Step("init watch", Table[(n + i) - n], Zero)
      BY <1>4, <2>1
    <3> QED
      BY <2>1, <3>1
  <2> QED
    BY <2>2, <2>3
<1>8. \A i, j \in 1 .. n : Table[i] = Table[j] => i = j
  BY <1>1, PinsAssumption
<1>9. Entries(st) /\ \A i \in 1 .. n : Has(st, "init", Table[i]) /\ Has(st, "init watch", Table[i])
  BY <1>6, <1>7, <1>8, EntriesOf
<1>10. \A p \in Pins : Has(st, "init", p) /\ Has(st, "init watch", p)
  <2>1. \A p \in Pins : \E i \in 1 .. n : Table[i] = p
    BY <1>1, PinsAssumption
  <2> QED
    BY <1>9, <2>1
<1>11. st # <<>>
  <2>1. Len(<<>>) = 0
    OBVIOUS
  <2> QED
    BY <1>6, <2>1
<1> QED
  BY <1>3, <1>6, <1>9, <1>10, <1>11

LEMMA ResetIs ==
    /\ \A l \in {0, 1} : /\ Reset(l) \in Hardware /\ Unused(Reset(l))
                          /\ Reset(l).pend = FALSE /\ Reset(l).tim = "off"
    /\ NoPulses \in Counter /\ NoPulses.count = 0 /\ NoPulses.send = 0
  BY DEF Reset, Hardware, Unused, NoPulses, Counter, Kinds

LEMMA DefaultsIs ==
    /\ Defaults \in [Pins -> State]
    /\ \A p \in Pins : Defaults[p].special \in Edges => p \in Counters
<1>1. \A p \in Pins : Default[p] \in Specials
  BY PinsAssumption DEF Specials
<1>2. \A p \in Pins : LET d == [Zero EXCEPT !.special = Default[p]] IN
                       d \in State /\ d.special = Default[p]
  BY <1>1 DEF Zero, State, Specials
<1> QED
  BY <1>2 DEF Defaults, Counters

LEMMA LoadedIs ==
    ASSUME Types, \A p \in Pins : saved[p].special \in Edges => p \in Counters
    PROVE  \A p \in Pins : Loaded(saved)[p].special \in Edges => p \in Counters
  BY DefaultsIs DEF Loaded

-----------------------------------------------------------------------------
(* A step of main.                                                         *)

LEMMA StepTyped ==
    ASSUME Types, MainStep
    PROVE  /\ todo'.steps = After(todo.steps) /\ todo'.by = todo.by
           /\ todo' \in [by : ByCommand \cup ByStart, steps : Seq(StepSet)]
           /\ UNCHANGED <<saved, asked, faults>>
<1>1. /\ todo' = [todo EXCEPT !.steps = After(@)] /\ UNCHANGED <<saved, asked, faults>>
      /\ todo.steps # <<>> /\ todo.steps \in Seq(StepSet)
  BY DEF MainStep, Idle, Types
<1>2. After(todo.steps) \in Seq(StepSet)
  <2>1. Head(todo.steps) \in StepSet /\ Tail(todo.steps) \in Seq(StepSet)
    BY <1>1, Rest
  <2>2. Step("pulse on", Head(todo.steps).pin, Zero) \in StepSet
    BY <2>1, StepOf DEF StepSet, Ops
  <2>3. <<Step("pulse on", Head(todo.steps).pin, Zero)>> \o Tail(todo.steps) \in Seq(StepSet)
    BY <2>1, <2>2, Front
  <2> QED
    BY <2>1, <2>3, EnteringIs DEF After
<1>3. todo'.steps = After(todo.steps) /\ todo'.by = todo.by
  BY <1>1 DEF Types
<1>4. todo' \in [by : ByCommand \cup ByStart, steps : Seq(StepSet)]
  BY <1>1, <1>2 DEF Types
<1> QED
  BY <1>1, <1>3, <1>4

\* Whatever the step is, it is the table's loading or changes one pin.
LEMMA StepEffect ==
    ASSUME Types, MainStep
    PROVE  Load \/ \E p \in Pins : Effect(p)
<1>1. PICK s \in StepSet : s = Head(todo.steps)
  BY Rest DEF MainStep, Idle, Types
<1>2. Do(s) /\ Quiet
  BY <1>1 DEF MainStep
<1>3. /\ s.op \in Ops /\ s.pin \in Pins /\ s.arg.special \in Kinds
      /\ s.op # "pulse edge" => s.arg \in State
  BY DEF StepSet, Args
<1>4. PICK p \in Pins : p = s.pin
  BY <1>3
<1>5. CASE s.op = "load"
  BY <1>2, <1>5 DEF Do
<1>6. CASE s.op = "init"
  <2>1. InitPin(p)
    BY <1>2, <1>4, <1>6 DEF Do
  <2>2. ios[p] \in State /\ ios[p].special \in Kinds
    BY KindsAre DEF Types, State
  <2> QED
    BY <2>1, <2>2, DoPulseEdge, DoGpio, NoEffect DEF InitPin
<1>7. CASE s.op = "init watch"
  <2>1. InitWatch(p)
    BY <1>2, <1>4, <1>7 DEF Do
  <2> QED
    BY <2>1, DoWatchOn, NoEffect DEF InitWatch
<1>8. CASE s.op = "special"
  <2>1. SetSpecial(p, s.arg.special, s.arg.pull)
    BY <1>2, <1>4, <1>8 DEF Do
  <2>2. s.arg.special \in Specials /\ s.arg.pull \in BOOLEAN
    BY <1>3, <1>8 DEF State
  <2> QED
    BY <2>1, <2>2, DoSpecial
<1>9. CASE s.op = "clear"
  <2>1. ClearSpecial(p)
    BY <1>2, <1>4, <1>9 DEF Do
  <2> QED
    BY <2>1, DoClear
<1>10. CASE s.op = "gpio"
  <2>1. SetupGpio(p, s.arg)
    BY <1>2, <1>4, <1>10 DEF Do
  <2> QED
    BY <1>3, <1>10, <2>1, DoGpio
<1>11. CASE s.op = "on"
  <2>1. IoOn(p, s.arg.on)
    BY <1>2, <1>4, <1>11 DEF Do
  <2>2. s.arg.on \in BOOLEAN
    BY <1>3, <1>11 DEF State
  <2> QED
    BY <2>1, <2>2, DoOn
<1>12. CASE s.op = "timer off"
  <2>1. TimerOff(p)
    BY <1>2, <1>4, <1>12 DEF Do
  <2> QED
    BY <1>2, <2>1, DoTimerOff
<1>13. CASE s.op = "pulse off"
  <2>1. PulseOff(p)
    BY <1>2, <1>4, <1>13 DEF Do
  <2> QED
    BY <1>2, <2>1, DoPulseOff
<1>14. CASE s.op = "pulse edge"
  <2>1. PulseEdge(p, s.arg.special)
    BY <1>2, <1>4, <1>14 DEF Do
  <2> QED
    BY <1>3, <2>1, DoPulseEdge
<1>15. CASE s.op = "pulse on"
  <2>1. PulseOn(p)
    BY <1>2, <1>4, <1>15 DEF Do
  <2> QED
    BY <2>1, DoPulseOn
<1>16. CASE s.op = "watch off"
  <2>1. WatchOff(p)
    BY <1>2, <1>4, <1>16 DEF Do
  <2> QED
    BY <1>2, <2>1, DoWatchOff
<1>17. CASE s.op = "watch on"
  <2>1. WatchOn(p)
    BY <1>2, <1>4, <1>17 DEF Do
  <2> QED
    BY <2>1, DoWatchOn
<1> QED
  BY <1>3, <1>5, <1>6, <1>7, <1>8, <1>9, <1>10, <1>11, <1>12, <1>13, <1>14, <1>15, <1>16, <1>17
  DEF Ops

LEMMA MainFits ==
    ASSUME Types, Bounded, MainStep
    PROVE  Types' /\ Bounded'
<1>1. CASE Load
  <2>1. ios' \in [Pins -> State] /\ UNCHANGED <<hw, pulse>>
    BY <1>1, DefaultsIs DEF Load, Loaded, Types
  <2>2. Types'
    BY <2>1, StepTyped DEF Types
  <2> QED
    BY <2>1, <2>2 DEF Bounded
<1>2. ASSUME NEW p \in Pins, Effect(p) PROVE Types' /\ Bounded'
  <2>1. Types'
    BY <1>2, StepTyped DEF Types, Effect, Typed
  <2>2. \A q \in Pins \ {p} : hw'[q] = hw[q] /\ pulse'[q] = pulse[q]
    BY <1>2 DEF Effect, Others
  <2>3. Fits(hw[p], pulse[p])'
    <3>1. /\ hw'[p].pend = hw[p].pend
          /\ hw'[p].tim = hw[p].tim \/ hw'[p].tim = "off"
          /\ \/ pulse'[p].count = pulse[p].count /\ pulse'[p].send = pulse[p].send
             \/ pulse'[p].count = 0 /\ pulse'[p].send = 0
      BY <1>2 DEF Effect, Shrinks
    <3>2. /\ One(hw'[p].pend) = One(hw[p].pend)
          /\ One(hw'[p].tim # "off") = One(hw[p].tim # "off") \/ One(hw'[p].tim # "off") = 0
      BY <3>1 DEF One
    <3>3. \A n, m \in Nat, a, b \in {0, 1} :
             n + a + b <= m + 1 => /\ n + a + 0 <= m + 1
                                   /\ 0 + a + b <= m + 1 /\ 0 + a + 0 <= m + 1
      OBVIOUS
    <3>4. pulse'[p].send <= pulse'[p].count
      BY <3>1, NumbersOf
    <3>5. pulse'[p].count + One(hw'[p].pend) + One(hw'[p].tim # "off") <= MaxCount + 1
      BY <3>1, <3>2, <3>3, NumbersOf, PinsAssumption
    <3> QED
      BY <3>4, <3>5 DEF Fits
  <2> QED
    BY <2>1, <2>2, <2>3 DEF Bounded, Fits
<1> QED
  BY <1>1, <1>2, StepEffect

\* The table comes, and every entry is still to be made.
LEMMA LoadStep ==
    ASSUME Types, Known, Loading, \A p \in Pins : Ready(p), MainStep
    PROVE  Stages' /\ Known' /\ Still'
<1>1. /\ Load /\ todo'.steps = Entering /\ todo'.by = todo.by
      /\ UNCHANGED <<saved, faults>>
  <2>1. PICK s : s = Step("load", First, Zero)
    OBVIOUS
  <2>2. s.op = "load"
    BY <2>1 DEF Step
  <2>3. Head(todo.steps) = s
    BY <2>1, StartHead DEF Loading
  <2>4. Load
    BY <2>2, <2>3 DEF MainStep, Do
  <2>5. After(todo.steps) = Entering
    BY <2>2, <2>3 DEF After
  <2> QED
    BY <2>4, <2>5, StepTyped
<1>2. ios' = Loaded(saved) /\ UNCHANGED <<hw, pulse>>
  BY <1>1 DEF Load
<1>3. \A p \in Pins : Left("init", p)' /\ Left("init watch", p)'
  BY <1>1, EnteringIs DEF Left
<1>4. ASSUME NEW p \in Pins PROVE Starting(p)'
  <2> DEFINE sp == Loaded(saved)[p].special
  <2>1. ios'[p].special = sp /\ sp \in Specials
    BY <1>2, DefaultsIs DEF Types, Loaded, State
  <2>2. Fresh(p)' /\ (sp = "watch" => NoTimer(p)')
        /\ (sp \in {"none", "w1"} => p \in faults'.stale \/ Unused(hw'[p]))
    BY <1>1, <1>2 DEF Ready, Fresh, NoTimer, Loose, Unused
  <2>3. CASE sp \in Edges
    BY <1>3, <2>1, <2>2, <2>3 DEF Starting
  <2>4. CASE sp = "watch"
    BY <1>3, <2>1, <2>2, <2>4, PinsAssumption DEF Starting
  <2>5. CASE sp \in {"none", "w1"}
    <3>1. sp \notin Edges /\ sp # "watch"
      BY <2>5, PinsAssumption
    <3>2. Rests(hw'[p], sp, pulse'[p], p \in faults'.stale) /\ Listens(hw'[p], sp)
      BY <2>2, <2>5, <3>1 DEF Rests, Listens, Fresh, Loose
    <3>3. AtRest(p)'
      BY <2>1, <3>2 DEF AtRest
    <3> QED
      BY <2>1, <3>1, <3>3 DEF Starting
  <2> QED
    BY <2>1, <2>3, <2>4, <2>5 DEF Specials
<1>5. Stages'
  <2>1. ~Idle' /\ todo'.by \in ByStart /\ Entries(todo'.steps)
    BY <1>1, EnteringIs DEF Loading, Idle
  <2> QED
    BY <1>4, <2>1 DEF Stages
<1>6. Known'
  <2>1. \A p \in Pins : ios'[p].special \in Edges => p \in Counters
    BY <1>2, LoadedIs DEF Known
  <2> QED
    BY <1>1, <2>1 DEF Known, Counters
<1>7. Still'
  <2>1. \A p \in Pins : ~hw[p].pend
    BY DEF Ready, Fresh
  <2> QED
    BY <1>2, <2>1 DEF Still
<1> QED
  BY <1>5, <1>6, <1>7

LEMMA CommandStep ==
    ASSUME Types, MainStep, NEW p \in Pins, InCommand(p)
    PROVE  Good(p) /\ Onward(p)
  BY EnW1Step, EnWatchStep, IoStep, OnStep, EnPulseStep, DebounceStep DEF InCommand

LEMMA MainStages ==
    ASSUME Types, Stages, MainStep, ~Loading
    PROVE  Stages' /\ \E p \in Pins : Good(p)
<1>1. ~Idle
  BY DEF MainStep
<1>2. CASE todo.by \in ByStart /\ Entries(todo.steps) /\ \A p \in Pins : Starting(p)
  <2>1. /\ \E p \in Pins : Good(p)
        /\ todo'.steps \in Seq(StepSet) /\ todo'.by \in ByStart
        /\ Entries(todo'.steps) /\ \A p \in Pins : Starting(p)'
    BY <1>2, StartStep
  <2>2. CASE Idle'
    <3>1. \A op, q : ~Left(op, q)'
      <4>1. todo'.steps = <<>>
        BY <2>2 DEF Idle
      <4>2. Len(todo'.steps) = 0
        BY <4>1
      <4>3. 1 .. Len(todo'.steps) = {}
        BY <4>2
      <4> QED
        BY <4>3 DEF Left, Has
    <3>2. \A p \in Pins : AtRest(p)'
      BY <2>1, <3>1 DEF Starting
    <3> QED
      BY <2>1, <2>2, <3>2 DEF Stages
  <2>3. CASE ~Idle'
    BY <2>1, <2>3 DEF Stages
  <2> QED
    BY <2>1, <2>2, <2>3
<1>3. CASE \E p \in Pins : InCommand(p) /\ \A q \in Pins \ {p} : AtRest(q)
  <2>1. PICK p \in Pins : InCommand(p) /\ \A q \in Pins \ {p} : AtRest(q)
    BY <1>3
  <2>2. Good(p) /\ Onward(p)
    BY <2>1, CommandStep
  <2>3. \A q \in Pins \ {p} : AtRest(q)'
    BY <2>1, <2>2, StepTyped, RestSame DEF Good, Effect, Others
  <2>4. Stages'
    <3>1. CASE todo'.steps = <<>> /\ AtRest(p)'
      BY <2>3, <3>1 DEF Stages, Idle
    <3>2. CASE todo'.steps # <<>> /\ InCommand(p)'
      BY <2>3, <3>2 DEF Stages, Idle
    <3> QED
      BY <2>2, <3>1, <3>2 DEF Onward
  <2> QED
    BY <2>2, <2>4
<1> QED
  BY <1>1, <1>2, <1>3 DEF Stages

LEMMA GoodKeeps ==
    ASSUME Types, Known, Still, MainStep, ~Loading, NEW p \in Pins, Good(p)
    PROVE  Known' /\ Still'
<1>s. UNCHANGED <<saved, faults>>
  BY StepTyped
<1>1. \A q \in Pins \ {p} : ios'[q] = ios[q] /\ hw'[q] = hw[q]
  BY DEF Good, Effect, Others
<1>2. Known'
  <2>1. \A q \in Pins : ios'[q].special \in Edges => q \in Counters
    BY <1>1 DEF Known, Good
  <2> QED
    BY <1>s, <2>1 DEF Known, Counters
<1>3. Still'
  <2>1. hw'[p].pend = hw[p].pend
    BY DEF Good, Effect, Shrinks
  <2> QED
    BY <1>s, <1>1, <2>1, SameDeafened DEF Still, Good
<1> QED
  BY <1>2, <1>3

LEMMA MainHolds ==
    ASSUME IInv, MainStep
    PROVE  IInv'
<1> Types /\ Bounded
  BY DEF IInv
<1>1. Types' /\ Bounded' /\ UNCHANGED faults
  BY MainFits, StepTyped
<1>2. CASE Had({"reset"})
  BY <1>1, <1>2, SameDeafened DEF IInv
<1>3. CASE Known /\ Stages /\ Still
  <2>1. CASE Loading
    <3>1. \A p \in Pins : Ready(p)
      <4>1. ~Idle /\ ~Entries(todo.steps)
        BY <2>1, StartHead DEF Loading, Idle
      <4>2. \A p \in Pins : ~InCommand(p)
        BY <2>1 DEF Loading, ByStart, InCommand
      <4> QED
        BY <1>3, <4>1, <4>2 DEF Stages
    <3> QED
      BY <1>1, <1>3, <2>1, <3>1, LoadStep DEF IInv
  <2>2. CASE ~Loading
    BY <1>1, <1>3, <2>2, MainStages, GoodKeeps DEF IInv
  <2> QED
    BY <2>1, <2>2
<1> QED
  BY <1>2, <1>3 DEF IInv

-----------------------------------------------------------------------------
(* A command that is given, a restart, and the first start.                *)

LEMMA Programmed ==
    ASSUME Types, NEW c \in DOMAIN Commands, NEW p \in Pins, p \in Commands[c],
           NEW s \in Programs(c, p)
    PROVE  /\ s \in Seq(StepSet) /\ s # <<>> /\ c \in ByCommand
           /\ AtRest(p) =>
                  \/ c = "en_w1" /\ InEnW1(p, s)
                  \/ c = "en_watch" /\ InEnWatch(p, s)
                  \/ c = "io" /\ InIo(p, s)
                  \/ c = "on" /\ InOn(p, s)
                  \/ c = "en_pulse" /\ InEnPulse(p, s)
                  \/ c = "pulse_dbnc" /\ InDebounce(p, s)
<1>c. c \in ByCommand
  BY PinsAssumption DEF ByCommand
<1>e. Edges \subseteq Specials
  BY PinsAssumption DEF Specials
<1>i. ios[p] \in State /\ ios[p].pull \in BOOLEAN
  BY DEF Types, State
<1>s. /\ \A sp \in Specials, b \in BOOLEAN : As(sp, b) \in State
      /\ Zero \in State /\ "w1" \in Specials /\ "watch" \in Specials
  BY DEF As, Zero, State, Specials
<1>t. /\ \A op \in Ops, g \in State : Step(op, p, g) \in StepSet
      /\ \A e \in Kinds : SetsEdge(p, e) \in StepSet
  BY StepOf
<1>o. \A a \in StepSet, b \in StepSet, d \in StepSet, e \in StepSet :
         /\ <<a>> \in Seq(StepSet) /\ <<a>> # <<>>
         /\ <<a, b, d>> \in Seq(StepSet) /\ <<a, b, d>> # <<>>
         /\ <<a, b, d, e>> \in Seq(StepSet) /\ <<a, b, d, e>> # <<>>
  OBVIOUS
<1>1. CASE c = "en_w1"
  <2>1. s = <<Uses(p, "w1", ios[p].pull), StopsTimer(p), StopsPulse(p), StopsWatch(p)>>
    BY <1>1 DEF Programs, EnableW1, Uses, StopsTimer, StopsPulse, StopsWatch
  <2>2. Uses(p, "w1", ios[p].pull) \in StepSet /\ StopsTimer(p) \in StepSet
        /\ StopsPulse(p) \in StepSet /\ StopsWatch(p) \in StepSet
    BY <1>i, <1>s, <1>t DEF Uses, StopsTimer, StopsPulse, StopsWatch, Ops
  <2>3. AtRest(p) => InEnW1(p, s)
    BY <1>i, <2>1 DEF InEnW1
  <2> QED
    BY <1>1, <1>c, <1>o, <2>1, <2>2, <2>3
<1>2. CASE c = "en_watch"
  <2>1. s = <<Uses(p, "watch", FALSE), StopsTimer(p), StopsPulse(p), StartsWatch(p)>>
    BY <1>2 DEF Programs, EnableWatch, Uses, StopsTimer, StopsPulse, StartsWatch
  <2>2. Uses(p, "watch", FALSE) \in StepSet /\ StopsTimer(p) \in StepSet
        /\ StopsPulse(p) \in StepSet /\ StartsWatch(p) \in StepSet
    BY <1>s, <1>t DEF Uses, StopsTimer, StopsPulse, StartsWatch, Ops
  <2>3. AtRest(p) => InEnWatch(p, s)
    BY <2>1 DEF InEnWatch
  <2> QED
    BY <1>2, <1>c, <1>o, <2>1, <2>2, <2>3
<1>3. CASE c = "on"
  <2>1. PICK g \in State : s = <<Sets(p, g)>>
    <3>1. PICK on \in BOOLEAN : s = <<Step("on", p, [Zero EXCEPT !.on = on])>>
      BY <1>3 DEF Programs, OnOff
    <3>2. [Zero EXCEPT !.on = on] \in State
      BY DEF Zero, State, Specials
    <3> QED
      BY <3>1, <3>2 DEF Sets
  <2>2. Sets(p, g) \in StepSet
    BY <1>t DEF Sets, Ops
  <2>3. AtRest(p) => InOn(p, s)
    BY <2>1 DEF InOn
  <2> QED
    BY <1>3, <1>c, <1>o, <2>1, <2>2, <2>3
<1>4. CASE c = "io" /\ ios[p].special = "none"
  <2>1. PICK g \in State : s = <<SetsGpio(p, g)>> /\ g.special = "none"
    <3>1. PICK d \in Gpios :
              s = <<Step("gpio", p, [Zero EXCEPT !.input = d.input, !.pull = d.pull])>>
      BY <1>4 DEF Programs, Configure, Gpio
    <3>2. PICK g : g = [Zero EXCEPT !.input = d.input, !.pull = d.pull]
      OBVIOUS
    <3>3. d.input \in BOOLEAN /\ d.pull \in BOOLEAN
      BY PinsAssumption
    <3>4. g \in State /\ g.special = "none"
      BY <3>2, <3>3 DEF Zero, State, Specials
    <3> QED
      BY <3>1, <3>2, <3>4 DEF SetsGpio
  <2>2. SetsGpio(p, g) \in StepSet
    BY <1>t DEF SetsGpio, Ops
  <2>3. AtRest(p) => InIo(p, s)
    BY <1>4, <2>1 DEF InIo
  <2> QED
    BY <1>4, <1>c, <1>o, <2>1, <2>2, <2>3
<1>5. CASE c = "io" /\ ios[p].special # "none"
  <2>1. s = <<Clears(p), StopsTimer(p), StopsPulse(p)>>
    BY <1>5 DEF Programs, Configure, Clears, StopsTimer, StopsPulse
  <2>2. Clears(p) \in StepSet /\ StopsTimer(p) \in StepSet /\ StopsPulse(p) \in StepSet
    BY <1>s, <1>t DEF Clears, StopsTimer, StopsPulse, Ops
  <2>3. AtRest(p) => InIo(p, s)
    BY <2>1 DEF InIo
  <2> QED
    BY <1>5, <1>c, <1>o, <2>1, <2>2, <2>3
<1>6. CASE c = "en_pulse"
  <2>1. PICK e \in Edges : s = <<Uses(p, e, FALSE), StopsWatch(p), SetsEdge(p, e), StartsPulse(p)>>
    BY <1>6 DEF Programs, EnablePulsecount, Uses, StopsWatch, SetsEdge, StartsPulse
  <2>2. Uses(p, e, FALSE) \in StepSet /\ StopsWatch(p) \in StepSet
        /\ SetsEdge(p, e) \in StepSet /\ StartsPulse(p) \in StepSet
    BY <1>e, <1>s, <1>t, KindsAre DEF Uses, StopsWatch, StartsPulse, Ops
  <2>3. p \in Counters
    BY <1>6 DEF Counters
  <2>4. AtRest(p) => InEnPulse(p, s)
    BY <2>1, <2>3 DEF InEnPulse
  <2> QED
    BY <1>6, <1>c, <1>o, <2>1, <2>2, <2>4
<1>7. CASE c = "pulse_dbnc"
  <2>1. PICK e \in Kinds : e = pulse[p].edge
    BY DEF Types, Counter
  <2>2. IsPulse(p) /\ s = <<StopsTimer(p), StopsPulse(p), SetsEdge(p, e), StartsPulse(p)>>
    BY <1>7, <2>1 DEF Programs, Debounce, StopsTimer, StopsPulse, SetsEdge, StartsPulse
  <2>3. StopsTimer(p) \in StepSet /\ StopsPulse(p) \in StepSet
        /\ SetsEdge(p, e) \in StepSet /\ StartsPulse(p) \in StepSet
    BY <1>s, <1>t DEF StopsTimer, StopsPulse, StartsPulse, Ops
  <2>4. ASSUME AtRest(p) PROVE InDebounce(p, s)
    <3>1. ios[p].special \in Edges /\ ios[p].special = e
      BY <2>1, <2>2, <2>4 DEF AtRest, Rests, Counted, IsPulse
    <3> QED
      BY <2>2, <2>4, <3>1 DEF InDebounce
  <2> QED
    BY <1>7, <1>c, <1>o, <2>2, <2>3, <2>4
<1> QED
  BY <1>c, <1>1, <1>2, <1>3, <1>4, <1>5, <1>6, <1>7 DEF ByCommand

LEMMA IdleIs ==
    ASSUME Stages, Idle
    PROVE  ~Loading /\ \A p \in Pins : AtRest(p)
  BY StartHead DEF Stages, Loading, Idle

LEMMA CommandNext ==
    ASSUME IInv, NEW c \in DOMAIN Commands, NEW p \in Pins, Command(c, p)
    PROVE  IInv'
<1> Types /\ Bounded
  BY DEF IInv
<1>1. /\ Idle /\ p \in Commands[c] /\ UNCHANGED <<ios, saved, hw, pulse, asked, faults>>
  BY DEF Command
<1>2. PICK s \in Programs(c, p) : todo' = [by |-> c, steps |-> s]
  BY DEF Command
<1>3. todo'.by = c /\ todo'.steps = s
  BY <1>2
<1>4. /\ s \in Seq(StepSet) /\ s # <<>> /\ c \in ByCommand
      /\ AtRest(p) =>
             \/ c = "en_w1" /\ InEnW1(p, s)
             \/ c = "en_watch" /\ InEnWatch(p, s)
             \/ c = "io" /\ InIo(p, s)
             \/ c = "on" /\ InOn(p, s)
             \/ c = "en_pulse" /\ InEnPulse(p, s)
             \/ c = "pulse_dbnc" /\ InDebounce(p, s)
  BY <1>1, Programmed
<1>5. Types' /\ Bounded'
  <2>1. todo' \in [by : ByCommand \cup ByStart, steps : Seq(StepSet)]
    BY <1>2, <1>4
  <2> QED
    BY <1>1, <2>1 DEF Types, Bounded
<1>r. CASE Had({"reset"})
  BY <1>1, <1>5, <1>r, SameDeafened DEF IInv
<1> SUFFICES ASSUME ~Had({"reset"}) PROVE IInv'
  BY <1>r
<1>a. Known /\ Stages /\ Still /\ ~Loading /\ \A q \in Pins : AtRest(q)
  BY <1>1, IdleIs DEF IInv
<1>6. Known'
  BY <1>1, <1>a DEF Known, Counters
<1>7. Still'
  BY <1>1, <1>a, SameDeafened DEF Still
<1>8. \A q \in Pins : AtRest(q)'
  BY <1>1, <1>a, RestSame
<1>9. InCommand(p)'
  <2>1. /\ Unused(hw[p])' <=> Unused(hw[p])
        /\ Loose(hw[p])' <=> Loose(hw[p])
        /\ Stilled(hw[p])' <=> Stilled(hw[p])
        /\ Open(hw[p])' <=> Open(hw[p])
    BY <1>1 DEF Unused, Loose, Stilled, Open
  <2>2. /\ \A d : Masked(hw[p], d)' <=> Masked(hw[p], d)
        /\ \A e, d : Half(hw[p], e, pulse[p], d)' <=> Half(hw[p], e, pulse[p], d)
        /\ \A e : Again(hw[p], e, pulse[p])' <=> Again(hw[p], e, pulse[p])
    BY <1>1, SameDeafened DEF Masked, Half, Again, Rests, Counted, Watched, Unused, Loose
  <2>3. ios'[p] = ios[p] /\ AtRest(p)'
    BY <1>1, <1>8
  <2>4. CASE c = "en_w1" /\ InEnW1(p, s)
    BY <1>3, <2>1, <2>3, <2>4 DEF InEnW1, InCommand
  <2>5. CASE c = "en_watch" /\ InEnWatch(p, s)
    BY <1>3, <2>1, <2>3, <2>5 DEF InEnWatch, InCommand
  <2>6. CASE c = "io" /\ InIo(p, s)
    BY <1>3, <2>1, <2>3, <2>6 DEF InIo, InCommand
  <2>7. CASE c = "on" /\ InOn(p, s)
    BY <1>3, <2>3, <2>7 DEF InOn, InCommand
  <2>8. CASE c = "en_pulse" /\ InEnPulse(p, s)
    <3>1. p \in Counters'
      BY <2>8 DEF InEnPulse, Counters
    <3> QED
      BY <1>3, <2>1, <2>2, <2>3, <2>8, <3>1 DEF InEnPulse, InCommand
  <2>9. CASE c = "pulse_dbnc" /\ InDebounce(p, s)
    BY <1>3, <2>2, <2>3, <2>9 DEF InDebounce, InCommand
  <2> QED
    BY <1>4, <1>a, <2>4, <2>5, <2>6, <2>7, <2>8, <2>9
<1>10. Stages'
  BY <1>3, <1>4, <1>8, <1>9 DEF Stages, Idle
<1> QED
  BY <1>5, <1>6, <1>7, <1>10 DEF IInv

\* Registers as at power on are ready for the table, whatever it says.
Booted ==
    /\ Types /\ todo = Boot
    /\ \A p \in Pins : saved[p].special \in Edges => p \in Counters
    /\ \A p \in Pins : /\ Unused(hw[p]) /\ hw[p].pend = FALSE /\ hw[p].tim = "off"
                       /\ pulse[p].count = 0 /\ pulse[p].send = 0

LEMMA BootHolds == Booted => IInv
<1> SUFFICES ASSUME Booted PROVE IInv
  OBVIOUS
<1>1. Bounded
  <2>1. \A p \in Pins : One(hw[p].pend) = 0 /\ One(hw[p].tim # "off") = 0
    BY DEF Booted, One
  <2>2. 0 + 0 + 0 <= MaxCount + 1 /\ 0 <= 0
    BY PinsAssumption
  <2> QED
    BY <2>1, <2>2 DEF Booted, Bounded
<1>2. Loading
  BY DEF Booted, Loading, Boot, ByStart
<1>3. Known
  BY <1>2 DEF Booted, Known
<1>4. Still
  BY DEF Booted, Still
<1>5. ASSUME NEW p \in Pins PROVE Ready(p)
  BY DEF Booted, Ready, Fresh, NoTimer, Loose, Unused
<1>6. Stages
  BY <1>2, <1>5 DEF Stages
<1> QED
  BY <1>1, <1>3, <1>4, <1>6 DEF IInv, Booted

LEMMA BootIs == Boot \in [by : ByCommand \cup ByStart, steps : Seq(StepSet)]
<1>1. Step("load", First, Zero) \in StepSet
  <2>1. First \in Pins
    BY PinsAssumption, Rest DEF First
  <2> QED
    BY <2>1, StepOf DEF Ops
<1> QED
  BY <1>1 DEF Boot, Start, ByStart

LEMMA BlankIs == Blank \in [Pins -> State] /\ \A p \in Pins : Blank[p].special \notin Edges
  BY StepOf, PinsAssumption DEF Blank, Zero

LEMMA NoTableIs == NoTable \in [Pins -> State]
<1>1. \A p \in Pins : [Zero EXCEPT !.special = AtZero[p]] \in State
  BY PinsAssumption DEF Zero, State, Specials
<1> QED
  BY <1>1 DEF NoTable

LEMMA InitHolds == Init => IInv
<1> SUFFICES ASSUME Init PROVE Booted
  BY BootHolds
<1>1. /\ hw \in [Pins -> Hardware] /\ pulse \in [Pins -> Counter]
      /\ \A p \in Pins : /\ Unused(hw[p]) /\ hw[p].pend = FALSE /\ hw[p].tim = "off"
                         /\ pulse[p].count = 0 /\ pulse[p].send = 0
  BY ResetIs DEF Init
<1>2. Types
  <2>1. faults \in FaultRecords
    BY PinsAssumption DEF Init, FaultRecords
  <2> QED
    BY <1>1, <2>1, BootIs, BlankIs, NoTableIs DEF Init, Types
<1> QED
  BY <1>1, <1>2, BlankIs DEF Init, Booted

LEMMA RestartHolds ==
    ASSUME IInv, Restart
    PROVE  IInv'
<1>1. /\ ios' = NoTable /\ saved' = saved /\ asked' = {} /\ todo' = Boot
      /\ hw' = [p \in Pins |-> Reset(hw[p].level)] /\ pulse' = [p \in Pins |-> NoPulses]
      /\ faults'.had = faults.had \cup {"restart"} /\ faults' \in FaultRecords
  <2>1. faults' \in FaultRecords
    BY DEF Restart, IInv, Types, FaultRecords
  <2> QED
    BY <2>1 DEF Restart
<1>2. \A p \in Pins : hw[p].level \in {0, 1}
  BY DEF IInv, Types, Hardware
<1>3. /\ hw' \in [Pins -> Hardware] /\ pulse' \in [Pins -> Counter]
      /\ \A p \in Pins : /\ Unused(hw'[p]) /\ hw'[p].pend = FALSE /\ hw'[p].tim = "off"
                         /\ pulse'[p].count = 0 /\ pulse'[p].send = 0
  BY <1>1, <1>2, ResetIs
<1>4. Types'
  BY <1>1, <1>3, BootIs, NoTableIs DEF IInv, Types
<1>5. Bounded'
  BY <1>3, PinsAssumption DEF Bounded, One
<1>6. CASE Had({"reset"})
  <2>1. Had({"reset"})'
    BY <1>1, <1>6 DEF Had
  <2> QED
    BY <1>4, <1>5, <2>1 DEF IInv
<1>7. CASE Known
  <2>1. Booted'
    BY <1>1, <1>3, <1>4, <1>7 DEF Booted, Known, Counters
  <2> QED
    BY <2>1, BootHolds, PTL
<1> QED
  BY <1>6, <1>7 DEF IInv

\* A reset finds the registers as they were between two commands.
LEMMA ResetSysHolds ==
    ASSUME IInv, NEW flash \in {saved, Blank}, ResetSys(flash)
    PROVE  IInv'
<1>1. /\ Idle /\ Quiet /\ saved' = flash /\ ios' = NoTable /\ UNCHANGED hw
      /\ pulse' = [p \in Pins |-> NoPulses] /\ asked' = {}
      /\ todo'.by = "reset" /\ todo'.steps = Start /\ todo' = [Boot EXCEPT !.by = "reset"]
  BY DEF ResetSys, Boot
<1>2. /\ faults' \in FaultRecords /\ faults'.had = faults.had
      /\ faults'.stale = faults.stale \cup LeftBehind(flash)
  BY DEF ResetSys, LeftBehind, IInv, Types, FaultRecords
<1>3. flash \in [Pins -> State]
  BY BlankIs DEF IInv, Types
<1>4. \A p \in Pins : pulse'[p] \in Counter /\ pulse'[p].count = 0 /\ pulse'[p].send = 0
  BY <1>1, ResetIs
<1>5. Types'
  <2>1. todo' \in [by : ByCommand \cup ByStart, steps : Seq(StepSet)]
    BY <1>1, BootIs DEF ByStart
  <2>2. pulse' \in [Pins -> Counter]
    BY <1>1, ResetIs
  <2> QED
    BY <1>1, <1>2, <1>3, <2>1, <2>2, NoTableIs DEF IInv, Types
<1>6. Bounded'
  <2>1. \A n, m \in Nat, a, b \in {0, 1} : n + a + b <= m + 1 => 0 + a + b <= m + 1
    OBVIOUS
  <2>2. \A p \in Pins : 0 + One(hw[p].pend) + One(hw[p].tim # "off") <= MaxCount + 1
    <3>1. Types /\ Bounded /\ MaxCount \in Nat
      BY PinsAssumption DEF IInv
    <3> SUFFICES ASSUME NEW p \in Pins
                 PROVE  0 + One(hw[p].pend) + One(hw[p].tim # "off") <= MaxCount + 1
      OBVIOUS
    <3> QED
      BY <2>1, <3>1, NumbersOf
  <2> QED
    BY <1>1, <1>4, <2>2 DEF Bounded
<1>7. CASE Had({"reset"})
  <2>1. Had({"reset"})'
    BY <1>2, <1>7 DEF Had
  <2> QED
    BY <1>5, <1>6, <2>1 DEF IInv
<1>8. CASE Known /\ Stages /\ Still
  <2>1. \A p \in Pins : AtRest(p) /\ Loose(hw[p]) /\ ~hw[p].pend
    BY <1>1, <1>8, IdleIs, RestIs DEF IInv
  <2>2. Loading'
    BY <1>1 DEF Loading, ByStart
  <2>3. Known'
    BY <1>1, <1>8, <2>2, BlankIs DEF Known, Counters
  <2>4. Still'
    BY <1>1, <2>1 DEF Still
  <2>5. ASSUME NEW p \in Pins PROVE Ready(p)'
    <3> DEFINE sp == Loaded(flash)[p].special
    <3>1. Fresh(p)'
      BY <1>1, <2>1 DEF Fresh, Loose, Unused
    <3>2. /\ sp = "watch" => p \in faults'.stale \/ hw[p].tim = "off"
          /\ sp \in {"none", "w1"} => p \in faults'.stale \/ Unused(hw[p])
      <4>1. CASE ios[p].special \in Edges
        BY <1>2, <4>1, PinsAssumption DEF LeftBehind, Counting, IsPulse
      <4>2. CASE ios[p].special = "watch"
        <5>1. p \in faults.stale \/ hw[p].tim = "off"
          BY <2>1, <4>2 DEF AtRest, Rests, Watched
        <5>2. sp \in {"none", "w1"} => p \in LeftBehind(flash)
          BY <4>2, PinsAssumption DEF LeftBehind, Counting, IsWatch
        <5> QED
          BY <1>2, <5>1, <5>2
      <4>3. CASE ios[p].special \in {"none", "w1"}
        <5>1. p \in faults.stale \/ Unused(hw[p])
          BY <2>1, <4>3 DEF AtRest, Rests
        <5> QED
          BY <1>2, <5>1 DEF Unused
      <4>4. ios[p].special \in Specials
        BY DEF IInv, Types, State
      <4> QED
        BY <4>1, <4>2, <4>3, <4>4 DEF Specials
    <3>3. Loaded(saved)' = Loaded(flash)
      BY <1>1 DEF Loaded, Defaults
    <3> HIDE DEF sp
    <3>4. Loaded(saved)'[p].special = sp
      BY <3>3 DEF sp
    <3> QED
      BY <1>1, <3>1, <3>2, <3>4 DEF Ready, NoTimer, Unused
  <2>6. Stages'
    BY <2>2, <2>5 DEF Stages
  <2> QED
    BY <1>5, <1>6, <2>3, <2>4, <2>6 DEF IInv
<1> QED
  BY <1>7, <1>8 DEF IInv

-----------------------------------------------------------------------------
(* The theorems.                                                           *)

LEMMA EnvHolds ==
    ASSUME IInv, Env, Types', Bounded', saved' = saved \/ (saved' = ios /\ Idle)
    PROVE  IInv'
<1>1. UNCHANGED <<ios, todo>> /\ (Loading' <=> Loading)
  BY DEF Env, Loading
<1>2. CASE Had({"reset"})'
  BY <1>2 DEF IInv
<1>3. CASE ~Had({"reset"})'
  <2>1. Known /\ Stages /\ Still /\ Types
    BY <1>3, HadGrows DEF IInv, Env
  <2>2. Known'
    <3>1. CASE saved' = saved
      BY <1>1, <2>1, <3>1 DEF Known, Counters
    <3>2. CASE saved' = ios /\ Idle
      BY <1>1, <2>1, <3>2, IdleIs DEF Known, Counters
    <3> QED
      BY <3>1, <3>2
  <2>3. Stages' /\ Still'
    BY <1>3, <2>1, StagesMoved, StillMoved
  <2> QED
    BY <2>2, <2>3 DEF IInv
<1> QED
  BY <1>2, <1>3

LEMMA Unchanged ==
    ASSUME IInv, UNCHANGED vars
    PROVE  IInv'
<1>1. Env /\ Types' /\ Bounded' /\ saved' = saved
  BY DEF IInv, vars, Env, Move, Types, Bounded
<1> QED
  BY <1>1, EnvHolds

\* Every step keeps the invariant.
LEMMA NextHolds ==
    ASSUME IInv, [Next]_vars
    PROVE  IInv'
<1> Types /\ Bounded
  BY DEF IInv
<1>1. ASSUME NEW p \in Pins, Edge(p) PROVE IInv'
  <2>1. Env /\ Types' /\ Bounded' /\ saved' = saved
    BY <1>1, EdgeMoves, EdgeFits DEF Edge
  <2> QED
    BY <2>1, EnvHolds
<1>2. ASSUME NEW p \in Pins, PulseIsr(p) \/ WatchIsr(p) \/ TimerEnds(p) \/ DebounceIsr(p)
      PROVE  IInv'
  <2>1. Env /\ Types'
    BY <1>2, PulseIsrMoves, WatchIsrMoves, TimerMoves
  <2>2. Bounded' /\ saved' = saved
    BY <1>2, IsrFits DEF PulseIsr, WatchIsr, TimerEnds, DebounceIsr
  <2> QED
    BY <2>1, <2>2, EnvHolds
<1>3. ASSUME Save \/ \E p \in Pins : Get(p) \/ Ack(p) \/ Answer(p) PROVE IInv'
  <2>1. Env /\ Types' /\ Bounded'
    BY <1>3, MeasureMoves, MeasureFits
  <2>2. saved' = saved \/ (saved' = ios /\ Idle)
    BY <1>3 DEF Save, Get, Ack, Answer
  <2> QED
    BY <2>1, <2>2, EnvHolds
<1>4. ASSUME NEW c \in DOMAIN Commands, NEW p \in Pins, Command(c, p) PROVE IInv'
  BY <1>4, CommandNext
<1>5. CASE MainStep
  BY <1>5, MainHolds
<1>6. CASE Restart
  BY <1>6, RestartHolds
<1>7. CASE ResetCommand \/ Wipe
  BY <1>7, ResetSysHolds DEF ResetCommand, Wipe
<1>8. CASE UNCHANGED vars
  BY <1>8, Unchanged
<1> QED
  BY <1>1, <1>2, <1>3, <1>4, <1>5, <1>6, <1>7, <1>8 DEF Next, Interrupts

LEMMA Invariance == Spec => []IInv
  BY InitHolds, NextHolds, PTL DEF Spec

\* An interrupt that asks for the processor has a handler that clears it,
\* whatever the table and the commands are, unless an edge came while en_w1 or
\* io was taking the pin's use away, or a reset was at work or has left a pin
\* listening.
THEOREM PinsHandled == Spec => []Handled
<1>1. IInv => Handled
  <2> SUFFICES ASSUME IInv, ~Had({"en_w1", "io", "reset"}), NEW p \in Pins \ faults.stale, Raised(p)
               PROVE  IsPulse(p) \/ IsWatch(p)
    BY DEF Handled
  <2>1. ios[p].special \in Specials /\ hw[p].pend
    BY DEF IInv, Types, State, Raised
  <2>2. ~Had({"en_w1", "io"}) /\ ~Had({"reset"})
    BY DEF Had
  <2>3. ios[p].special \notin {"none", "w1"}
    BY <2>1, <2>2 DEF IInv, Still
  <2> QED
    BY <2>1, <2>3 DEF IsPulse, IsWatch, Specials
<1> QED
  BY <1>1, Invariance, PTL

LEMMA RestIsConfigured ==
    ASSUME IInv, Idle, ~Had({"reset"}), NEW p \in Pins
    PROVE  /\ IsPulse(p) =>
                 /\ Deafened \/ hw[p].exti # (hw[p].tim # "off")
                 /\ hw[p].nvic /\ hw[p].timIrq /\ hw[p].input
                 /\ hw[p].trig = ios[p].special /\ pulse[p].edge = ios[p].special
           /\ IsWatch(p) => /\ hw[p].exti /\ hw[p].nvic /\ hw[p].input
                            /\ hw[p].trig = "both"
                            /\ p \notin faults.stale => ~Due(p)
           /\ ~IsPulse(p) /\ ~IsWatch(p) /\ p \notin faults.stale =>
                 ~hw[p].exti /\ ~hw[p].nvic /\ ~Due(p)
<1>1. AtRest(p) /\ ios[p].special \in Specials
  BY IdleIs DEF IInv, Types, State
<1>2. IsPulse(p) => Counted(hw[p], ios[p].special, pulse[p])
  BY <1>1 DEF AtRest, Rests, IsPulse
<1>3. IsPulse(p) => Deafened \/ hw[p].exti # (hw[p].tim # "off")
  BY <1>1 DEF AtRest, Listens, IsPulse
<1>4. IsWatch(p) => /\ hw[p].exti /\ hw[p].nvic /\ hw[p].input
                    /\ hw[p].trig = "both"
                    /\ p \notin faults.stale => ~Due(p)
  BY <1>1 DEF AtRest, Rests, Watched, IsWatch, Due
<1>5. ~IsPulse(p) /\ ~IsWatch(p) /\ p \notin faults.stale =>
          ~hw[p].exti /\ ~hw[p].nvic /\ ~Due(p)
  BY <1>1 DEF AtRest, Rests, Unused, IsPulse, IsWatch, Due, Specials
<1> QED
  BY <1>2, <1>3, <1>4, <1>5 DEF Counted

\* Between two commands every pin's hardware is what its settings say, after a
\* start of the hardware and after a reset, and no count is below what is to be
\* taken off it; with the exceptions Configured names.
THEOREM PinsSetUp == Spec => []SetUp
<1>1. IInv => TypeOK
  <2> SUFFICES ASSUME IInv PROVE TypeOK
    OBVIOUS
  <2>1. ASSUME NEW p \in Pins
        PROVE  /\ hw[p].tim \in {"off", "running", "due"}
               /\ pulse[p].count \in 0 .. MaxCount + 2 /\ pulse[p].send \in 0 .. MaxCount + 2
    <3>1. \A n, s, m \in Nat, a, b \in {0, 1} :
             s <= n /\ n + a + b <= m + 1 => n \in 0 .. m + 2 /\ s \in 0 .. m + 2
      OBVIOUS
    <3>2. hw[p].tim \in {"off", "running", "due"}
      BY DEF IInv, Types, Hardware
    <3> QED
      BY <3>1, <3>2, NumbersOf, PinsAssumption DEF IInv
  <2> QED
    BY <2>1 DEF TypeOK, IInv, Types, FaultRecords
<1>2. IInv => Configured
  BY RestIsConfigured DEF Configured
<1>3. IInv => NoUnderflow
  BY DEF IInv, Bounded, NoUnderflow
<1> QED
  BY <1>1, <1>2, <1>3, Invariance, PTL DEF SetUp
=============================================================================
