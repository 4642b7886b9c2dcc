----------------------------- MODULE PinsSystem -----------------------------
(***************************************************************************)
(* The pins at work: edges, the interrupts, the commands' steps, what the  *)
(* measurements do with the counters, saves, resets and restarts.          *)
(*                                                                         *)
(* An edge while the EXTI request is masked is not kept.  The measurements *)
(* of Measured have an interval and a samplecount.                         *)
(***************************************************************************)
EXTENDS Pins

CONSTANT Measured

ASSUME PinsSystemAssumption == Measured \subseteq Pins

Boot == [by |-> "boot", steps |-> Start]
Idle == todo.steps = <<>>
Blank == [p \in Pins |-> Zero]

Init ==
    /\ ios = NoTable /\ saved = Blank
    /\ hw = [p \in Pins |-> Reset(1)]
    /\ pulse = [p \in Pins |-> NoPulses]
    /\ asked = {}
    /\ todo = Boot
    /\ faults = [left |-> MaxFaults, had |-> {}, stale |-> {}]
-----------------------------------------------------------------------------
(* The world, and the interrupts.                                          *)

Turns(p) == IF hw[p].level = 0 THEN {"rising", "both"} ELSE {"falling", "both"}

\* An edge nobody listens for, nor looks for when a timer ends, is left out.
Edge(p) ==
    /\ pulse[p].count < MaxCount /\ (hw[p].exti \/ hw[p].tim # "off")
    /\ IF Idle THEN UNCHANGED faults ELSE Fault(todo.by)
    /\ hw' = [hw EXCEPT ![p].level = 1 - @,
                        ![p].pend = @ \/ (hw[p].exti /\ hw[p].trig \in Turns(p))]
    /\ UNCHANGED <<ios, saved, pulse, asked, todo>>

\* osm_pulsecount_isr looks at every counter, whichever line it is for.
PulseIsr(p) ==
    /\ Raised(p) /\ IsPulse(p)
    /\ hw' = [q \in Pins |->
                 IF IsPulse(q) /\ hw[q].pend
                 THEN [hw[q] EXCEPT !.pend = FALSE, !.exti = FALSE,
                                    !.tim = IF @ = "off" THEN "running" ELSE @]
                 ELSE hw[q]]
    /\ UNCHANGED <<ios, saved, pulse, asked, todo, faults>>

\* Mutants: the flag is cleared and the measurement is not told; the flag is
\* not cleared.
WatchIsrClears(p) ==
    /\ Raised(p) /\ IsWatch(p)
    /\ hw' = [hw EXCEPT ![p].pend = FALSE]
    /\ UNCHANGED <<ios, saved, pulse, asked, todo, faults>>

WatchIsrTells(p) ==
    /\ Raised(p) /\ IsWatch(p)
    /\ asked' = asked \cup ({p} \cap Measured)
    /\ UNCHANGED <<ios, saved, hw, pulse, todo, faults>>

WatchIsr(p) ==
    /\ Raised(p) /\ IsWatch(p)
    /\ LET seen == {q \in Pins : IsWatch(q) /\ hw[q].pend} IN
       /\ hw' = [q \in Pins |-> IF q \in seen THEN [hw[q] EXCEPT !.pend = FALSE] ELSE hw[q]]
       /\ asked' = IF Watches THEN asked \cup (seen \cap Measured) ELSE asked
    /\ UNCHANGED <<ios, saved, pulse, todo, faults>>

TimerEnds(p) ==
    /\ hw[p].tim = "running"
    /\ hw' = [hw EXCEPT ![p].tim = "due"]
    /\ UNCHANGED <<ios, saved, pulse, asked, todo, faults>>

Counts(p) ==
    \/ pulse[p].edge = "both"
    \/ pulse[p].edge = "rising" /\ hw[p].level = 1
    \/ pulse[p].edge = "falling" /\ hw[p].level = 0

\* Mutants: the EXTI is enabled again only when the pulse was good; the
\* timer is not one for a single shot.
DebounceIsrGood(p) ==
    /\ Due(p)
    /\ pulse' = IF Counts(p) THEN [pulse EXCEPT ![p].count = @ + 1] ELSE pulse
    /\ hw' = [hw EXCEPT ![p].tim = "off", ![p].exti = Counts(p)]
    /\ UNCHANGED <<ios, saved, asked, todo, faults>>

DebounceIsrRepeats(p) ==
    /\ Due(p)
    /\ pulse' = IF Counts(p) THEN [pulse EXCEPT ![p].count = @ + 1] ELSE pulse
    /\ hw' = [hw EXCEPT ![p].tim = "running", ![p].exti = TRUE]
    /\ UNCHANGED <<ios, saved, asked, todo, faults>>

DebounceIsr(p) ==
    /\ Due(p)
    /\ pulse' = IF Counts(p) THEN [pulse EXCEPT ![p].count = @ + 1] ELSE pulse
    /\ hw' = [hw EXCEPT ![p].tim = "off", ![p].exti = TRUE]
    /\ UNCHANGED <<ios, saved, asked, todo, faults>>
-----------------------------------------------------------------------------
(* Main, which runs when no interrupt asks for the processor.              *)

Command(c, p) ==
    /\ Idle /\ Quiet /\ p \in Commands[c]
    /\ \E steps \in Programs(c, p) : todo' = [by |-> c, steps |-> steps]
    /\ UNCHANGED <<ios, saved, hw, pulse, asked, faults>>

MainStep ==
    /\ ~Idle /\ Quiet
    /\ Do(Head(todo.steps))
    /\ todo' = [todo EXCEPT !.steps = After(@)]
    /\ UNCHANGED <<saved, asked, faults>>

\* _pulsecount_get, for a pin that counts; _pulsecount_ack, for any.
Get(p) ==
    /\ Idle /\ Quiet /\ IsPulse(p)
    /\ pulse' = [pulse EXCEPT ![p].send = pulse[p].count]
    /\ UNCHANGED <<ios, saved, hw, asked, todo, faults>>

Ack(p) ==
    /\ Idle /\ Quiet /\ pulse[p].send > 0
    /\ pulse' = [pulse EXCEPT ![p].count = @ - pulse[p].send, ![p].send = 0]
    /\ UNCHANGED <<ios, saved, hw, asked, todo, faults>>

\* The main loop sends the measurement that was asked for.
Answer(p) ==
    /\ Idle /\ Quiet /\ p \in asked
    /\ asked' = asked \ {p}
    /\ UNCHANGED <<ios, saved, hw, pulse, todo, faults>>

Save ==
    /\ Idle /\ Quiet
    /\ saved' = ios
    /\ UNCHANGED <<ios, hw, pulse, asked, todo, faults>>

\* The pins that listen and will not be counters, nor be watched as they are.
LeftBehind(flash) ==
    {p \in Pins : Counting(p) /\ Loaded(flash)[p].special \notin Edges \cup {ios[p].special}}

\* osm_platform_reset_sys: the memory is as at power on, the registers are as
\* they were, and interrupts are on.
ResetSys(flash) ==
    /\ Idle /\ Quiet
    /\ saved' = flash /\ ios' = NoTable
    /\ pulse' = [p \in Pins |-> NoPulses]
    /\ asked' = {}
    /\ todo' = [by |-> "reset", steps |-> Start]
    /\ faults' = [faults EXCEPT !.stale = @ \cup LeftBehind(flash)]
    /\ UNCHANGED hw

\* reset, and wipe, which erases the settings first.
ResetCommand == ResetSys(saved)
Wipe == ResetSys(Blank)

\* Power, the watchdog or a firmware update resets the processor.
Restart ==
    /\ "restart" \in Faults /\ faults.left > 0
    /\ faults' = [left |-> faults.left - 1, had |-> faults.had \cup {"restart"}, stale |-> {}]
    /\ ios' = NoTable /\ todo' = Boot
    /\ hw' = [p \in Pins |-> Reset(hw[p].level)]
    /\ pulse' = [p \in Pins |-> NoPulses]
    /\ asked' = {}
    /\ UNCHANGED saved

Interrupts == \E p \in Pins : PulseIsr(p) \/ WatchIsr(p) \/ DebounceIsr(p)

Next ==
    \/ \E p \in Pins : Edge(p) \/ TimerEnds(p) \/ Get(p) \/ Ack(p) \/ Answer(p)
    \/ Interrupts
    \/ \E c \in DOMAIN Commands, p \in Pins : Command(c, p)
    \/ MainStep
    \/ Save
    \/ ResetCommand
    \/ Wipe
    \/ Restart

\* Interrupts are taken, and main goes on when there are none.
Spec ==
    /\ Init /\ [][Next]_vars
    /\ \A p \in Pins : WF_vars(PulseIsr(p)) /\ WF_vars(WatchIsr(p)) /\ WF_vars(DebounceIsr(p))
    /\ WF_vars(MainStep)
-----------------------------------------------------------------------------
(* Properties.                                                             *)

\* The settings are those a pin can have, and the counters are in bounds.
TypeOK ==
    /\ ios \in [Pins -> State] /\ saved \in [Pins -> State]
    /\ DOMAIN hw = Pins
    /\ \A p \in Pins :
           /\ hw[p].tim \in {"off", "running", "due"}
           /\ pulse[p].count \in 0 .. MaxCount + 2 /\ pulse[p].send \in 0 .. MaxCount + 2
    /\ asked \subseteq Measured /\ faults.stale \subseteq Pins

\* An interrupt that asks for the processor has a handler that clears it;
\* without one it is taken again and again, and main does not run until the
\* watchdog restarts it.  Two edges are such interrupts.  One comes while
\* en_w1 or io has taken the use of a pin away and not yet its interrupt
\* (io.c:204, :286), or in a reset before osm_ios_init has the table.  The
\* other comes at any time after reset or wipe was given, to a pin which
\* listened and whose use was not saved: nothing ends its listening.
Handled ==
    \/ Had({"en_w1", "io", "reset"})
    \/ \A p \in Pins \ faults.stale : Raised(p) => IsPulse(p) \/ IsWatch(p)

\* The pins that may come to be counters.
Counters ==
    {p \in Pins : Default[p] \in Edges}
        \cup UNION {Commands[c] : c \in DOMAIN Commands \cap {"en_pulse"}}
Alone == \A p, q \in Counters : p = q

\* Between two commands the hardware is what the settings say: a counter
\* listens, or waits for its timer which will make it listen again, never
\* both; a watched input listens to both edges; no other pin interrupts,
\* but those of which a reset left the interrupt on.  A reset holds it too,
\* whatever the registers were, if no edge comes while it is at work.
\* pulse_dbnc sets up a counter that still listens: an edge between its EXTI
\* and its timer (pulsecount.c:255, :263) leaves it deaf.  With two counters
\* the start and en_pulse have the same gap, because the interrupt of one
\* looks at them all (pulsecount.c:191).
Deafened ==
    Had({"pulse_dbnc"}) \/ (~Alone /\ Had({"boot", "en_pulse"}))

Configured ==
    Idle /\ ~Had({"reset"}) => \A p \in Pins :
        /\ IsPulse(p) =>
               /\ Deafened \/ hw[p].exti # (hw[p].tim # "off")
               /\ hw[p].nvic /\ hw[p].timIrq /\ hw[p].input
               /\ hw[p].trig = ios[p].special /\ pulse[p].edge = ios[p].special
        /\ IsWatch(p) => /\ hw[p].exti /\ hw[p].nvic /\ hw[p].input
                         /\ hw[p].trig = "both"
                         /\ p \notin faults.stale => ~Due(p)
        /\ ~IsPulse(p) /\ ~IsWatch(p) /\ p \notin faults.stale =>
               ~hw[p].exti /\ ~hw[p].nvic /\ ~Due(p)

\* What is acknowledged has been counted: a count never goes below zero,
\* whatever commands come between the reading and its acknowledgement.
NoUnderflow == \A p \in Pins : pulse[p].send <= pulse[p].count

\* Between two commands every pin's hardware is what its settings say, and no
\* count is below what is to be taken off it.
SetUp == TypeOK /\ Configured /\ NoUnderflow

\* The measurement of a watched input on which an edge was seen has its
\* instant_send set, which is what the main loop looks for; not when an edge
\* of a reset came before the measurements were looked up (io_watch.c:151).
EdgeIsSeen ==
    \A p \in Measured :
        (Raised(p) /\ IsWatch(p)) ~> (p \in asked \/ Had({"restart", "reset"}))

\* A command, a start or a reset comes to its end, whatever edge comes while
\* it is at work, if not one that no handler clears.
CommandsEnd ==
    (~Idle) ~> \/ Idle
               \/ Had({"en_w1", "io", "reset"})
               \/ \E p \in faults.stale : Raised(p)

\* A watched input's edge has its measurement asked for, and commands end, but
\* in the cases named with each.
GoesOn == EdgeIsSeen /\ CommandsEnd
=============================================================================
