----------------------------- MODULE AdcSystem ------------------------------
(***************************************************************************)
(* The sensors on the analogue converter at work: the samples of           *)
(* Measurements, the commands that read a sensor while the main loop turns *)
(* inside them, the interrupt of the DMA, and the processor's sleep.       *)
(*                                                                         *)
(* There is no time here.  A conversion is over before its samples are     *)
(* wanted, save for those that had to wait for the converter; that it is   *)
(* not, or that a wait for it ends too soon, is the fault "slow".  Each    *)
(* fault and command that happens uses up one of MaxFaults.                *)
(***************************************************************************)
EXTENDS Adcs

CONSTANTS
    Enabled,        \* measurements with an interval, to begin with
    Immediate,      \* those of them with is_immediate set
    Nestable,       \* whether a command may come while another waits
    MaxFaults,      \* faults and commands in one behaviour
    Faults          \* of them, those that may happen

AdcSystemAssumption ==
    /\ NumCc \in Nat \ {0} /\ NumFt \in Nat \ {0}
    /\ Enabled \subseteq Sensors /\ Immediate \subseteq Enabled
    /\ Nestable \in BOOLEAN /\ MaxFaults \in Nat

VARIABLES
    adc,        \* the state of Adcs
    enabled,    \* measurements whose interval is not 0
    open,       \* those begun and not collected
    busy,       \* those with is_collecting set
    nest,       \* commands that wait, the innermost last
    faults      \* faults left, and those there were

vars == <<adc, enabled, open, busy, nest, faults>>

Keep == [adc EXCEPT !.resp = None, !.read = Unread]
Clean(s) == [s EXCEPT !.resp = None]

Init ==
    /\ adc = [Start EXCEPT !.active = Ordered(Enabled)]
    /\ enabled = Enabled
    /\ open = {} /\ busy = {} /\ nest = <<>>
    /\ faults = [left |-> MaxFaults, had |-> {}]

Had(fs) == faults.had \cap fs # {}

Fault(f) ==
    /\ f \in Faults /\ faults.left > 0
    /\ faults' = [left |-> faults.left - 1, had |-> faults.had \cup {f}]

\* An interrupt inside osm_adcs_begin is a fault; it needs a conversion.
Early(e) ==
    IF e THEN adc.on /\ ~adc.inUse /\ Fault("race") ELSE UNCHANGED faults

Lates == IF faults.had = {} THEN {FALSE} ELSE BOOLEAN
-----------------------------------------------------------------------------
(* Measurements: _measurements_sample.                                     *)

SampleInit(n) ==
    /\ nest = <<>> /\ n \in enabled \ open
    /\ IF n \in busy THEN UNCHANGED vars
       ELSE \E early \in BOOLEAN, late \in Lates :
                LET t == InitCb(Keep, n, FALSE, early, late) IN
                /\ Early(early)
                /\ adc' = Clean(t)
                /\ open' = IF t.resp = "SUCCESS" THEN open \cup {n} ELSE open
                /\ busy' = IF t.resp = "SUCCESS" THEN busy \cup {n} ELSE busy
                /\ UNCHANGED <<enabled, nest>>

SampleGet(n) ==
    /\ nest = <<>> /\ n \in enabled \cap open
    /\ \E fine \in BOOLEAN :
           LET t == GetCb(Keep, n, fine) IN
           /\ adc' = Clean(t)
           /\ open' = IF t.resp = "BUSY" THEN open ELSE open \ {n}
           /\ busy' = busy \ {n}
           /\ UNCHANGED <<enabled, nest, faults>>

\* The readings are sent 10 ms after an immediate one should have been
\* collected, and the counts of its samples start again.
Cut(n) ==
    /\ nest = <<>> /\ n \in Immediate \cap open /\ adc.inUse
    /\ Fault("cut")
    /\ open' = open \ {n}
    /\ UNCHANGED <<adc, enabled, busy, nest>>

\* _measurements_sleep_iteration: not while a sample is being taken.
SleepIteration ==
    /\ nest = <<>> /\ open = {}
    /\ \/ adc' = OffAndOn(Keep) /\ UNCHANGED <<nest, faults>>
       \/ \E early \in BOOLEAN :                  \* osm_bat_on_battery
              LET t == BatBegin(Keep, early) IN
              /\ Early(early)
              /\ adc' = Clean(t)
              /\ nest' = IF t.resp = "SUCCESS" THEN <<[what |-> "onbat"]>> ELSE nest
    /\ UNCHANGED <<enabled, open, busy>>

Dma ==
    /\ adc.on /\ (adc.inUse \/ adc.buf # adc.seq)
    /\ adc' = DmaComplete(Keep)
    /\ UNCHANGED <<enabled, open, busy, nest, faults>>
-----------------------------------------------------------------------------
(* Commands, from the console or from the network: whenever the main loop  *)
(* turns.                                                                  *)

May == nest = <<>> \/ (Nestable /\ Len(nest) < 2)

\* The command waits, or is done.
Waits(t, ok, call) ==
    /\ adc' = Clean(t)
    /\ nest' = IF t.resp = ok THEN Append(nest, call) ELSE nest

Command ==
    /\ May
    /\ \/ /\ Fault("cc")
          /\ \/ \E i \in 1..NumCc :
                    Waits(CcBegin(Keep, Cc(i), TRUE, FALSE), "SUCCESS",
                          [what |-> "cc", n |-> Cc(i)])
             \/ Waits(CcAllBegin(Keep, FALSE), "SUCCESS",
                      [what |-> "ccs", before |-> adc.active])
       \/ /\ Fault("cal")
          /\ Waits(CcCalibrateBegin(Keep, FALSE), "OK",
                   [what |-> "cal", before |-> adc.active])
       \/ /\ Fault("bat")
          /\ Waits(BatBegin(Keep, FALSE), "SUCCESS", [what |-> "bat"])
    /\ UNCHANGED <<enabled, open, busy>>

\* get_meas: _measurements_get_reading2.
\* Mutant: a measurement switched on for the command stays on.
ReadKeeps(s, n, was) == s

ReadDisable(s, n, was) == IF was THEN EnableCb(s, n, FALSE) ELSE s

ReadMeasurement(n) ==
    /\ May /\ n \notin busy /\ Fault("read")
    /\ LET was == n[1] = "CC" /\ ~IsActive(adc, n)
           s == IF was THEN EnableCb(Keep, n, TRUE) ELSE Keep
       IN  \E late \in Lates :
               LET t == InitCb(s, n, TRUE, FALSE, late) IN
               IF t.resp = "SUCCESS"
               THEN /\ Waits(t, "SUCCESS", [what |-> "read", n |-> n, was |-> was])
                    /\ busy' = busy \cup {n}
               ELSE /\ adc' = Clean(ReadDisable(t, n, was))
                    /\ busy' = busy \ {n} /\ UNCHANGED nest
    /\ UNCHANGED <<enabled, open>>

\* measurements_set_interval, to 0 and from 0.
SetInterval(n) ==
    /\ May /\ Fault("interval")
    /\ adc' = Clean(EnableCb(Keep, n, n \notin enabled))
    /\ enabled' = IF n \in enabled THEN enabled \ {n} ELSE enabled \cup {n}
    /\ UNCHANGED <<open, busy, nest>>

\* The command that sends the processor to sleep does not look what it is at.
SleepNow ==
    /\ May /\ Fault("sleep")
    /\ adc' = OffAndOn(Keep)
    /\ UNCHANGED <<enabled, open, busy, nest>>

\* The end of the innermost wait: the converter is done, or the time is up.
Ended(call, waited, fine) ==
    CASE call.what = "cc" -> CcBlockingEnd(Keep, call.n, waited, fine)
      [] call.what = "ccs" -> CcAllEnd(Keep, call.before, waited, fine)
      [] call.what = "cal" -> CcCalibrateEnd(Keep, call.before, waited)
      [] call.what = "bat" -> BatBlockingEnd(Keep, waited)
      [] call.what = "onbat" -> BatOnBatteryEnd(Keep, waited)
      [] call.what = "read" -> ReadDisable(GetCb(Keep, call.n, fine), call.n, call.was)

\* Of the commands that wait, the one whose wait is the main loop's, and those
\* it was called from.
Innermost(calls) == calls[Len(calls)]
Outer(calls) == SubSeq(calls, 1, Len(calls) - 1)

Return ==
    /\ nest # <<>>
    /\ LET call == Innermost(nest) IN
       /\ IF adc.inUse THEN Fault("slow") ELSE UNCHANGED faults
       /\ \E fine \in BOOLEAN : adc' = Clean(Ended(call, ~adc.inUse, fine))
       /\ busy' = IF call.what = "read" THEN busy \ {call.n} ELSE busy
       /\ nest' = Outer(nest)
    /\ UNCHANGED <<enabled, open>>
-----------------------------------------------------------------------------
Next ==
    \/ \E n \in Sensors : SampleInit(n) \/ SampleGet(n) \/ Cut(n)
    \/ SleepIteration \/ Dma
    \/ Command \/ SleepNow \/ Return
    \/ \E n \in Sensors : ReadMeasurement(n) \/ SetInterval(n)

\* The converter runs, and the main loop turns.
Fairness ==
    /\ WF_vars(Dma) /\ WF_vars(Return)
    /\ \A n \in Sensors : WF_vars(SampleGet(n))

Spec == Init /\ [][Next]_vars /\ Fairness
-----------------------------------------------------------------------------
TypeOK ==
    /\ adc.key \in {None, "CC", "FT", "BAT"}
    /\ Range(adc.active) \subseteq Range(AllCc)
    /\ adc.running \subseteq Range(AllCc) /\ adc.inited \subseteq Range(AllFt)
    /\ adc.inUse \in BOOLEAN /\ adc.resp = None
    /\ enabled \subseteq Sensors /\ open \subseteq Sensors /\ busy \subseteq Sensors

\* A reading is made from the samples of its own channel, and of no other:
\* not when a clamp was asked for alone while all of them are sampled, and not
\* when an interrupt came while a conversion was begun.
OwnSamples ==
    Had({"race", "cc", "read", "cal"}) \/ adc.read.from = {adc.read.of}

KeyOfCall(call) ==
    CASE call.what \in {"cc", "ccs", "cal"} -> "CC"
      [] call.what \in {"bat", "onbat"} -> "BAT"
      [] OTHER -> KeyOf(call.n)

\* Whoever has the converter is going to give it back: a sample of a sensor
\* with that key is being taken, or a command waits for one.  Not once a
\* command's wait timed out, a sample was cut off or an interval changed.
HeldForUse ==
    \/ Had({"slow", "interval", "cut"})
    \/ adc.key = None
    \/ \E n \in open : KeyOf(n) = adc.key
    \/ \E i \in DOMAIN nest : KeyOfCall(nest[i]) = adc.key

\* The clamps that are converted are those that are measured, whatever a
\* get_meas switched on in between, and however its wait ended short of a timeout.
ActiveIsEnabled ==
    nest = <<>> /\ ~Had({"interval", "cc", "cal", "slow"})
        => Range(adc.active) = enabled \cap Range(AllCc)

\* Every sample that is begun ends, in a reading or in an error: unless the
\* converter is switched off under it (by the command, or by the main loop's
\* sleep once a conversion was given up: a command timed out, a sample was cut
\* off or its interval set to 0).  These are the samples that are wanted.
Expected(n) == n \in open /\ ~Had({"sleep", "slow", "interval", "cut"})
=============================================================================
